-------------------------- MODULE KnowledgeLearning --------------------------
(***************************************************************************)
(* The knowledge service's background work: curation jobs that ingestion   *)
(* queues, the batches that collect and run them, the single-job runner    *)
(* beside the batches, the learning admissions, counter and rounds, the    *)
(* outbox of terminal experiences, and the startup and released-batch      *)
(* recovery.                                                               *)
(*                                                                         *)
(* One thread runs the dispatcher (KnowledgeRuntime.run_once): experience  *)
(* outbox, recovery of released learning batches, collection, the batch    *)
(* runner, the job runner.  Ingestion, receipts and Slack turns come from  *)
(* other threads, and a batch and a job each run in a child process; every *)
(* action here is one transaction of one of them.  An exception that       *)
(* leaves run_once ends the thread: pc "dead" until the service restarts.  *)
(*                                                                         *)
(* All jobs share one actor and one grant partition; a learning batch and  *)
(* a plain one never mix, nor do priorities.  A job is an event of a       *)
(* source, an edit's job replaces the revision of another job's source.    *)
(***************************************************************************)
EXTENDS LearningCatalog

CONSTANTS
    Decision,       \* decisions a curation may come to
    MaxJobs,        \* bound: events ingested in one behaviour
    MaxAttempts,    \* bound: recovered attempts of one batch
    MaxFaults,      \* bound: crashes, stops and children that die
    MayRevoke       \* bound: whether the authority may be withdrawn

ASSUME LearningAssumption ==
    /\ Decision \subseteq {"completed", "failed", "awaiting_answer"}
    /\ MaxJobs \in Nat /\ MaxAttempts \in Nat /\ MaxFaults \in Nat /\ MayRevoke \in BOOLEAN

None == "none"
Idle == [of |-> NoBatch, cancel |-> FALSE, result |-> None]

VARIABLES
    outbox,     \* pending terminal experiences, oldest first
    pc,         \* where the dispatcher thread stands
    batchRun,   \* the batch in a child process
    jobRun,     \* the job in a child process
    authority,  \* the bound actor's grants are current
    faults      \* history: faults so far (bounded)

vars == <<job, batches, adm, rounds, counter, outbox, pc, batchRun, jobRun, authority, faults>>

Up == {"experience", "recover", "collect", "batch", "jobs"}

Init ==
    /\ job = [j \in Job |-> [state |-> "none", batch |-> NoBatch]]
    /\ batches = << >>
    /\ adm = [a \in Adm |-> [state |-> "none", batch |-> NoBatch, round |-> None, valid |-> TRUE]]
    /\ rounds = [a \in Adm |-> "none"]
    /\ counter = [turns |-> 0, receipts |-> 0]
    /\ outbox = <<>>
    /\ pc = "experience"
    /\ batchRun = Idle /\ jobRun = Idle
    /\ authority = TRUE
    /\ faults = 0
------------------------------------------------------------------------------
(* Reading the catalog.                                                    *)

UrgentFirst(j, S) == j \in S /\ (j \in Urgent \/ S \cap Urgent = {})

\* Events batched together: same policy and priority.
SameKind(i, j) == (i \in Learning <=> j \in Learning) /\ (i \in Urgent <=> j \in Urgent)
BatchUrgent(b) == batches[b].of \in Urgent
BatchLearning(b) == batches[b].of \in Learning

\* A mutated form: batches are named after their first event alone.
GenerationZero(j) == 0

\* Terminal batches that held j: what makes the next batch's id new.
Generation(j) == Cardinality({b \in Ids : j \in batches[b].items /\ batches[b].state \notin LiveBatch})
------------------------------------------------------------------------------
(* Learning rounds as batches end.                                         *)

\* A round ends with the batch when no batch and no job of it is unfinished.
FinishRounds(b, js, bs, rs) ==
    LET Of(r) == {a \in Adm : adm[a].round = r}
        Ended == {r \in {adm[a].round : a \in {x \in Adm : adm[x].batch = b}} \ {None} :
                    /\ \A a \in Of(r) : bs[adm[a].batch].state \notin LiveBatch
                    /\ \A a \in Of(r) : js[JobOf(a)].state \notin Unfinished}
    IN  [r \in Adm |->
            CASE r \notin Ended -> rs[r]
              [] \E a \in Of(r) : \/ bs[adm[a].batch].state = "cancelled"
                                  \/ js[JobOf(a)].state \in {"failed", "cancelled"} -> "cancelled"
              [] OTHER -> "completed"]

StartRounds(b) ==
    [r \in Adm |-> IF rounds[r] = "ready" /\ \E a \in Adm : adm[a].batch = b /\ adm[a].round = r
                   THEN "running" ELSE rounds[r]]

\* The run's results settle their jobs; the others return to the queue.
FinishBatch(b, result, state, rs) ==
    LET Released == batches[b].items \ DOMAIN result
        js == [j \in Job |-> CASE j \in DOMAIN result -> [job[j] EXCEPT !.state = result[j]]
                               [] j \in Released -> [state |-> "queued", batch |-> NoBatch]
                               [] OTHER -> job[j]]
        bs == [batches EXCEPT ![b].state = state]
    IN  /\ job' = js
        /\ batches' = bs
        /\ rounds' = FinishRounds(b, js, bs, rs)

\* Jobs are failed outside any batch run, and the rounds of b looked at again.
FailJobs(b, J, bs) ==
    LET js == [j \in Job |-> IF j \in J THEN [job[j] EXCEPT !.state = "failed"] ELSE job[j]]
    IN  /\ job' = js
        /\ rounds' = FinishRounds(b, js, bs, rounds)
------------------------------------------------------------------------------
(* Other threads: ingestion, receipts, Slack turns and edits.              *)

Serving == pc \notin {"stopped", "starting", "closing"}

Ingest(j) ==
    /\ Serving /\ authority /\ job[j].state = "none"
    /\ j \in Urgent => job[Replaces[j]].state # "none"
    /\ Cardinality({i \in Job : job[i].state # "none"}) < MaxJobs
    /\ job' = [job EXCEPT ![j].state = "queued"]
    /\ UNCHANGED <<batches, adm, rounds, counter, outbox, pc, batchRun, jobRun, authority, faults>>

\* A tool receipt commits with its outbox row; a stale source is refused.
CommitReceipt(x) ==
    /\ Serving /\ adm[x].state = "none" /\ \A i \in 1..Len(outbox) : outbox[i] # x
    /\ job[SourceOf[x]].state # "none" /\ ~Superseded(SourceOf[x])
    /\ outbox' = Append(outbox, x)
    /\ UNCHANGED <<job, batches, adm, rounds, counter, pc, batchRun, jobRun, authority, faults>>

Pending(a) == a \in Experience /\ outbox # <<>> /\ Head(outbox) = a

\* A turn is admitted once its Run has been driven; an edit after the rounds
\* that hold the older revision were invalidated.
TurnDue(a) ==
    /\ a \in Learning /\ Serving /\ job[a].state # "none"
    /\ IF a \in Urgent
       THEN \A x \in Adm : JobOf(x) = Replaces[a] /\ adm[x].state \in {"open", "sealed"} => ~adm[x].valid
       ELSE adm[a].state \in {"none", "collected"}

\* What an admission needs of its source and job.
Admissible(a) ==
    /\ authority /\ ~Superseded(JobOf(a))
    /\ Queued(JobOf(a)) \/ job[JobOf(a)].batch # NoBatch

\* The batches with b as rec, whether it was there or not.
Put(b, rec) == [c \in Ids \cup {b} |-> IF c = b THEN rec ELSE batches[c]]

\* j joins a collecting batch of its kind, or opens one.
PutInBatch(j) ==
    LET Open == {b \in Ids : /\ batches[b].state = "collecting" /\ SameKind(batches[b].of, j)
                             /\ Cardinality(batches[b].items) < BatchLimit}
        New == <<j, Generation(j), 0>>
        Joined(b) == LET I == batches[b].items \cup {j}
                     IN  [batches[b] EXCEPT !.items = I,
                            !.state = IF Cardinality(I) = BatchLimit THEN "ready" ELSE @]
        First == [of |-> j, items |-> {j},
                  state |-> IF j \in Urgent \ Learning THEN "ready" ELSE "collecting"]
    IN  \E b \in (IF Open = {} THEN {New} ELSE Open) :
            /\ batches' = Put(b, IF Open = {} THEN First ELSE Joined(b))
            /\ job' = [job EXCEPT ![j] = [state |-> "waiting", batch |-> b]]

\* First transaction of an admission: find or make the batch of its job.
Collect(a) ==
    /\ TurnDue(a) \/ (Pending(a) /\ pc # "stopped")
    /\ Admissible(a)
    /\ IF Queued(JobOf(a)) THEN PutInBatch(JobOf(a)) ELSE UNCHANGED <<job, batches>>
    /\ adm' = IF adm[a].state \in {"none", "collected"}
              THEN [adm EXCEPT ![a].state = "collected", ![a].batch = job'[JobOf(a)].batch]
              ELSE adm
    /\ UNCHANGED <<rounds, counter, outbox, pc, batchRun, jobRun, authority, faults>>

\* What a seal takes: every open admission, or the uncounted edit alone.
SealWindow(a) ==
    IF Counted(a) THEN {a} \cup {x \in Adm : adm[x].state = "open" /\ adm[x].valid} ELSE {a}

Ready(b, bs) == IF bs[b].state = "collecting" THEN [bs[b] EXCEPT !.state = "ready"] ELSE bs[b]

\* A mutated form: every seal resets the counter.
AfterSealReset(a) == [turns |-> 0, receipts |-> 0]

AfterSeal(a) == IF Counted(a) THEN [turns |-> 0, receipts |-> 0] ELSE counter

\* Second transaction: count the admission, or seal the round it completes.
Admit(a, urgent) ==
    /\ adm[a].state = "collected" /\ pc # "stopped"
    /\ (a \in Experience => ~urgent) /\ (a \in Urgent => urgent)
    /\ LET turns == counter.turns + (IF a \in Learning /\ Counted(a) THEN 1 ELSE 0)
           receipts == counter.receipts + (IF a \in Experience THEN 1 ELSE 0)
           W == SealWindow(a)
       IN  IF urgent \/ turns >= Threshold \/ receipts >= Threshold
           THEN /\ adm' = [x \in Adm |-> IF x \in W THEN [adm[x] EXCEPT !.state = "sealed", !.round = a]
                                         ELSE adm[x]]
                /\ rounds' = [rounds EXCEPT ![a] = "ready"]
                /\ batches' = [b \in Ids |-> IF \E x \in W : adm[x].batch = b THEN Ready(b, batches)
                                             ELSE batches[b]]
                /\ counter' = AfterSeal(a)
           ELSE /\ adm' = [adm EXCEPT ![a].state = "open"]
                /\ counter' = [turns |-> turns, receipts |-> receipts]
                /\ UNCHANGED <<rounds, batches>>
    /\ UNCHANGED <<job, outbox, pc, batchRun, jobRun, authority, faults>>

\* The head of the outbox is acknowledged after its admission.
Ack ==
    /\ outbox # <<>> /\ adm[Head(outbox)].state \in {"open", "sealed"} /\ pc # "stopped"
    /\ outbox' = Tail(outbox)
    /\ pc' \in {pc} \cup (IF pc = "experience" THEN {"recover"} ELSE {})
    /\ UNCHANGED <<job, batches, adm, rounds, counter, batchRun, jobRun, authority, faults>>

\* An edit's canonical acknowledgement cancels the rounds of the older revision.
Invalidate(e) ==
    /\ Serving /\ authority /\ job[e].state # "none"
    /\ LET Old == {a \in Adm : JobOf(a) = Replaces[e] /\ adm[a].state \in {"open", "sealed"}}
           Hit == {adm[a].round : a \in {x \in Old : adm[x].valid}} \ {None}
           Cut == {b \in {adm[a].batch : a \in {x \in Adm : adm[x].round \in Hit}} :
                      batches[b].state \in {"collecting", "ready"}}
       IN  /\ \E a \in Old : adm[a].valid
           /\ adm' = [a \in Adm |-> IF a \in Old THEN [adm[a] EXCEPT !.valid = FALSE] ELSE adm[a]]
           /\ rounds' = [r \in Adm |-> IF r \in Hit THEN "cancelled" ELSE rounds[r]]
           /\ batches' = [b \in Ids |-> IF b \in Cut THEN [batches[b] EXCEPT !.state = "cancelled"]
                                        ELSE batches[b]]
           /\ job' = [j \in Job |-> IF job[j].batch \in Cut /\ job[j].state \in {"waiting", "queued"}
                                    THEN [job[j] EXCEPT !.state = "cancelled"] ELSE job[j]]
    /\ UNCHANGED <<counter, outbox, pc, batchRun, jobRun, authority, faults>>

\* The workspace's policy epoch moves on: what was bound to it loses its grants.
Revoke ==
    /\ MayRevoke /\ authority /\ Serving
    /\ authority' = FALSE
    /\ UNCHANGED <<job, batches, adm, rounds, counter, outbox, pc, batchRun, jobRun, faults>>
------------------------------------------------------------------------------
(* The dispatcher thread.                                                  *)

\* One pending experience is delivered (Collect, Admit, Ack), or none is; one
\* that cannot be admitted raises.
SkipExperience ==
    /\ pc = "experience" /\ outbox = <<>>
    /\ pc' = "recover"
    /\ UNCHANGED <<job, batches, adm, rounds, counter, outbox, batchRun, jobRun, authority, faults>>

ExperienceRaises ==
    /\ pc \in {"experience", "starting"} /\ outbox # <<>> /\ ~Admissible(Head(outbox))
    /\ pc' = IF pc = "starting" THEN "stopped" ELSE "dead"
    /\ UNCHANGED <<job, batches, adm, rounds, counter, outbox, batchRun, jobRun, authority, faults>>

RoundDue(a) == adm[a].round # None /\ rounds[adm[a].round] \in {"ready", "running"}

\* Jobs that an attempt of a valid, unfinished round released.
ReleasedBy(b) ==
    {j \in Learning : /\ Queued(j) /\ job[j].batch = NoBatch
                      /\ \E a \in Adm : /\ JobOf(a) = j /\ adm[a].batch = b /\ adm[a].valid
                                        /\ RoundDue(a)}

Recoverable == {b \in Ids : /\ batches[b].state \notin LiveBatch /\ ReleasedBy(b) # {}
                            /\ b[3] < MaxAttempts}

Recover(b) ==
    /\ pc = "recover" /\ b \in Recoverable
    /\ LET J == ReleasedBy(b)
           Bound == {a \in Adm : JobOf(a) \in J /\ adm[a].batch = b /\ adm[a].valid
                                 /\ RoundDue(a)}
           new == <<b[1], b[2], b[3] + 1>>
           r == CHOOSE x \in {adm[a].round : a \in Bound} : TRUE
       IN  CASE ~authority \/ Cardinality({adm[a].round : a \in Bound}) # 1 ->
                    /\ FailJobs(b, J, batches)
                    /\ UNCHANGED <<batches, adm, pc>>
             [] new \in Ids ->
                    /\ pc' = "dead"
                    /\ UNCHANGED <<job, batches, adm, rounds>>
             [] OTHER ->
                    /\ batches' = Put(new, [of |-> batches[b].of, items |-> J, state |-> "ready"])
                    /\ job' = [j \in Job |-> IF j \in J THEN [state |-> "waiting", batch |-> new] ELSE job[j]]
                    /\ adm' = [a \in Adm |-> IF a \in Bound THEN [adm[a] EXCEPT !.batch = new] ELSE adm[a]]
                    /\ UNCHANGED <<rounds, pc>>
    /\ UNCHANGED <<counter, outbox, batchRun, jobRun, authority, faults>>

NoneReleased ==
    /\ pc = "recover" /\ Recoverable = {}
    /\ pc' = "collect"
    /\ UNCHANGED <<job, batches, adm, rounds, counter, outbox, batchRun, jobRun, authority, faults>>

Plain == {j \in Job \ Learning : Queued(j)}

\* Queued plain jobs join a batch, or fail for want of a source or of authority.
CollectPending(j) ==
    /\ pc = "collect" /\ UrgentFirst(j, Plain)
    /\ IF authority /\ ~Superseded(j)
       THEN PutInBatch(j)
       ELSE job' = [job EXCEPT ![j].state = "failed"] /\ UNCHANGED batches
    /\ UNCHANGED <<adm, rounds, counter, outbox, pc, batchRun, jobRun, authority, faults>>

AllCollected ==
    /\ pc = "collect" /\ Plain = {}
    /\ pc' = "batch"
    /\ UNCHANGED <<job, batches, adm, rounds, counter, outbox, batchRun, jobRun, authority, faults>>

\* A plain collecting batch is claimed once its deadline has passed.
Claimable == {b \in Ids : \/ batches[b].state = "ready"
                          \/ batches[b].state = "collecting" /\ ~BatchLearning(b)}
Preempts == \E b \in Claimable : BatchUrgent(b)

\* The best batch is claimed and its work built; if that fails it completes
\* without results.
Claim(b) ==
    /\ pc = "batch" /\ batchRun = Idle /\ authority
    /\ b \in Claimable /\ (BatchUrgent(b) \/ ~Preempts)
    /\ pc' = "jobs"
    /\ IF \E j \in batches[b].items : Superseded(j)
       THEN /\ FinishBatch(b, << >>, "completed", StartRounds(b))
            /\ UNCHANGED batchRun
       ELSE /\ job' = [j \in Job |-> IF j \in batches[b].items THEN [job[j] EXCEPT !.state = "running"]
                                     ELSE job[j]]
            /\ batches' = [batches EXCEPT ![b].state = "running"]
            /\ rounds' = StartRounds(b)
            /\ batchRun' = [of |-> b, cancel |-> FALSE, result |-> None]
    /\ UNCHANGED <<adm, counter, outbox, jobRun, authority, faults>>

\* A batch whose authority is gone fails before it is claimed.
FailUnclaimed(b) ==
    /\ pc = "batch" /\ batchRun = Idle /\ ~authority /\ b \in Claimable
    /\ batches' = [batches EXCEPT ![b].state = "cancelled"]
    /\ job' = [j \in Job |-> IF job[j].batch = b /\ job[j].state = "waiting"
                             THEN [job[j] EXCEPT !.state = "failed"] ELSE job[j]]
    /\ UNCHANGED <<adm, rounds, counter, outbox, pc, batchRun, jobRun, authority, faults>>

NothingToClaim ==
    /\ pc = "batch" /\ batchRun = Idle
    /\ \A b \in Claimable : batches[b].state = "collecting"
    /\ pc' = "jobs"
    /\ UNCHANGED <<job, batches, adm, rounds, counter, outbox, batchRun, jobRun, authority, faults>>

\* A running batch is watched: an urgent one cancels a routine one.
WatchBatch ==
    /\ pc = "batch" /\ batchRun # Idle /\ batchRun.result = None
    /\ batchRun' = [batchRun EXCEPT !.cancel = @ \/ (~BatchUrgent(batchRun.of) /\ Preempts)]
    /\ pc' = "jobs"
    /\ UNCHANGED <<job, batches, adm, rounds, counter, outbox, jobRun, authority, faults>>

\* A mutated form: a child that died leaves its batch running.
ReapBatchForgets ==
    /\ pc = "batch" /\ batchRun # Idle /\ batchRun.result # None
    /\ batchRun' = Idle /\ pc' = "jobs"
    /\ UNCHANGED <<job, batches, adm, rounds, counter, outbox, jobRun, authority, faults>>

\* The child ended: what it did not finish is cancelled and released.
ReapBatch ==
    /\ pc = "batch" /\ batchRun # Idle /\ batchRun.result # None
    /\ IF batches[batchRun.of].state = "running"
       THEN IF authority
            THEN /\ FinishBatch(batchRun.of, << >>, "cancelled", rounds)
                 /\ batchRun' = Idle /\ pc' = "jobs"
            ELSE pc' = "dead" /\ UNCHANGED <<job, batches, rounds, batchRun>>
       ELSE batchRun' = Idle /\ pc' = "jobs" /\ UNCHANGED <<job, batches, rounds>>
    /\ UNCHANGED <<adm, counter, outbox, jobRun, authority, faults>>

Runnable == {j \in Job : Queued(j)}

\* The runner takes any queued job, of every kind, urgent ones first.
ClaimJob(j) ==
    /\ pc = "jobs" /\ jobRun = Idle /\ UrgentFirst(j, Runnable)
    /\ job' = [job EXCEPT ![j].state = "running"]
    /\ jobRun' = [of |-> j, cancel |-> FALSE, result |-> None]
    /\ pc' = "experience"
    /\ UNCHANGED <<batches, adm, rounds, counter, outbox, batchRun, authority, faults>>

NoJob ==
    /\ pc = "jobs" /\ jobRun = Idle /\ Runnable = {}
    /\ pc' = "experience"
    /\ UNCHANGED <<job, batches, adm, rounds, counter, outbox, batchRun, jobRun, authority, faults>>

\* A running job is watched, and finished once its child has answered.
WatchJob ==
    /\ pc = "jobs" /\ jobRun # Idle
    /\ IF jobRun.result = None
       THEN /\ jobRun' = [jobRun EXCEPT !.cancel =
                            @ \/ (jobRun.of \notin Urgent /\ Runnable \cap Urgent # {})]
            /\ UNCHANGED job
       ELSE /\ job' = [job EXCEPT ![jobRun.of].state =
                            IF jobRun.cancel THEN "cancelled" ELSE jobRun.result]
            /\ jobRun' = Idle
    /\ pc' = "experience"
    /\ UNCHANGED <<batches, adm, rounds, counter, outbox, batchRun, authority, faults>>
------------------------------------------------------------------------------
(* The child processes.                                                    *)

\* A batch's child commits its decisions, all of them unless it was cancelled.
BatchDecides ==
    /\ batchRun # Idle /\ batchRun.result = None
    /\ LET b == batchRun.of
           Done == IF batchRun.cancel THEN SUBSET batches[b].items ELSE {batches[b].items}
       IN  IF authority
           THEN \E D \in Done : \E result \in [D -> Decision] :
                    FinishBatch(b, result, IF batchRun.cancel THEN "cancelled" ELSE "completed", rounds)
           ELSE UNCHANGED <<job, batches, rounds>>
    /\ batchRun' = [batchRun EXCEPT !.result = "ended"]
    /\ UNCHANGED <<adm, counter, outbox, pc, jobRun, authority, faults>>

\* A job's child answers; without its source or authority it fails.
JobDecides ==
    /\ jobRun # Idle /\ jobRun.result = None
    /\ \E result \in (IF authority /\ ~Superseded(jobRun.of) THEN Decision \cup {"parked"} ELSE {"failed"}) :
            jobRun' = [jobRun EXCEPT !.result = result]
    /\ UNCHANGED <<job, batches, adm, rounds, counter, outbox, pc, batchRun, authority, faults>>

\* The batch's child dies before it commits.
BatchDies ==
    /\ batchRun # Idle /\ batchRun.result = None /\ faults < MaxFaults
    /\ batchRun' = [batchRun EXCEPT !.result = "ended"]
    /\ faults' = faults + 1
    /\ UNCHANGED <<job, batches, adm, rounds, counter, outbox, pc, jobRun, authority>>
------------------------------------------------------------------------------
(* Stop, crash and start.                                                  *)

RequestStop ==
    /\ pc \in Up /\ faults < MaxFaults
    /\ pc' = "closing"
    /\ batchRun' = [batchRun EXCEPT !.cancel = batchRun # Idle]
    /\ jobRun' = [jobRun EXCEPT !.cancel = jobRun # Idle]
    /\ faults' = faults + 1
    /\ UNCHANGED <<job, batches, adm, rounds, counter, outbox, authority>>

\* close: an unfinished batch is cancelled, a job still running too; a job
\* whose child had answered is only forgotten.
Close ==
    /\ pc = "closing" /\ (authority \/ batchRun = Idle)
    /\ LET b == batchRun.of
           Kill(js) == IF jobRun # Idle /\ jobRun.result = None
                       THEN [js EXCEPT ![jobRun.of].state = "cancelled"] ELSE js
       IN  IF batchRun # Idle /\ batches[b].state = "running"
           THEN LET js == [j \in Job |-> IF j \in batches[b].items
                                         THEN [state |-> "queued", batch |-> NoBatch] ELSE job[j]]
                    bs == [batches EXCEPT ![b].state = "cancelled"]
                IN  /\ job' = Kill(js)
                    /\ batches' = bs
                    /\ rounds' = FinishRounds(b, js, bs, rounds)
           ELSE job' = Kill(job) /\ UNCHANGED <<batches, rounds>>
    /\ pc' = "stopped" /\ batchRun' = Idle /\ jobRun' = Idle
    /\ UNCHANGED <<adm, counter, outbox, authority, faults>>

Crash ==
    /\ pc # "stopped" /\ (faults < MaxFaults \/ pc \in {"dead", "closing"})
    /\ pc' = "stopped" /\ batchRun' = Idle /\ jobRun' = Idle
    /\ faults' = IF pc \in {"dead", "closing"} THEN faults ELSE faults + 1
    /\ UNCHANGED <<job, batches, adm, rounds, counter, outbox, authority>>

\* Startup delivers the whole outbox, then recovers the running batches.
Start ==
    /\ pc = "stopped"
    /\ pc' = "starting"
    /\ UNCHANGED <<job, batches, adm, rounds, counter, outbox, batchRun, jobRun, authority, faults>>

\* A mutated form: the jobs are requeued and the batches left running.
RecoverRunningJobs ==
    /\ pc = "starting" /\ outbox = <<>>
    /\ LET Running == {b \in Ids : batches[b].state = "running"}
       IN  job' = [j \in Job |-> IF job[j].batch \in Running /\ job[j].state = "running"
                                 THEN [state |-> "queued", batch |-> NoBatch] ELSE job[j]]
    /\ pc' = "experience"
    /\ UNCHANGED <<batches, adm, rounds, counter, outbox, batchRun, jobRun, authority, faults>>

RecoverRunning ==
    /\ pc = "starting" /\ outbox = <<>>
    /\ LET Running == {b \in Ids : batches[b].state = "running"}
       IN  /\ batches' = [b \in Ids |-> IF b \in Running THEN [batches[b] EXCEPT !.state = "cancelled"]
                                        ELSE batches[b]]
           /\ job' = [j \in Job |-> IF job[j].batch \in Running /\ job[j].state = "running"
                                    THEN [state |-> "queued", batch |-> NoBatch] ELSE job[j]]
    /\ pc' = "experience"
    /\ UNCHANGED <<adm, rounds, counter, outbox, batchRun, jobRun, authority, faults>>
------------------------------------------------------------------------------
Foreground ==
    \/ \E j \in Job : Ingest(j)
    \/ \E e \in Urgent : Invalidate(e)
    \/ \E x \in Experience : CommitReceipt(x)
    \/ Revoke

Admission == \/ \E a \in Adm : Collect(a) \/ \E u \in BOOLEAN : Admit(a, u)
             \/ Ack

Dispatcher ==
    \/ SkipExperience \/ ExperienceRaises
    \/ \E b \in Ids : Recover(b) \/ Claim(b) \/ FailUnclaimed(b)
    \/ NoneReleased \/ AllCollected \/ NothingToClaim
    \/ WatchBatch \/ ReapBatch \/ NoJob \/ WatchJob
    \/ \E j \in Job : CollectPending(j) \/ ClaimJob(j)

Children == BatchDecides \/ JobDecides

Service == RequestStop \/ Close \/ Crash \/ Start \/ RecoverRunning

Next == Foreground \/ Admission \/ Dispatcher \/ Children \/ BatchDies \/ Service

\* The thread runs while it lives, a child ends, a pending experience is
\* delivered; nothing outside is promised.
Fairness ==
    /\ WF_vars(Dispatcher) /\ WF_vars(Children)
    /\ WF_vars(\E x \in Experience : Pending(x) /\ (Collect(x) \/ Admit(x, FALSE))) /\ WF_vars(Ack)
    /\ WF_vars(Start \/ RecoverRunning) /\ WF_vars(pc = "closing" /\ (Close \/ Crash))

Spec == Init /\ [][Next]_vars /\ Fairness
------------------------------------------------------------------------------
(* Properties.                                                             *)

\* A batch that is ready or running comes to an end, also across crashes,
\* preemption and failing work, unless the dispatcher thread died of an
\* exception and the service is not started again.
BatchesEnd ==
    \A j \in Job : LET Due == job[j].batch # NoBatch /\ batches[job[j].batch].state \in {"ready", "running"}
                   IN  Due ~> (~Due \/ pc \in {"dead", "stopped"})

\* docs/architecture/system.md:407: "Terminal experience outbox recovery runs
\* before normal processing, so a committed terminal receipt can resume
\* delivery".  The runner takes a learning job that ingestion queued, outside
\* any batch; the receipts bound to its source can then never be admitted.
ExperienceDeliverable ==
    \A i \in 1..Len(outbox) :
        LET j == SourceOf[outbox[i]]
        IN  job[j].state \in Settled => job[j].batch # NoBatch
=============================================================================
