------------------------------ MODULE DriveQueue ------------------------------
(***************************************************************************)
(* Durable continuation of Runs: the runnable queue                        *)
(* (agent/service/drive_work.py) beside the Run ledger, and the workers of *)
(* the HTTP, Slack and slash-command channels that put authenticated jobs  *)
(* and queue claims through it (channels/http/jobs.py,                     *)
(* channels/slack_events.py, channels/slack_commands.py).                  *)
(*                                                                         *)
(* Several processes of one deployment overlap during a rolling restart.   *)
(* A process has one worker thread per channel, a lock per Run             *)
(* (run_locks.py) and one owner identity for its lifetime.  A worker holds *)
(* a Run for a bounded slice of commits: ownership() takes the row and     *)
(* writes its lease, every commit re-checks owner, lease and revision in   *)
(* the ledger's transaction, and the exit publishes the next phase.  Each  *)
(* action is one database transaction; a crash may come between any two.   *)
(***************************************************************************)
EXTENDS Naturals, FiniteSets

CONSTANTS
    Procs, Threads, Runs,
    ProcOf,         \* the process of each worker thread
    ChanOf,         \* the channel a worker thread serves
    Jobs,           \* job identities: Nat, ordered as the inbox's rowid
    JobRun, JobAction, JobChan,
    Lease,          \* DriveWorkQueue.lease_duration
    NoRun, NoOwner, NoRow,
    MaxTime,        \* bound: the clock
    MaxRev,         \* bound: commits per Run (the segment's decision cap)
    MaxFaults       \* bound: crashes plus failed slices

Channels == {"http", "slack", "slack_command"}
Actions == {"create", "resume", "input", "approval"}

ASSUME DriveConstants ==
    /\ ProcOf \in [Threads -> Procs] /\ ChanOf \in [Threads -> Channels]
    /\ Jobs \subseteq Nat \ {0}
    /\ JobRun \in [Jobs -> Runs] /\ JobAction \in [Jobs -> Actions]
    /\ JobChan \in [Jobs -> Channels]
    /\ Lease \in Nat \ {0} /\ MaxTime \in Nat /\ MaxRev \in Nat /\ MaxFaults \in Nat
    /\ NoRun \notin Runs /\ NoOwner \notin Procs \X Nat

VARIABLES
    clock,
    run,        \* agent_runs: revision and mode of each Run
    row,        \* agent_drive_work
    origin,     \* agent_drive_origins: channel and event (job) of each Run
    job,        \* inbox state of each job
    planned,    \* Slack jobs whose plan was saved (plan_json)
    deferred,   \* jobs whose result waits for the Run (notification_state)
    th,         \* each worker thread
    boots,      \* process lifetimes so far: part of the owner identity
    faults

vars == <<clock, run, row, origin, job, planned, deferred, th, boots, faults>>

Modes == {"absent", "created", "running", "input", "approval", "tool",
          "satisfied", "blocked"}
Drivable == {"created", "running", "tool"}
Claimed == {"running", "notifying"}
Owners == Procs \X Nat

Row == [rev : Nat, state : {"pending", "notify"} \cup Claimed,
        owner : Owners \cup {NoOwner}, until : Nat]

Thread == [pc : {"down", "idle", "job", "claimed",
                 "entered",                     \* inside ownership(), not yet locked
                 "slice",                       \* inside ownership() and the Run's lock
                 "exiting",                     \* the lock is released, the row is not
                 "finish", "ack"},
           job : Jobs \cup {0},                 \* 0: the thread holds no job
           event : Jobs \cup {0},               \* the claim's origin event
           run : Runs \cup {NoRun},
           phase : {"drive", "notify"},         \* of the claim
           rev : Nat,                           \* revision fence: claim's, then the slice's
           until : Nat,                         \* lease_expires_at the thread believes in
           now : Nat,                           \* the instant its lease checks read
           release : {"pending", "notify"},     \* release_state
           worked : BOOLEAN]                    \* the slice did its duty

Idle == [pc |-> "idle", job |-> 0, event |-> 0, run |-> NoRun, phase |-> "drive", rev |-> 0,
         until |-> 0, now |-> 0, release |-> "pending", worked |-> FALSE]
Down == [Idle EXCEPT !.pc = "down"]

TypeOK ==
    /\ clock \in Nat
    /\ run \in [Runs -> [rev : Nat, mode : Modes]]
    /\ row \in [Runs -> Row \cup {NoRow}]
    /\ origin \in [Runs -> [chan : Channels, job : Jobs] \cup {NoRow}]
    /\ job \in [Jobs -> {"absent", "pending", "running", "done", "blocked"}]
    /\ planned \subseteq Jobs /\ deferred \subseteq Jobs
    /\ th \in [Threads -> Thread]
    /\ boots \in [Procs -> Nat]
    /\ faults \in Nat

Init ==
    /\ clock = 1
    /\ run = [r \in Runs |-> [rev |-> 0, mode |-> "absent"]]
    /\ row = [r \in Runs |-> NoRow]
    /\ origin = [r \in Runs |-> NoRow]
    /\ job = [j \in Jobs |-> "absent"]
    /\ planned = {} /\ deferred = {}
    /\ th = [t \in Threads |-> Down]
    /\ boots = [p \in Procs |-> 0]
    /\ faults = 0

-----------------------------------------------------------------------------
(* The queue's own operations, as functions of the current state. *)

Owner(t) == <<ProcOf[t], boots[ProcOf[t]]>>

Expired(w) == w.until <= clock

Released(w, state) == [w EXCEPT !.state = state, !.owner = NoOwner, !.until = 0]

\* Mutated form: recovery that does not ask for expiry.
RecoveredUnexpired(w) ==
    IF w # NoRow /\ w.state \in Claimed
    THEN Released(w, IF w.state = "notifying" THEN "notify" ELSE "pending")
    ELSE w
\* _recover_expired and _recover_run_expired: an interrupted claim, back in its phase.
Recovered(w) ==
    IF w # NoRow /\ w.state \in Claimed /\ Expired(w)
    THEN Released(w, IF w.state = "notifying" THEN "notify" ELSE "pending")
    ELSE w

RecoveredChannel(ch) ==
    [r \in Runs |-> IF origin[r] # NoRow /\ origin[r].chan = ch
                    THEN Recovered(row[r]) ELSE row[r]]

\* _require_owned_claim once it is inside: the loop's now passed on entry.
HoldsClaim(t) ==
    LET w == row[th[t].run] IN
    w # NoRow /\ w.state \in Claimed /\ w.rev = th[t].rev /\ w.owner = Owner(t)

OwnsClaim(t) == HoldsClaim(t) /\ row[th[t].run].until > th[t].now

\* _transition_ownership for a thread inside ownership(); the second admission
\* of one commit finds the row it just wrote and changes nothing.
MayTransition(t, instant) ==
    LET w == row[th[t].run] IN
    IF w = NoRow THEN th[t].phase = "drive"
    ELSE /\ w.state = "running" /\ w.owner = Owner(t) /\ w.until > instant
         /\ w.rev = run[th[t].run].rev

\* No claim on the row: what ownership(origin=...) and, outside any ownership(),
\* _transition_ownership ask for.
Free(w) == w # NoRow => w.state \notin Claimed

\* Mutated form: the row of a settled Run stays due for a drive.
TargetAlwaysPending(mode) == "pending"

\* _target_queue_state
Target(mode) == IF mode = "running" THEN "pending" ELSE "notify"

\* Mutated form: a fence that only knows approvals.
InputPendingApprovals(r, ch) ==
    \E j \in Jobs : job[j] = "pending" /\ JobRun[j] = r /\ JobChan[j] = ch
                     /\ JobAction[j] = "approval"
\* _fence_pending_input: what the origin's inbox still holds for this Run.
InputPending(r, ch) ==
    \E j \in Jobs :
        /\ job[j] = "pending" /\ JobRun[j] = r /\ JobChan[j] = ch
        /\ ch = "http" => JobAction[j] \in {"input", "approval"}

\* Mutated form: the revision fence is not moved.
TransitionedUnfenced(t) ==
    [rev |-> run[th[t].run].rev, state |-> "running",
     owner |-> Owner(t), until |-> th[t].until]

\* transition(): the row after a commit inside t's slice.
Transitioned(t) ==
    [rev |-> run[th[t].run].rev + 1, state |-> "running",
     owner |-> Owner(t), until |-> th[t].until]

\* The job's own service call takes the Run's lock after ownership(): the slash-command
\* worker holds none, and a Slack create holds the lock of its conversation.
LateLock(t) ==
    /\ th[t].job # 0
    /\ \/ ChanOf[t] = "slack_command"
       \/ ChanOf[t] = "slack" /\ JobAction[th[t].job] = "create"

\* RunLocks.hold: no other thread of the process is inside for this Run; the
\* Slack worker keeps the lock until its result is stored.
LockFree(t, r) ==
    \A u \in Threads \ {t} :
        ProcOf[u] = ProcOf[t] /\ th[u].run = r =>
            /\ th[u].pc # "slice"
            /\ ChanOf[u] = "slack" /\ ~LateLock(u) => th[u].pc \notin {"finish", "ack"}

-----------------------------------------------------------------------------
(* Inbox: admission, claim, recovery. *)

\* enqueue / admit: jobs arrive in rowid order; all but create need the Run.
Enqueue(j) ==
    /\ job[j] = "absent"
    /\ \A k \in Jobs : k < j => job[k] # "absent"
    /\ JobAction[j] # "create" => run[JobRun[j]].mode # "absent"
    /\ job' = [job EXCEPT ![j] = "pending"]
    /\ UNCHANGED <<clock, run, row, origin, planned, deferred, th, boots, faults>>

\* The oldest pending job; the Slack inboxes also wait for the Run's running one.
Claimable(ch) ==
    {j \in Jobs :
        /\ job[j] = "pending" /\ JobChan[j] = ch
        /\ ch # "http" => \A k \in Jobs : ~(JobChan[k] = ch /\ JobRun[k] = JobRun[j]
                                           /\ job[k] = "running")}

TakeJob(t) ==
    /\ th[t].pc = "idle"
    /\ \E j \in Claimable(ChanOf[t]) :
        /\ \A k \in Claimable(ChanOf[t]) : j <= k
        /\ job' = [job EXCEPT ![j] = "running"]
        /\ th' = [th EXCEPT ![t] = [Idle EXCEPT !.pc = "job", !.job = j,
                                               !.run = JobRun[j], !.now = clock]]
    /\ UNCHANGED <<clock, run, row, origin, planned, deferred, boots, faults>>

\* The Slack worker decides what the message asks for, and saves it.
PlanJob(t) ==
    LET j == th[t].job IN
    /\ th[t].pc = "job" /\ ChanOf[t] = "slack" /\ j \notin planned
    /\ planned' = planned \cup {j}
    /\ UNCHANGED <<clock, run, row, origin, job, deferred, th, boots, faults>>

Replayable(j) ==
    \/ JobAction[j] = "create"
    \/ JobChan[j] = "http" /\ JobAction[j] = "resume"
    \/ JobChan[j] = "slack" /\ j \notin planned

\* recover() when a channel's thread starts: its own inbox and its expired rows,
\* whichever process was working on them.
Boot(t) ==
    /\ th[t].pc = "down"
    /\ row' = RecoveredChannel(ChanOf[t])
    /\ job' = [j \in Jobs |->
                  IF job[j] = "running" /\ JobChan[j] = ChanOf[t]
                  THEN IF Replayable(j) THEN "pending" ELSE "blocked"
                  ELSE job[j]]
    /\ th' = [th EXCEPT ![t] = Idle]
    /\ UNCHANGED <<clock, run, origin, planned, deferred, boots, faults>>

\* The process dies: its threads, its locks and its owner identity are gone.
\* (Bound: only while every lease it holds can still run out before MaxTime.)
Crash(p) ==
    /\ faults < MaxFaults /\ clock + Lease <= MaxTime
    /\ faults' = faults + 1
    /\ boots' = [boots EXCEPT ![p] = @ + 1]
    /\ th' = [t \in Threads |-> IF ProcOf[t] = p THEN Down ELSE th[t]]
    /\ UNCHANGED <<clock, run, row, origin, job, planned, deferred>>

-----------------------------------------------------------------------------
(* Claiming queue work and entering ownership(). *)

\* claim(): recovers the channel's expired rows, then takes one due row.
ClaimDrive(t) ==
    /\ th[t].pc = "idle" /\ Claimable(ChanOf[t]) = {}
    /\ LET rows == RecoveredChannel(ChanOf[t]) IN
       \E r \in Runs :
        /\ origin[r] # NoRow /\ origin[r].chan = ChanOf[t]
        /\ rows[r] # NoRow /\ rows[r].state \in {"pending", "notify"}
        /\ row' = [rows EXCEPT ![r].state = IF rows[r].state = "notify" THEN "notifying"
                                                                        ELSE "running",
                               ![r].owner = Owner(t), ![r].until = clock + Lease]
        /\ th' = [th EXCEPT ![t] =
                    [Idle EXCEPT !.pc = "claimed", !.run = r, !.rev = rows[r].rev,
                                 !.event = origin[r].job,
                                 !.phase = IF rows[r].state = "notify" THEN "notify" ELSE "drive",
                                 !.until = clock + Lease, !.now = clock]]
    /\ UNCHANGED <<clock, run, origin, job, planned, deferred, boots, faults>>

\* ownership(claim=...): the claim must still be ours.  drive() then reads the
\* clock once per transition, before the provider call.
EnterClaim(t) ==
    /\ th[t].pc = "claimed" /\ LockFree(t, th[t].run)
    /\ th' = [th EXCEPT ![t] =
                IF OwnsClaim(t)
                THEN [@ EXCEPT !.pc = "slice",
                               !.now = IF th[t].phase = "drive" THEN clock ELSE @,
                               !.release = IF th[t].phase = "notify" THEN "notify" ELSE "pending"]
                ELSE Idle]
    /\ UNCHANGED <<clock, run, row, origin, job, planned, deferred, boots, faults>>

ReadyJob(t) ==
    /\ th[t].pc = "job" /\ (ChanOf[t] = "slack" => th[t].job \in planned)
    /\ LateLock(t) \/ LockFree(t, th[t].run)

\* ownership(origin=...): take a free or expired row and rebind the origin.
EnterJob(t) ==
    LET r == th[t].run  w == Recovered(row[r]) IN
    /\ ReadyJob(t)
    /\ Free(w)
    /\ row' = [row EXCEPT ![r] =
                 IF w = NoRow THEN NoRow
                 ELSE [w EXCEPT !.state = "running", !.owner = Owner(t),
                                !.until = th[t].now + Lease]]
    /\ origin' = [origin EXCEPT ![r] = [chan |-> ChanOf[t], job |-> th[t].job]]
    /\ th' = [th EXCEPT ![t] =
                [@ EXCEPT !.pc = IF LateLock(t) THEN "entered" ELSE "slice",
                          !.rev = run[r].rev, !.until = th[t].now + Lease,
                          !.release = IF w # NoRow /\ w.state = "notify" THEN "notify"
                                                                         ELSE "pending"]]
    /\ UNCHANGED <<clock, run, job, planned, deferred, boots, faults>>

\* The live lease of another slice: back to the inbox, except for a slash command,
\* whose worker ends every exception blocked.
JobMeetsLiveLease(t) ==
    /\ ReadyJob(t)
    /\ ~Free(Recovered(row[th[t].run]))
    /\ job' = [job EXCEPT ![th[t].job] =
                 IF ChanOf[t] = "slack_command" THEN "blocked"
                 ELSE IF @ = "running" THEN "pending" ELSE @]
    /\ th' = [th EXCEPT ![t] = Idle]
    /\ UNCHANGED <<clock, run, row, origin, planned, deferred, boots, faults>>

-----------------------------------------------------------------------------
(* Inside ownership(): the commits of one bounded slice, and its exit. *)

\* A service call that locks late waits for the lock, then loads the Run.
TakeLock(t) ==
    /\ th[t].pc = "entered" /\ LockFree(t, th[t].run)
    /\ th' = [th EXCEPT ![t].pc = "slice", ![t].rev = run[th[t].run].rev]
    /\ UNCHANGED <<clock, run, row, origin, job, planned, deferred, boots, faults>>

\* service.create for a Run that does not exist yet; no queue row is written.
CreateRun(t) ==
    LET r == th[t].run IN
    /\ th[t].pc = "slice" /\ th[t].job # 0 /\ JobAction[th[t].job] = "create"
    /\ run[r].mode = "absent"
    /\ run' = [run EXCEPT ![r].mode = "created"]
    /\ UNCHANGED <<clock, row, origin, job, planned, deferred, th, boots, faults>>

\* What the slice may do next to its Run: drive it, or apply the job's input.
Workable(t) ==
    LET r == th[t].run  j == th[t].job IN
    IF j # 0 /\ JobAction[j] \in {"input", "approval"} /\ ~th[t].worked
    THEN run[r].mode = JobAction[j]
    ELSE run[r].mode \in Drivable

\* "tool" waits for an external result or its reconciliation; "blocked" stands for
\* every end short of an accepted completion.
NextModes(t) ==
    CASE run[th[t].run].mode = "created" -> {"running", "input", "blocked"}
      [] run[th[t].run].mode = "running" -> {"running", "input", "approval", "tool",
                                             "satisfied", "blocked"}
      [] run[th[t].run].mode = "input" -> {"running"}
      [] OTHER -> {"running", "blocked"}

\* _append_step inside a slice: compare-and-swap on the revision, then the
\* queue's admission in the same transaction.  (Bound: a decision to go on leaves
\* room for an operation that settles and for an end.)
Commit(t, mode) ==
    LET r == th[t].run IN
    /\ th[t].pc = "slice" /\ th[t].phase = "drive"
    /\ Workable(t) /\ mode \in NextModes(t)
    /\ run[r].rev = th[t].rev
    /\ run[r].rev + (IF mode = "running" THEN 2 ELSE 0) < MaxRev
    /\ MayTransition(t, th[t].now)
    /\ mode = "satisfied" => ~InputPending(r, origin[r].chan)
    /\ run' = [run EXCEPT ![r] = [rev |-> @.rev + 1, mode |-> mode]]
    /\ row' = [row EXCEPT ![r] = Transitioned(t)]
    /\ th' = [th EXCEPT ![t].rev = @ + 1, ![t].release = Target(mode), ![t].worked = TRUE,
                         ![t].now = clock]
    /\ UNCHANGED <<clock, origin, job, planned, deferred, boots, faults>>

\* block(): the origin's actor lost its authority before the claim was driven.  A
\* notify claim is only discarded; any other Run is blocked, whatever its state.
BlockRun(t) ==
    LET r == th[t].run IN
    /\ faults < MaxFaults
    /\ th[t].pc = "slice" /\ th[t].job = 0 /\ ~th[t].worked
    /\ HoldsClaim(t) /\ run[r].rev < MaxRev
    /\ run' = IF th[t].phase = "notify" THEN run
              ELSE [run EXCEPT ![r] = [rev |-> @.rev + 1, mode |-> "blocked"]]
    /\ row' = [row EXCEPT ![r] = NoRow]
    /\ job' = IF ChanOf[t] = "http" THEN [job EXCEPT ![th[t].event] = "blocked"] ELSE job
    /\ th' = [th EXCEPT ![t] = Idle]
    /\ faults' = faults + 1
    /\ UNCHANGED <<clock, origin, planned, deferred, boots>>

\* A notify claim stores its result before it discards the row.
PersistNotice(t) ==
    /\ th[t].pc = "slice" /\ th[t].phase = "notify" /\ ~th[t].worked
    /\ deferred' = IF ChanOf[t] = "slack_command" /\ run[th[t].run].mode = "running"
                    THEN deferred ELSE deferred \ {th[t].event}
    /\ th' = [th EXCEPT ![t].worked = TRUE]
    /\ UNCHANGED <<planned, clock, run, row, origin, job, boots, faults>>

\* _release_ownership: whatever row this process still owns gets the slice's target.
ReleasedBy(t) ==
    LET w == row[th[t].run] IN
    IF w # NoRow /\ w.state \in Claimed /\ w.owner = Owner(t)
    THEN Released(w, th[t].release) ELSE w

AfterSlice(t, ok) ==
    IF th[t].job = 0 THEN Idle ELSE [th[t] EXCEPT !.pc = "finish", !.worked = ok]

\* The slice ends.  A late lock is released a step before the row is.
EndSlice(t, ok) ==
    IF LateLock(t)
    THEN /\ row' = row
         /\ th' = [th EXCEPT ![t].pc = "exiting", ![t].worked = ok]
    ELSE /\ row' = [row EXCEPT ![th[t].run] = ReleasedBy(t)]
         /\ th' = [th EXCEPT ![t] = AfterSlice(t, ok)]

\* Nothing left to commit here: another state, a lost claim, or a pending input.
Hindered(t) ==
    \/ ~Workable(t) \/ ~MayTransition(t, clock)
    \/ run[th[t].run].mode = "tool"
    \/ run[th[t].run].rev # th[t].rev
    \/ /\ run[th[t].run].mode = "running"
       /\ InputPending(th[t].run, origin[th[t].run].chan)

\* The slice's budget is used, or it cannot go on.
LeaveSlice(t) ==
    LET applied == th[t].worked \/ JobAction[th[t].job] \in {"create", "resume"} IN
    /\ th[t].pc = "slice" /\ th[t].phase = "drive"
    /\ th[t].worked \/ (Hindered(t) /\ run[th[t].run].mode # "absent")
    /\ EndSlice(t, th[t].job # 0 /\ applied)
    /\ UNCHANGED <<clock, run, origin, job, planned, deferred, boots, faults>>

\* A provider call or a check raised out of the slice.
FailSlice(t) ==
    /\ faults < MaxFaults /\ faults' = faults + 1
    /\ th[t].pc \in {"entered", "slice"}
    /\ EndSlice(t, FALSE)
    /\ UNCHANGED <<clock, run, origin, job, planned, deferred, boots>>

ExitOwnership(t) ==
    /\ th[t].pc = "exiting"
    /\ row' = [row EXCEPT ![th[t].run] = ReleasedBy(t)]
    /\ th' = [th EXCEPT ![t] = AfterSlice(t, th[t].worked)]
    /\ UNCHANGED <<clock, run, origin, job, planned, deferred, boots, faults>>

\* A notify claim that stored its result discards the row.
DiscardNotice(t) ==
    /\ th[t].pc = "slice" /\ th[t].phase = "notify" /\ th[t].worked
    /\ row' = [row EXCEPT ![th[t].run] = IF HoldsClaim(t) THEN NoRow ELSE ReleasedBy(t)]
    /\ th' = [th EXCEPT ![t] = Idle]
    /\ UNCHANGED <<clock, run, origin, job, planned, deferred, boots, faults>>

-----------------------------------------------------------------------------
(* After the slice: the job's outcome, and what it makes of the queue row. *)

Running(t) == run[th[t].run].mode = "running"

Outcome(t) == IF th[t].worked THEN "done" ELSE "blocked"

\* A slash command's result is deferred in the transaction that ends its job.
FinishJob(t) ==
    LET j == th[t].job IN
    /\ th[t].pc = "finish"
    /\ job' = [job EXCEPT ![j] = Outcome(t)]
    /\ deferred' = IF ChanOf[t] = "slack_command" /\ th[t].worked /\ Running(t)
                    THEN deferred \cup {j} ELSE deferred
    /\ th' = [th EXCEPT ![t].pc = "ack"]
    /\ UNCHANGED <<clock, run, row, origin, planned, boots, faults>>

\* _defer_running_result
DefersResult(t) == ChanOf[t] = "slack" /\ th[t].worked /\ Running(t)

\* notification_persisted: the rows a job's own result makes superfluous.
Announced(r, j) ==
    row[r] # NoRow /\ row[r].state = "notify" /\ origin[r] # NoRow /\ origin[r].job = j

\* The job itself told its channel the result.  Slack's worker defers a running Run's result instead, and tells nothing of a failure.
AckJob(t) ==
    LET j == th[t].job
        told == CASE ChanOf[t] = "http" -> TRUE
                  [] ChanOf[t] = "slack_command" -> j \notin deferred
                  [] ChanOf[t] = "slack" -> th[t].worked /\ ~DefersResult(t) IN
    /\ th[t].pc = "ack"
    /\ row' = [r \in Runs |-> IF told /\ Announced(r, j) THEN NoRow ELSE row[r]]
    /\ deferred' = IF DefersResult(t) THEN deferred \cup {j} ELSE deferred
    /\ th' = [th EXCEPT ![t] = Idle]
    /\ UNCHANGED <<clock, run, origin, job, planned, boots, faults>>

\* A deferred operation settles through the service of its process, outside any
\* ownership(): the transition asks only that no claim is on the row.
CompleteDeferred(p, r) ==
    /\ run[r].mode = "tool" /\ run[r].rev + 1 < MaxRev
    /\ Free(row[r])
    /\ \A t \in Threads :
          ProcOf[t] = p => ~(th[t].pc = "slice" /\ th[t].run = r)
    /\ run' = [run EXCEPT ![r] = [rev |-> @.rev + 1, mode |-> "running"]]
    /\ row' = [row EXCEPT ![r] = [rev |-> run[r].rev + 1, state |-> "pending",
                                  owner |-> NoOwner, until |-> 0]]
    /\ UNCHANGED <<clock, origin, job, planned, deferred, th, boots, faults>>

Tick ==
    /\ clock < MaxTime
    /\ clock' = clock + 1
    /\ UNCHANGED <<run, row, origin, job, planned, deferred, th, boots, faults>>

\* The loop of one worker thread, without the faults.
Work(t) ==
    \/ Boot(t) \/ TakeJob(t) \/ PlanJob(t) \/ ClaimDrive(t)
    \/ EnterClaim(t) \/ EnterJob(t) \/ JobMeetsLiveLease(t)
    \/ TakeLock(t) \/ CreateRun(t)
    \/ \E mode \in Modes : Commit(t, mode)
    \/ LeaveSlice(t) \/ ExitOwnership(t) \/ PersistNotice(t) \/ DiscardNotice(t)
    \/ FinishJob(t) \/ AckJob(t)

Next ==
    \/ \E t \in Threads : Work(t) \/ BlockRun(t) \/ FailSlice(t)
    \/ \E j \in Jobs : Enqueue(j)
    \/ \E p \in Procs, r \in Runs : CompleteDeferred(p, r)
    \/ \E p \in Procs : Crash(p)
    \/ Tick

Spec == Init /\ [][Next]_vars

\* Every worker loop keeps running (bootstrap/durable_worker.py).
FairSpec == Spec /\ (\A t \in Threads : WF_vars(Work(t)))

-----------------------------------------------------------------------------
(* Properties *)

\* A slice keeps its claim: from its first commit until its lease ends, the row
\* stays in its process's hands, at the revision the slice has reached, so that the
\* next commit of the slice is admitted.
SliceKeepsClaim ==
    \A t \in Threads :
        th[t].pc = "slice" /\ th[t].phase = "drive" /\ th[t].worked /\ th[t].until > clock =>
            MayTransition(t, clock) /\ th[t].rev = run[th[t].run].rev

\* The queue row is never about an older or newer Run than the ledger's, and a
\* runnable Run always keeps a row: whatever interrupts a slice, some worker can
\* find the Run again.
RunnableQueued ==
    \A r \in Runs :
        /\ row[r] # NoRow => row[r].rev = run[r].rev
        /\ run[r].mode = "running" => row[r] # NoRow /\ row[r].state # "notify"

\* A completion is never committed past an authenticated input of its own channel
\* that is still waiting in the inbox.
InputFencesCompletion ==
    [][\A r \in Runs :
        run'[r].mode = "satisfied" /\ run[r].mode # "satisfied" =>
            \A j \in Jobs : ~(job[j] = "pending" /\ JobRun[j] = r
                               /\ JobChan[j] = origin[r].chan
                               /\ JobAction[j] \in {"input", "approval"})]_vars

\* As long as no slice fails or loses its authority, a deferred result is eventually
\* handed to its channel, unless a later job has taken the Run over and tells its own.
ResultsTold ==
    \A j \in Jobs :
        j \in deferred ~> j \notin deferred \/ origin[JobRun[j]].job # j \/ faults > 0

=============================================================================
