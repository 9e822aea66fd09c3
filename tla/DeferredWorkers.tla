-------------------------- MODULE DeferredWorkers --------------------------
(***************************************************************************)
(* The workers behind deferred tools: two lanes that produce Trace posts   *)
(* (agent/service/trace_post.py) and one worker that edits images          *)
(* (agent/service/creative_image_edit.py), each over a table of operations *)
(* of its own.  An operation is one paid provider call on behalf of one    *)
(* Run: the tool's execute() queues it, the worker waits for the Run's     *)
(* acknowledgement, commits the start, calls the provider outside every    *)
(* lock, stores the result and hands it to the service.  A start without a *)
(* result is uncertain and is never repeated; a Trace post may still be    *)
(* completed from the provider's persisted answer, an uncertain edit by a  *)
(* reviewer who gives it up.                                               *)
(*                                                                         *)
(* Operations are 1..Ops and their order is that of the rows.  Of a Run    *)
(* only what the service's two calls read and write is kept; their own     *)
(* commits are AgentRunTools' and are one step here.  A thread's steps are *)
(* its commits.  LIMIT 8 of the repair and notification queries is above   *)
(* Ops.  The faults are crashes and exceptions of a commit or a callback.  *)
(***************************************************************************)
EXTENDS Integers, FiniteSets

CONSTANTS Ops,        \* number of operations
          Images,     \* those that edit an image; the others are Trace posts
          Lanes,      \* threads of the Trace-post worker
          Editor,     \* thread of the image-edit worker
          Reviewer,   \* a request thread that gives an uncertain edit up
          Verdicts,   \* what the validation of a provider's answer may say
          MaxQueue,   \* _MAX_QUEUE of both tools
          Mixed,      \* whether one behaviour may use both tables
          MaxFaults,  \* bound on crashes and exceptions
          None

Operations == 1..Ops
Traces     == Operations \ Images
Threads    == Lanes \cup {Editor, Reviewer}

Stages  == {"none", "queued", "started", "generated", "uncertain", "completed"}
Results == {"no_effect", "succeeded", "failed", "abandoned"}
Notes   == {"final", "uncertain"}

ASSUME DeferredConstants ==
    /\ Ops \in Nat /\ MaxQueue \in Nat /\ MaxFaults \in Nat
    /\ Mixed \in BOOLEAN
    /\ Images \subseteq Operations /\ Verdicts \subseteq {"succeeded", "failed"}
    /\ Editor \notin Lanes /\ Reviewer \notin Lanes /\ Editor # Reviewer
    /\ None \notin Results /\ None \notin Operations /\ None \notin Notes

VARIABLES
    row,        \* per operation: its row in trace_post_jobs or image_edit_jobs
    run,        \* per operation: its Run as the service's calls see it
    th,         \* per thread: where it is and with which operation
    published,  \* notices that on_completed has taken
    entered,    \* ghost: provider calls made for the operation
    faults

vars == <<row, run, th, published, entered, faults>>

(***************************************************************************)
(* Rows: `proof` is provider_result, `invalid` the failure code            *)
(* trace_post_recovery_proof_invalid, `told` the column notified of a      *)
(* Trace post and uncertain_projected of an edit.                          *)
(***************************************************************************)
NoRow == [stage |-> "none", result |-> None, proof |-> FALSE, invalid |-> FALSE,
          settled |-> FALSE, told |-> FALSE]

(***************************************************************************)
(* Runs: `admitted` is inside the dispatch, which holds the Run's lock     *)
(* until the Run waits; a crash there leaves it `running` with or `lost`   *)
(* without its acknowledgement; `recorded` keeps the result the service    *)
(* has taken.                                                              *)
(***************************************************************************)
RunStates == {"none", "admitted", "running", "lost", "awaiting_tool",
              "awaiting_reconciliation", "stopped", "recorded"}

(***************************************************************************)
(* A thread leaves an operation for the place `back`: the next poll, or    *)
(* the rest of the notices or repairs (`todo`) this poll began with.       *)
(***************************************************************************)
Idle == [pc |-> "idle", op |-> None, note |-> None, todo |-> {}, back |-> "idle"]

At(w, places) == th[w].pc \in places
Goto(w, place) == th' = [th EXCEPT ![w].pc = place]
Leave(w) == th' = [th EXCEPT ![w].pc = th[w].back, ![w].op = None, ![w].note = None]

Init ==
    /\ row = [o \in Operations |-> NoRow]
    /\ run = [o \in Operations |-> [state |-> "none", recorded |-> None]]
    /\ th = [w \in Threads |-> Idle]
    /\ published = {}
    /\ entered = [o \in Operations |-> 0]
    /\ faults = 0

-----------------------------------------------------------------------------
(***************************************************************************)
(* The service and the tool                                                *)
(***************************************************************************)
Peers(o) == IF o \in Images THEN Images ELSE Traces
Accepted(o) == row[o].stage # "none"
Unsettled(S) == {o \in S : Accepted(o) /\ ~row[o].settled}
Acknowledged(o) == run[o].state \notin {"none", "admitted", "lost"}

\* execute: the operation is queued, in the order of the rows of its table.
Accept(o) ==
    /\ ~Accepted(o)
    /\ \A p \in Peers(o) : p < o => Accepted(p)
    /\ Cardinality(Unsettled(Peers(o))) < MaxQueue
    /\ Mixed \/ \A p \in Operations \ Peers(o) : ~Accepted(p)
    /\ row' = [row EXCEPT ![o].stage = "queued"]
    /\ run' = [run EXCEPT ![o].state = "admitted"]
    /\ UNCHANGED <<th, published, entered, faults>>

\* The rest of the dispatch: acknowledgement and wait; after a crash the next
\* drive repeats the wait.
Await(o) ==
    /\ run[o].state \in {"admitted", "running"}
    /\ run' = [run EXCEPT ![o].state = "awaiting_tool"]
    /\ UNCHANGED <<row, th, published, entered, faults>>

\* The Run's lock.  The image threads hold it until they leave the operation, a
\* lane after its provider call only inside the service's calls; that it also
\* holds it when it resolves what a crash left is not used here, so that a stop
\* may fall between those commits too.
Locked(o) ==
    \/ run[o].state = "admitted"
    \/ o \in Images /\ \E w \in Threads : th[w].op = o
                           /\ At(w, {"project", "finish", "settle", "publish", "mark"})

\* stop: a Run that waits for its operation is stopped, the operation is not.
Stop(o) ==
    /\ run[o].state \in {"running", "awaiting_tool"} /\ ~Locked(o)
    /\ run' = [run EXCEPT ![o].state = "stopped"]
    /\ UNCHANGED <<row, th, published, entered, faults>>

\* mark_deferred_uncertain repairs the wait first, also that of a stopped Run.
MarksUncertain(o) ==
    /\ run[o].recorded = None
    /\ run' = [run EXCEPT ![o].state = "awaiting_reconciliation"]

\* complete_deferred takes a first result only of a Run that waits for one.
Takes(o, result) ==
    \/ run[o].recorded = result
    \/ /\ run[o].recorded = None
       /\ run[o].state \in {"running", "awaiting_tool", "awaiting_reconciliation"}
Records(o, result) ==
    run' = [run EXCEPT ![o] = [state |-> "recorded", recorded |-> result]]

-----------------------------------------------------------------------------
(***************************************************************************)
(* What all threads do with an operation they have                         *)
(***************************************************************************)
Stored(o, result) == row' = [row EXCEPT ![o].result = result, ![o].stage = "completed"]
Finishing(w, o) == th' = [th EXCEPT ![w].pc = "finish", ![w].op = o, ![w].note = "final"]
Projecting(w, o) == th' = [th EXCEPT ![w].pc = "project", ![w].op = o, ![w].note = "uncertain"]

\* Mutated form of Finish: the service's refusal is taken for an end.
FinishSwallowed(w) ==
    LET o == th[w].op IN
    /\ At(w, {"finish"})
    /\ IF Takes(o, row[o].result) THEN Records(o, row[o].result) ELSE UNCHANGED run
    /\ Goto(w, IF o \in Images THEN "publish" ELSE "settle")
    /\ UNCHANGED <<row, published, entered, faults>>

\* _finish hands the stored result to the service; a refusal raises.
Finish(w) ==
    LET o == th[w].op IN
    /\ At(w, {"finish"})
    /\ IF Takes(o, row[o].result)
       THEN Records(o, row[o].result)
            /\ Goto(w, IF o \in Images THEN "publish" ELSE "settle")
       ELSE Leave(w) /\ UNCHANGED run
    /\ UNCHANGED <<row, published, entered, faults>>

\* A Trace post is settled before its notice, an edit after it.
Settle(w) ==
    LET o == th[w].op IN
    /\ At(w, {"settle"})
    /\ IF o \in Images
       THEN row' = [row EXCEPT ![o].settled = TRUE] /\ Leave(w)
       ELSE row' = [row EXCEPT ![o].settled = TRUE, ![o].told = FALSE] /\ Goto(w, "publish")
    /\ UNCHANGED <<run, published, entered, faults>>

Project(w) ==
    LET o == th[w].op IN
    /\ At(w, {"project"})
    /\ IF run[o].recorded = None
       THEN MarksUncertain(o) /\ Goto(w, "publish")
       ELSE Leave(w) /\ UNCHANGED run
    /\ UNCHANGED <<row, published, entered, faults>>

Publish(w) ==
    /\ At(w, {"publish"})
    /\ published' = published \cup {<<th[w].op, th[w].note>>}
    /\ Goto(w, IF th[w].op \in Images /\ th[w].note = "final" THEN "settle" ELSE "mark")
    /\ UNCHANGED <<row, run, entered, faults>>

Mark(w) ==
    LET o == th[w].op IN
    /\ At(w, {"mark"})
    /\ row' = [row EXCEPT ![o].told = @ \/ o \in Traces \/ row[o].stage = "uncertain"]
    /\ Leave(w)
    /\ UNCHANGED <<run, published, entered, faults>>

\* The provider is called outside every lock.
Enter(w) ==
    /\ At(w, {"call"})
    /\ entered' = [entered EXCEPT ![th[w].op] = @ + 1]
    /\ Goto(w, "calling")
    /\ UNCHANGED <<row, run, published, faults>>

\* The provider, its checkpoint or its answer raises.
ProviderRaises(w) ==
    LET o == th[w].op IN
    /\ At(w, {"calling"}) /\ ~Locked(o)
    /\ row' = [row EXCEPT ![o].stage = "uncertain"]
    /\ Projecting(w, o)
    /\ UNCHANGED <<run, published, entered, faults>>

Resolve(w) == Finish(w) \/ Settle(w) \/ Project(w) \/ Publish(w) \/ Mark(w)

-----------------------------------------------------------------------------
(***************************************************************************)
(* A lane of the Trace-post worker                                         *)
(***************************************************************************)

\* Mutated form of Unnoticed: only final notices are repeated.
UnnoticedFinal(o) == ~row[o].told /\ row[o].settled

Unnoticed(o) == /\ ~row[o].told
                /\ row[o].settled \/ row[o].stage = "uncertain"
Notice(o) == <<o, IF row[o].stage = "uncertain" THEN "uncertain" ELSE "final">>

Pending == {Notice(o) : o \in {p \in Traces : Unnoticed(p)}}

\* _recover_notifications reads the rows whose notice is not marked (a poll
\* that finds none goes on to the selection, LaneSelect) ...
LanePoll(w) ==
    /\ At(w, {"idle"}) /\ Pending # {}
    /\ th' = [th EXCEPT ![w].pc = "recover", ![w].todo = Pending]
    /\ UNCHANGED <<row, run, published, entered, faults>>

\* ... and publishes and marks one after the other, without a lock.
Recover(w) ==
    /\ At(w, {"recover"})
    /\ IF th[w].todo = {}
       THEN th' = [th EXCEPT ![w].pc = "select", ![w].back = "idle"]
       ELSE \E n \in th[w].todo :
              th' = [th EXCEPT ![w] = [pc |-> "publish", op |-> n[1], note |-> n[2],
                                       todo |-> @.todo \ {n}, back |-> "recover"]]
    /\ UNCHANGED <<row, run, published, entered, faults>>

\* Mutated form of Active: a lane trusts the stage alone.
ActiveUntracked(o) == FALSE

\* _active_operations: those of a lane that selected them.
Active(o) == \E w \in Lanes : th[w].op = o /\ th[w].back = "idle"

LaneReady(o) ==
    /\ Accepted(o) /\ ~row[o].settled /\ ~Active(o)
    /\ ~(row[o].stage = "uncertain" /\ row[o].invalid)
    /\ \/ row[o].result # None
       \/ row[o].stage \in {"started", "generated"}
       \/ row[o].stage = "uncertain" /\ row[o].proof
       \/ row[o].stage = "queued" /\ Acknowledged(o)

First(o, S) == o \in S /\ \A p \in S : o <= p

\* The queue selection lock covers the query and the active set.
LaneSelect(w) ==
    LET ready == {o \in Traces : LaneReady(o)} IN
    /\ At(w, {"select"}) \/ (At(w, {"idle"}) /\ Pending = {})
    /\ IF ready = {} THEN Leave(w)
       ELSE \E o \in ready : First(o, ready)
                /\ th' = [th EXCEPT ![w].pc = "taken", ![w].op = o]
    /\ UNCHANGED <<row, run, published, entered, faults>>

\* _work_once under the Run's lock, up to its first commit.
LaneBegin(w) ==
    LET o == th[w].op
        proven == row[o].stage \in {"started", "generated", "uncertain"} /\ row[o].proof IN
    /\ At(w, {"taken"}) /\ w \in Lanes /\ ~Locked(o)
    /\ \/ row[o].result # None /\ Finishing(w, o) /\ UNCHANGED row
       \/ row[o].result = None /\ proven
          /\ \/ Stored(o, "succeeded") /\ Finishing(w, o)
             \/ row' = [row EXCEPT ![o].invalid = TRUE, ![o].stage = "uncertain"]
                /\ Projecting(w, o)
       \/ row[o].result = None /\ ~proven /\ row[o].stage \in {"started", "generated"}
          /\ row' = [row EXCEPT ![o].stage = "uncertain"]
          /\ Projecting(w, o)
       \/ row[o].stage = "queued"
          /\ \/ Stored(o, "no_effect") /\ Finishing(w, o)
             \/ row' = [row EXCEPT ![o].stage = "started"] /\ Goto(w, "call")
    /\ UNCHANGED <<run, published, entered, faults>>

\* The provider reports a completed turn before it returns.
Checkpoint(w) ==
    LET o == th[w].op IN
    /\ At(w, {"calling"}) /\ o \in Traces /\ ~row[o].proof
    /\ row' = [row EXCEPT ![o].proof = TRUE]
    /\ UNCHANGED <<run, th, published, entered, faults>>

LaneReturns(w) ==
    LET o == th[w].op IN
    /\ At(w, {"calling"}) /\ o \in Traces
    /\ row' = [row EXCEPT ![o].stage = "generated", ![o].proof = TRUE]
    /\ Goto(w, "ingest")
    /\ UNCHANGED <<run, published, entered, faults>>

Ingest(w) ==
    LET o == th[w].op IN
    /\ At(w, {"ingest"})
    /\ \E result \in Verdicts : Stored(o, result)
    /\ Finishing(w, o)
    /\ UNCHANGED <<run, published, entered, faults>>

Lane(w) ==
    \/ LanePoll(w) \/ Recover(w) \/ LaneSelect(w) \/ LaneBegin(w)
    \/ Enter(w) \/ Checkpoint(w) \/ LaneReturns(w) \/ ProviderRaises(w) \/ Ingest(w)
    \/ Resolve(w)

-----------------------------------------------------------------------------
(***************************************************************************)
(* The image-edit worker and the reviewer                                  *)
(***************************************************************************)

Uncertain == {o \in Unsettled(Images) : row[o].stage = "uncertain"}

\* _repair_uncertain reads the uncertain rows and what they were told by then
\* (a poll that finds none goes on to the selection, EditorSelect).
EditorPoll ==
    /\ At(Editor, {"idle"}) /\ Uncertain # {}
    /\ th' = [th EXCEPT ![Editor].pc = "repair", ![Editor].back = "repair",
                  ![Editor].todo =
                      {<<o, IF row[o].told THEN "final" ELSE "uncertain">> : o \in Uncertain}]
    /\ UNCHANGED <<row, run, published, entered, faults>>

\* Each is completed from the Run's own completion, or else projected once.
Repair ==
    /\ At(Editor, {"repair"})
    /\ \/ /\ th[Editor].todo = {}
          /\ th' = [th EXCEPT ![Editor].pc = "select", ![Editor].back = "idle"]
          /\ UNCHANGED row
       \/ \E n \in th[Editor].todo :
            LET o == n[1]
                next(place, note) ==
                  th' = [th EXCEPT ![Editor] = [pc |-> place, note |-> note,
                           op |-> IF place = "repair" THEN None ELSE o,
                           todo |-> @.todo \ {n}, back |-> "repair"]] IN
            /\ ~Locked(o)
            /\ \/ run[o].recorded # None /\ Stored(o, run[o].recorded) /\ next("finish", "final")
               \/ /\ run[o].recorded = None
                  /\ IF n[2] = "uncertain" THEN next("project", "uncertain")
                     ELSE next("repair", None)
                  /\ UNCHANGED row
    /\ UNCHANGED <<run, published, entered, faults>>

EditorReady(o) ==
    /\ Accepted(o) /\ ~row[o].settled /\ row[o].stage # "uncertain"
    /\ row[o].stage = "queued" => Acknowledged(o)

EditorSelect ==
    LET ready == {o \in Images : EditorReady(o)} IN
    /\ At(Editor, {"select"}) \/ (At(Editor, {"idle"}) /\ Uncertain = {})
    /\ IF ready = {} THEN Leave(Editor)
       ELSE \E o \in ready : First(o, ready)
                /\ th' = [th EXCEPT ![Editor].pc = "taken", ![Editor].op = o]
    /\ UNCHANGED <<row, run, published, entered, faults>>

\* _process_job under the Run's lock: the preflight may find the edit outdated.
EditorBegin ==
    LET o == th[Editor].op IN
    /\ At(Editor, {"taken"}) /\ ~Locked(o)
    /\ \/ row[o].result # None /\ Finishing(Editor, o) /\ UNCHANGED row
       \/ row[o].result = None /\ row[o].stage = "started"
          /\ row' = [row EXCEPT ![o].stage = "uncertain"]
          /\ Projecting(Editor, o)
       \/ row[o].stage = "queued"
          /\ \/ Stored(o, "no_effect") /\ Finishing(Editor, o)
             \/ row' = [row EXCEPT ![o].stage = "started"] /\ Goto(Editor, "call")
    /\ UNCHANGED <<run, published, entered, faults>>

EditorReturns ==
    LET o == th[Editor].op IN
    /\ At(Editor, {"calling"}) /\ ~Locked(o)
    /\ \E result \in Verdicts : Stored(o, result)
    /\ Finishing(Editor, o)
    /\ UNCHANGED <<run, published, entered, faults>>

Edit ==
    \/ EditorPoll \/ Repair \/ EditorSelect \/ EditorBegin
    \/ Enter(Editor) \/ EditorReturns \/ ProviderRaises(Editor) \/ Resolve(Editor)

\* abandon: only an uncertain edit whose Run still waits for it, or again.
Abandon(o) ==
    /\ At(Reviewer, {"idle"}) /\ ~Locked(o)
    /\ \/ /\ row[o].stage = "uncertain" /\ row[o].result = None
          /\ run[o].recorded = None
          /\ Stored(o, "abandoned")
       \/ row[o].result = "abandoned" /\ ~row[o].settled /\ UNCHANGED row
    /\ Finishing(Reviewer, o)
    /\ UNCHANGED <<run, published, entered, faults>>

-----------------------------------------------------------------------------
(***************************************************************************)
(* Faults and the specification                                            *)
(***************************************************************************)

\* A commit or a callback raises; the operation stays as it is.
Raises(w) ==
    /\ faults < MaxFaults
    /\ At(w, {"taken", "ingest", "project", "finish", "settle", "publish", "mark"})
    /\ Leave(w)
    /\ faults' = faults + 1
    /\ UNCHANGED <<row, run, published, entered>>

Crash ==
    /\ faults < MaxFaults
    /\ faults' = faults + 1
    /\ th' = [w \in Threads |-> Idle]
    /\ \E left \in {"lost", "running"} :
         run' = [o \in Operations |->
                   [run[o] EXCEPT !.state = IF @ = "admitted" THEN left ELSE @]]
    /\ UNCHANGED <<row, published, entered>>

Next ==
    \/ \E o \in Operations : Accept(o) \/ Await(o) \/ Stop(o)
    \/ \E o \in Images : Abandon(o)
    \/ \E w \in Lanes : Lane(w)
    \/ Edit
    \/ Resolve(Reviewer)
    \/ \E w \in Threads : Raises(w)
    \/ Crash

Spec == Init /\ [][Next]_vars

\* The workers poll as long as the process lives (run_durable_worker) and a
\* provider call ends by its timeout; a drive ends its dispatch and a request
\* thread its request.
Fairness ==
    /\ WF_vars(\E o \in Operations : Await(o))
    /\ \A w \in Lanes : WF_vars(Lane(w))
    /\ WF_vars(Edit) /\ WF_vars(Resolve(Reviewer))

FairSpec == Spec /\ Fairness

-----------------------------------------------------------------------------
(***************************************************************************)
(* Properties                                                              *)
(***************************************************************************)
Row == [stage : Stages, result : Results \cup {None}, proof : BOOLEAN,
        invalid : BOOLEAN, settled : BOOLEAN, told : BOOLEAN]
Run == [state : RunStates, recorded : Results \cup {None}]
Thread == [pc : {"idle", "recover", "repair", "select", "taken", "call", "calling",
                 "ingest", "finish", "settle", "project", "publish", "mark"},
           op : Operations \cup {None}, note : Notes \cup {None},
           todo : SUBSET (Operations \X Notes), back : {"idle", "recover", "repair"}]

TypeOK ==
    /\ row \in [Operations -> Row]
    /\ run \in [Operations -> Run]
    /\ th \in [Threads -> Thread]
    /\ published \subseteq Operations \X Notes
    /\ entered \in [Operations -> Nat]
    /\ faults \in 0..MaxFaults

(***************************************************************************)
(* A paid provider call is made at most once for an operation, and while   *)
(* it runs no other lane, poll or repair takes the operation for one that  *)
(* a crash left: its row stays started, without a result, and its Run is   *)
(* not sent into reconciliation.                                           *)
(***************************************************************************)
ProviderOnce ==
    /\ \A o \in Operations : entered[o] <= 1
    /\ \A w \in Threads : At(w, {"calling"}) =>
         LET o == th[w].op IN
         /\ row[o].stage = "started" /\ row[o].result = None
         /\ run[o].state # "awaiting_reconciliation"

(***************************************************************************)
(* A settled row leaves the queue for ever, so the Run must have taken the *)
(* very result the row holds before that, through crashes between the two, *)
(* refusals of a stopped Run, and a repair or a reviewer that completes    *)
(* the same edit.                                                          *)
(***************************************************************************)
SettledRecorded ==
    \A o \in Operations : row[o].settled =>
        row[o].result # None /\ run[o].recorded = row[o].result

\* A result that a stopped Run refuses stays the first candidate of its table.
Stuck(o) == run[o].state = "stopped" /\ row[o].result # None /\ ~row[o].settled

Ended(o) ==
    \/ row[o].settled
    \/ /\ row[o].stage = "uncertain" /\ row[o].told /\ <<o, "uncertain">> \in published
       /\ o \in Images => run[o].state = "awaiting_reconciliation"

(***************************************************************************)
(* An operation whose acknowledgement was saved ends: its result is        *)
(* settled, or its uncertainty is published and, of an edit, known to the  *)
(* Run; unless the refused result of a stopped Run holds up its table.     *)
(***************************************************************************)
OperationsEnd ==
    \A o \in Operations :
        (Accepted(o) /\ Acknowledged(o)) ~> (Ended(o) \/ \E p \in Peers(o) : Stuck(p))

=============================================================================
