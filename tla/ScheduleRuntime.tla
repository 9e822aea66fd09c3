---------------------------- MODULE ScheduleRuntime ----------------------------
(***************************************************************************)
(* One schedule of a workspace: its revisions, the occurrences the         *)
(* scheduler thread reserves and admits (agent/service/schedule_runtime.py *)
(* over schedule_repository.py), the Run of each occurrence, and the queue *)
(* rows through which the scheduler and the web workers drive those Runs.  *)
(*                                                                         *)
(* The scheduler repeats: tick (admit what is reserved, then reserve and   *)
(* admit what is due), then a bounded number of work_once.  An action is   *)
(* one transaction or one read other actors can get between.  An exception *)
(* ends the iteration; a crash ends every thread.  Inside the queue, which *)
(* DriveQueue models, a claim whose thread is gone runs out (Expire) and   *)
(* no live claim does.  Left out: the calendar rules behind the dues,      *)
(* max_occurrences and ends_at (both only end the dues), several schedules.*)
(***************************************************************************)
EXTENDS Integers, FiniteSets

CONSTANTS
    Every,          \* distance between two dues
    Grace,          \* misfire_grace
    Policies,       \* the misfire policies a schedule may have
    MaxDues,        \* bound: dues of the schedule (max_occurrences)
    MaxTime,        \* bound: the clock
    MaxRev,         \* bound: revisions of the schedule
    MaxFaults,      \* bound: crashes plus exceptions
    Slices          \* work_once calls per iteration (20 in cli/marketing.py)

ASSUME ScheduleConstants ==
    /\ Every \in Nat \ {0} /\ Grace \in Nat /\ MaxDues \in Nat /\ MaxTime \in Nat
    /\ Policies \subseteq {"skip", "coalesce", "await_input"}
    /\ MaxRev \in Nat \ {0} /\ MaxFaults \in Nat /\ Slices \in Nat \ {0}

VARIABLES
    clock,
    schedule,   \* agent_schedules: revision, status, misfire policy
    revoked,    \* revisions whose authorizing Slack message or member is gone
    occ,        \* agent_schedule_occurrences
    run,        \* the state of each occurrence's Run
    row,        \* agent_drive_work
    origin,     \* agent_drive_origins: the channel that may claim the row
    sched,      \* the scheduler thread
    web,        \* the HTTP worker
    faults

vars == <<clock, schedule, revoked, occ, run, row, origin, sched, web, faults>>

Dues == {Every * i : i \in 1..MaxDues}
None == 0                               \* no due in hand

\* "waiting": AWAITING_INPUT or AWAITING_APPROVAL; "unknown": AWAITING_RECONCILIATION.
\* Nothing stops or fails a scheduled Run (service.stop needs a Slack message's Run).
RunModes == {"none", "created", "running", "waiting", "tool", "unknown", "completed", "blocked"}

TerminalOccurrence == {"succeeded", "blocked", "skipped_overlap", "skipped_misfire"}
OccurrenceStates == {"none", "reserved", "admitted", "running", "awaiting_input"}
                        \cup TerminalOccurrence

Claimed == {"running", "notifying"}

Scheduler == [pc : {"idle",
                    "reserved", "check", "create", "drive", "settle",  \* _admit
                    "due", "reserve",                                  \* _reserve_due
                    "work", "claimed", "slice", "notice", "told"},     \* work_once
              due : Dues \cup {None},
              rev : 1..MaxRev,                 \* of the schedule read
              new : OccurrenceStates,          \* the state _reserve_due decided on
              next : {"reserved", "work"},   \* where the tick goes on after _admit
              left : 0..Slices]

Idle == [pc |-> "idle", due |-> None, rev |-> 1, new |-> "none",
         next |-> "reserved", left |-> 0]

TypeOK ==
    /\ clock \in 0..MaxTime
    /\ schedule \in [rev : 1..MaxRev, status : {"active", "paused"},
                     policy : Policies]
    /\ revoked \subseteq 1..MaxRev
    /\ occ \in [Dues -> [state : OccurrenceStates, rev : 1..MaxRev]]
    /\ run \in [Dues -> RunModes]
    /\ row \in [Dues -> {"none", "pending", "notify"} \cup Claimed]
    /\ origin \in [Dues -> {"none", "schedule", "http"}]
    /\ sched \in Scheduler
    /\ web \in [pc : {"idle", "job", "claimed"}, due : Dues \cup {None}]
    /\ faults \in 0..MaxFaults

Init ==
    /\ clock = 0
    /\ \E policy \in Policies : schedule = [rev |-> 1, status |-> "active", policy |-> policy]
    /\ revoked = {}
    /\ occ = [d \in Dues |-> [state |-> "none", rev |-> 1]]
    /\ run = [d \in Dues |-> "none"]
    /\ row = [d \in Dues |-> "none"]
    /\ origin = [d \in Dues |-> "none"]
    /\ sched = Idle
    /\ web = [pc |-> "idle", due |-> None]
    /\ faults = 0

-----------------------------------------------------------------------------
(* Helpers *)

\* Mutated form: an occurrence that waits for a human does not count as active.
ActiveUnlessWaiting(o) ==
    o.state \notin TerminalOccurrence \cup {"none", "awaiting_input"}

\* active_occurrences
Active(o) == o.state \notin TerminalOccurrence \cup {"none"}

\* Mutated form: any Run that ended counts as a success.
OccurrenceStateAnyEnd(mode) ==
    CASE mode \in {"completed", "blocked"} -> "succeeded"
      [] mode = "waiting" -> "awaiting_input"
      [] mode \in {"running", "tool", "unknown"} -> "running"
      [] mode = "created" -> "admitted"

\* Mutated form: a Run that waits for reconciliation blocks its occurrence.
OccurrenceStateUnknownEnds(mode) ==
    CASE mode = "completed" -> "succeeded"
      [] mode \in {"blocked", "unknown"} -> "blocked"
      [] mode = "waiting" -> "awaiting_input"
      [] mode \in {"running", "tool"} -> "running"
      [] mode = "created" -> "admitted"

\* _occurrence_state
OccurrenceState(mode) ==
    CASE mode = "completed" -> "succeeded"
      [] mode = "blocked" -> "blocked"
      [] mode = "waiting" -> "awaiting_input"
      [] mode \in {"running", "tool", "unknown"} -> "running"
      [] mode = "created" -> "admitted"

\* _target_queue_state
Target(mode) == IF mode = "running" THEN "pending" ELSE "notify"

\* _release_ownership after a slice.
Released(d) == IF row[d] \in Claimed THEN Target(run[d]) ELSE row[d]

\* What one commit of a drive makes of a Run.
NextModes(mode) ==
    CASE mode = "created" -> {"running", "waiting", "blocked"}
      [] mode = "running" -> RunModes \ {"none", "created"}
      [] OTHER -> {}

\* unavailable_reason, for the revision the occurrence was reserved under.
Unavailable(d) == occ[d].rev \in revoked

Holds(d) == \/ sched.due = d /\ sched.pc \in {"drive", "claimed", "slice", "notice"}
            \/ web.due = d /\ web.pc # "idle"

-----------------------------------------------------------------------------
(* tick: admit what is reserved *)

\* reserved_occurrences: only this thread moves occurrences, so that the list read when
\* the tick starts is at any time the reserved ones it has not admitted yet.
TickStart ==
    LET todo == {d \in Dues : occ[d].state = "reserved"} IN
    /\ sched.pc \in {"idle", "reserved"}
    /\ \/ todo = {} /\ sched' = [Idle EXCEPT !.pc = "due", !.left = Slices]
       \/ \E d \in todo :
            /\ \A e \in todo : d <= e
            /\ sched' = [Idle EXCEPT !.pc = "check", !.due = d, !.left = Slices]
    /\ UNCHANGED <<clock, schedule, revoked, occ, run, row, origin, web, faults>>

\* Where the tick goes on once an occurrence has been admitted or refused.
Resumed == [sched EXCEPT !.pc = sched.next, !.due = None, !.next = "reserved", !.new = "none"]

\* _admit: the schedule must still be at the occurrence's revision and active, and
\* its source available.  (BLOCKED is written at once: only this thread moves occ.)
AdmitCheck ==
    LET d == sched.due IN
    /\ sched.pc = "check"
    /\ IF schedule.rev # occ[d].rev \/ schedule.status # "active" \/ Unavailable(d)
       THEN /\ occ' = [occ EXCEPT ![d].state = "blocked"]
            /\ sched' = Resumed
       ELSE /\ sched' = [sched EXCEPT !.pc = "create"]
            /\ UNCHANGED occ
    /\ UNCHANGED <<clock, schedule, revoked, run, row, origin, web, faults>>

\* Mutated form: the Run and the occurrence's admission are two transactions.
AdmitCreateUnadmitted ==
    LET d == sched.due IN
    /\ sched.pc = "create"
    /\ run' = [run EXCEPT ![d] = "created"]
    /\ origin' = [origin EXCEPT ![d] = "schedule"]
    /\ sched' = [sched EXCEPT !.pc = "drive"]
    /\ UNCHANGED <<clock, schedule, revoked, occ, row, web, faults>>

\* ownership(origin), then service.create: the Run, its origin and the occurrence's
\* ADMITTED state are one transaction; no queue row is written.
AdmitCreate ==
    LET d == sched.due IN
    /\ sched.pc = "create"
    /\ occ[d].state = "reserved"
    /\ run' = [run EXCEPT ![d] = "created"]
    /\ origin' = [origin EXCEPT ![d] = "schedule"]
    /\ occ' = [occ EXCEPT ![d].state = "admitted"]
    /\ sched' = [sched EXCEPT !.pc = "drive"]
    /\ UNCHANGED <<clock, schedule, revoked, row, web, faults>>

\* The exit of the admission's ownership, when the slice is over.
AdmitLeave ==
    LET d == sched.due IN
    /\ sched.pc = "drive" /\ run[d] # "created"
    /\ row' = [row EXCEPT ![d] = Released(d)]
    /\ sched' = [sched EXCEPT !.pc = "settle", !.new = OccurrenceState(run[d])]
    /\ UNCHANGED <<clock, schedule, revoked, occ, run, origin, web, faults>>

\* The occurrence takes the state of the Run that create() returned; ADMITTED stays.
AdmitSettle ==
    /\ sched.pc = "settle"
    /\ occ' = [occ EXCEPT ![sched.due].state = sched.new]
    /\ sched' = Resumed
    /\ UNCHANGED <<clock, schedule, revoked, run, row, origin, web, faults>>

-----------------------------------------------------------------------------
(* tick: reserve what is due *)

Recorded == {d \in Dues : occ[d].state # "none"}

\* The dues after latest_occurrence that have come.
Unseen == {d \in Dues : d <= clock /\ \A e \in Recorded : e < d}

\* next_occurrence: the first of them, or the latest one (_coalesced_due) when the
\* first is too late.
NextDue(d) ==
    /\ d \in Unseen
    /\ IF /\ schedule.policy \in {"skip", "coalesce"}
          /\ \E e \in Unseen : clock - e > Grace
       THEN \A e \in Unseen : e <= d
       ELSE \A e \in Unseen : d <= e

ReservedState(d) ==
    CASE \E e \in Dues : Active(occ[e]) -> "skipped_overlap"
      [] (\A e \in Dues : ~Active(occ[e])) /\ clock - d > Grace /\ schedule.policy = "skip"
            -> "skipped_misfire"
      [] (\A e \in Dues : ~Active(occ[e])) /\ clock - d > Grace
            /\ schedule.policy = "await_input" -> "awaiting_input"
      [] OTHER -> "reserved"

\* list_active and the reads of _reserve_due.
ReadDue ==
    /\ sched.pc = "due"
    /\ \/ /\ schedule.status # "active" \/ Unseen = {}
          /\ sched' = [sched EXCEPT !.pc = "work"]
       \/ /\ schedule.status = "active"
          /\ \E d \in Dues :
                /\ NextDue(d)
                /\ sched' = [sched EXCEPT !.pc = "reserve", !.due = d, !.rev = schedule.rev,
                                          !.new = ReservedState(d)]
    /\ UNCHANGED <<clock, schedule, revoked, occ, run, row, origin, web, faults>>

\* reserve(): one transaction re-checks the schedule and inserts; a stale schedule
\* raises and ends the iteration.
Reserve ==
    LET d == sched.due IN
    /\ sched.pc = "reserve"
    /\ IF schedule.rev # sched.rev \/ schedule.status # "active"
       THEN /\ sched' = Idle
            /\ UNCHANGED occ
       ELSE /\ occ' = [occ EXCEPT ![d] = [state |-> sched.new, rev |-> sched.rev]]
            /\ sched' = IF sched.new = "reserved"
                        THEN [sched EXCEPT !.pc = "check", !.next = "work", !.new = "none", !.rev = 1]
                        ELSE [sched EXCEPT !.pc = "work", !.due = None, !.new = "none", !.rev = 1]
    /\ UNCHANGED <<clock, schedule, revoked, run, row, origin, web, faults>>

-----------------------------------------------------------------------------
(* work_once: the queue rows of the schedule channel *)

Claimable(channel) == {d \in Dues : origin[d] = channel /\ row[d] \in {"pending", "notify"}}

\* claim("schedule"); the iteration ends when nothing is due or its calls are used.
ClaimWork ==
    /\ sched.pc = "work"
    /\ IF sched.left = 0 \/ Claimable("schedule") = {}
       THEN /\ sched' = Idle
            /\ UNCHANGED row
       ELSE \E d \in Claimable("schedule") :
            /\ row' = [row EXCEPT ![d] = IF @ = "notify" THEN "notifying" ELSE "running"]
            /\ sched' = [sched EXCEPT !.pc = "claimed", !.due = d, !.left = @ - 1]
    /\ UNCHANGED <<clock, schedule, revoked, occ, run, origin, web, faults>>

\* The source is checked again.  block() is called outside ownership(): a notify claim
\* is discarded and the occurrence blocked; for a drive claim its transition meets the
\* claim on the row and raises, so that Run, row and occurrence stay as they are.
WorkCheck ==
    LET d == sched.due IN
    /\ sched.pc = "claimed"
    /\ IF ~Unavailable(d)
       THEN /\ sched' = [sched EXCEPT !.pc = IF row[d] = "notifying" THEN "notice" ELSE "slice"]
            /\ UNCHANGED <<occ, row>>
       ELSE IF row[d] = "running"
       THEN /\ sched' = Idle
            /\ UNCHANGED <<occ, row>>
       ELSE /\ row' = [row EXCEPT ![d] = "none"]
            /\ occ' = [occ EXCEPT ![d].state = IF Active(occ[d]) THEN "blocked" ELSE @]
            /\ sched' = [sched EXCEPT !.pc = "work", !.due = None]
    /\ UNCHANGED <<clock, schedule, revoked, run, origin, web, faults>>

\* drive() inside a slice: one commit.
SliceCommit(mode) ==
    LET d == sched.due IN
    /\ sched.pc \in {"drive", "slice"}
    /\ mode \in NextModes(run[d])
    /\ run' = [run EXCEPT ![d] = mode]
    /\ row' = [row EXCEPT ![d] = "running"]
    /\ UNCHANGED <<clock, schedule, revoked, occ, origin, sched, web, faults>>

\* _approve_delegated_effects: only work_once calls it, after its drive.
DelegatedApproval ==
    LET d == sched.due IN
    /\ sched.pc = "slice" /\ run[d] = "waiting"
    /\ ~Unavailable(d)
    /\ run' = [run EXCEPT ![d] = "running"]
    /\ row' = [row EXCEPT ![d] = "running"]
    /\ UNCHANGED <<clock, schedule, revoked, occ, origin, sched, web, faults>>

\* The occurrence follows the Run, inside the ownership (left here in the same step:
\* between the two nothing can reach the claimed Run but a crash, see SliceCrash).
SliceLeave ==
    LET d == sched.due IN
    /\ sched.pc = "slice"
    /\ occ' = [occ EXCEPT ![d].state = OccurrenceState(run[d])]
    /\ row' = [row EXCEPT ![d] = Released(d)]
    /\ sched' = [sched EXCEPT !.pc = "work", !.due = None]
    /\ UNCHANGED <<clock, schedule, revoked, run, origin, web, faults>>

\* The crash between the occurrence's transition and the exit from ownership.
SliceCrash ==
    LET d == sched.due IN
    /\ faults < MaxFaults /\ faults' = faults + 1
    /\ sched.pc = "slice"
    /\ occ' = [occ EXCEPT ![d].state = OccurrenceState(run[d])]
    /\ sched' = Idle /\ web' = [pc |-> "idle", due |-> None]
    /\ UNCHANGED <<clock, schedule, revoked, run, row, origin>>

\* The notifier stores the result for Slack, unless the conversation is gone by now.
Notify ==
    LET d == sched.due IN
    /\ sched.pc = "notice"
    /\ row' = [row EXCEPT ![d] = "notify"]
    /\ \/ sched' = [sched EXCEPT !.pc = "told"]
       \/ /\ Unavailable(d)
          /\ sched' = [sched EXCEPT !.pc = "work", !.due = None]
    /\ UNCHANGED <<clock, schedule, revoked, occ, run, origin, web, faults>>

\* notification_persisted: the row goes if it is still this occurrence's.
NotificationPersisted ==
    LET d == sched.due IN
    /\ sched.pc = "told"
    /\ row' = [row EXCEPT ![d] = IF @ = "notify" /\ origin[d] = "schedule" THEN "none" ELSE @]
    /\ sched' = [sched EXCEPT !.pc = "work", !.due = None]
    /\ UNCHANGED <<clock, schedule, revoked, occ, run, origin, web, faults>>

\* A provider or store exception in a slice or the notifier: ownership is left, the
\* iteration is over.
IterationRaises ==
    LET d == sched.due IN
    /\ faults < MaxFaults /\ faults' = faults + 1
    /\ sched.pc \in {"drive", "slice", "notice"}
    /\ row' = [row EXCEPT ![d] = IF @ = "notifying" THEN "notify" ELSE Released(d)]
    /\ sched' = Idle
    /\ UNCHANGED <<clock, schedule, revoked, occ, run, origin, web>>

-----------------------------------------------------------------------------
(* The other actors *)

\* An approval, an answer or a resume from the web workspace: HTTP ownership takes the
\* free row and rebinds the origin.  While create() holds the Run's lock the job waits.
WebJob(d) ==
    /\ web.pc = "idle" /\ run[d] # "none"
    /\ row[d] \notin Claimed
    /\ ~(sched.pc = "drive" /\ sched.due = d)
    /\ row' = [row EXCEPT ![d] = IF @ = "none" THEN "none" ELSE "running"]
    /\ origin' = [origin EXCEPT ![d] = "http"]
    /\ web' = [pc |-> "job", due |-> d]
    /\ UNCHANGED <<clock, schedule, revoked, occ, run, sched, faults>>

\* The HTTP worker's own queue claims: a drive, or a notice it only discards.
WebClaim(d) ==
    /\ web.pc = "idle" /\ d \in Claimable("http")
    /\ IF row[d] = "notify"
       THEN /\ row' = [row EXCEPT ![d] = "none"]
            /\ UNCHANGED web
       ELSE /\ row' = [row EXCEPT ![d] = "running"]
            /\ web' = [pc |-> "claimed", due |-> d]
    /\ UNCHANGED <<clock, schedule, revoked, occ, run, origin, sched, faults>>

\* A commit of the job (the human's answer first) or of the drive after it.
WebCommit(mode) ==
    LET d == web.due IN
    /\ web.pc # "idle"
    /\ \/ mode \in NextModes(run[d])
       \/ web.pc = "job" /\ run[d] = "waiting" /\ mode = "running"
    /\ run' = [run EXCEPT ![d] = mode]
    /\ row' = [row EXCEPT ![d] = "running"]
    /\ web' = [web EXCEPT !.pc = "claimed"]
    /\ UNCHANGED <<clock, schedule, revoked, occ, origin, sched, faults>>

WebLeave ==
    /\ web.pc # "idle"
    /\ row' = [row EXCEPT ![web.due] = Released(web.due)]
    /\ web' = [pc |-> "idle", due |-> None]
    /\ UNCHANGED <<clock, schedule, revoked, occ, run, origin, sched, faults>>

\* An operation's result arrives outside any ownership: refused while a claim is on
\* the row, otherwise the Run runs on, or its effect stays unknown.
CompleteDeferred(d) ==
    /\ run[d] = "tool" /\ row[d] \notin Claimed /\ ~Holds(d)
    /\ \E mode \in {"running", "unknown"} :
        /\ run' = [run EXCEPT ![d] = mode]
        /\ row' = [row EXCEPT ![d] = Target(mode)]
    /\ UNCHANGED <<clock, schedule, revoked, occ, origin, sched, web, faults>>

\* The Threads reconciliation of the same loop settles an unknown effect.
ResolveUnknown(d) ==
    /\ sched.pc = "idle" /\ run[d] = "unknown" /\ row[d] \notin Claimed /\ ~Holds(d)
    /\ run' = [run EXCEPT ![d] = "running"]
    /\ row' = [row EXCEPT ![d] = "pending"]
    /\ UNCHANGED <<clock, schedule, revoked, occ, origin, sched, web, faults>>

\* update, pause, resume and cancel by the owner, each from a new Slack message
\* (cancelled is a pause after which no revision follows).
ChangeSchedule(status) ==
    /\ schedule.rev < MaxRev
    /\ schedule' = [schedule EXCEPT !.rev = @ + 1, !.status = status]
    /\ UNCHANGED <<clock, revoked, occ, run, row, origin, sched, web, faults>>

\* The message a revision rests on is edited or deleted, or its author leaves.
Revoke(rev) ==
    /\ rev <= schedule.rev /\ rev \notin revoked
    /\ revoked' = revoked \cup {rev}
    /\ UNCHANGED <<clock, schedule, occ, run, row, origin, sched, web, faults>>

\* A claim whose thread is gone runs out and is found in its phase again.
Expire(d) ==
    /\ row[d] \in Claimed /\ ~Holds(d)
    /\ row' = [row EXCEPT ![d] = IF @ = "notifying" THEN "notify" ELSE "pending"]
    /\ UNCHANGED <<clock, schedule, revoked, occ, run, origin, sched, web, faults>>

\* The process dies; the next one starts with the same tables.
Crash ==
    /\ faults < MaxFaults /\ faults' = faults + 1
    /\ sched' = Idle /\ web' = [pc |-> "idle", due |-> None]
    /\ UNCHANGED <<clock, schedule, revoked, occ, run, row, origin>>

\* The loop reads the time once, when an iteration starts: time that passes during an
\* iteration is time that passes before the next one.
Tick ==
    /\ clock < MaxTime /\ sched.pc = "idle"
    /\ clock' = clock + 1
    /\ UNCHANGED <<schedule, revoked, occ, run, row, origin, sched, web, faults>>

\* _run_generic_scheduler, without its exceptions.
Iteration ==
    \/ TickStart \/ AdmitCheck \/ AdmitCreate \/ AdmitLeave \/ AdmitSettle
    \/ ReadDue \/ Reserve
    \/ ClaimWork \/ WorkCheck \/ DelegatedApproval \/ SliceLeave
    \/ Notify \/ NotificationPersisted
    \/ \E mode \in RunModes : SliceCommit(mode)

Next ==
    \/ Iteration \/ IterationRaises \/ SliceCrash \/ Crash
    \/ \E d \in Dues : WebJob(d) \/ WebClaim(d) \/ CompleteDeferred(d) \/ ResolveUnknown(d)
                        \/ Expire(d)
    \/ \E mode \in RunModes : WebCommit(mode)
    \/ WebLeave
    \/ \E status \in {"active", "paused"} : ChangeSchedule(status)
    \/ \E rev \in 1..MaxRev : Revoke(rev)
    \/ Tick

Spec == Init /\ [][Next]_vars

-----------------------------------------------------------------------------
(* Properties *)

\* Occurrences of one schedule do not overlap: whatever crashes, revocations, edits
\* and web approvals do, at most one of them is reserved, admitted or waiting.
OneActive == Cardinality({d \in Dues : Active(occ[d])}) <= 1

\* An occurrence that ended never changes again, although its Run may still be
\* approved, completed or resolved, and its queue row claimed once more.
TerminalFinal ==
    [][\A d \in Dues : occ[d].state \in TerminalOccurrence => occ'[d] = occ[d]]_vars

\* "Durable occurrence-to-Run identity": a Run exists exactly for the occurrences that
\* were admitted, so that a crash neither loses the Run nor lets a later tick reach a
\* Run it did not admit; skipped and refused occurrences never get one.
RunsMatchOccurrences ==
    \A d \in Dues :
        /\ run[d] # "none" => occ[d].state \notin {"none", "reserved", "skipped_overlap",
                                                   "skipped_misfire"}
        /\ occ[d].state \in {"admitted", "running", "succeeded"} => run[d] # "none"

\* An occurrence reported as succeeded belongs to a Run that completed, also when web
\* jobs drive the Run while the scheduler writes the state it saw.
SucceededCompleted == \A d \in Dues : occ[d].state = "succeeded" => run[d] = "completed"

\* What a crash or an exception left reserved is admitted or refused before the tick
\* looks at new dues and before the queue is worked, so that it neither blocks the
\* schedule as active for ever nor is started behind a later due.
ReservedFirst ==
    sched.pc \in {"due", "work", "claimed", "slice", "notice", "told"} =>
        \A d \in Dues : occ[d].state # "reserved"

\* docs/architecture/system.md: "an unknown external effect is not replaced with a new
\* Run".  No Run starts while an earlier occurrence's effect is unknown, except that the
\* refusal in work_once ends an occurrence whose authority is gone, and with it the wait
\* of the revisions that follow.
UnknownEffectNotReplaced ==
    [][\A d \in Dues : run[d] = "none" /\ run'[d] # "none" =>
        \A e \in Dues : run[e] = "unknown" => Unavailable(e)]_vars

=============================================================================
