------------------------- MODULE ScheduleRuntimeProofs -------------------------
(***************************************************************************)
(* For every number of dues, revisions and faults and every misfire policy:*)
(* the type invariant of ScheduleRuntime, that occurrences of a schedule do *)
(* not overlap, agree with their Runs and end once, that what was reserved  *)
(* is admitted or refused before anything else, and that no Run replaces an *)
(* unknown effect.                                                          *)
(***************************************************************************)
EXTENDS ScheduleRuntime, FiniteSetTheorems, TLAPS

-----------------------------------------------------------------------------
(* The inductive invariant. *)

\* No two occurrences are active.
Exclusive == \A d, e \in Dues : Active(occ[d]) /\ Active(occ[e]) => d = e

\* What the scheduler thread may rely on at each of its steps: only this thread moves
\* occurrences, and a Run that ended stays as it is.
Position ==
    /\ sched.pc \in {"check", "create", "reserve", "drive", "settle",
                     "claimed", "slice", "notice", "told"} => sched.due \in Dues
    /\ sched.pc \in {"check", "create"} => occ[sched.due].state = "reserved"
    /\ sched.pc = "reserve" =>
        /\ occ[sched.due].state = "none"
        /\ sched.new \in {"reserved", "awaiting_input", "skipped_overlap", "skipped_misfire"}
        /\ sched.new \in {"reserved", "awaiting_input"} => \A e \in Dues : ~Active(occ[e])
    /\ sched.pc \in {"drive", "settle"} => occ[sched.due].state = "admitted"
    /\ sched.pc = "settle" =>
        /\ sched.new \in {"succeeded", "blocked", "awaiting_input", "running"}
        /\ sched.new = "succeeded" => run[sched.due] = "completed"
        /\ sched.new = "blocked" => run[sched.due] = "blocked"
    /\ sched.pc \in {"claimed", "slice", "notice", "told"} => run[sched.due] # "none"
    /\ sched.pc = "slice" =>
        Active(occ[sched.due]) \/ occ[sched.due].state = OccurrenceState(run[sched.due])

\* Whoever holds or may claim a Run's row holds a Run that exists.
Claims ==
    /\ \A d \in Dues : origin[d] # "none" => run[d] # "none"
    /\ web.pc # "idle" => web.due \in Dues /\ run[web.due] # "none"

\* An occurrence that was refused although its Run goes on has lost its authority.
Ended == \A d \in Dues : occ[d].state = "blocked" /\ run[d] # "none" =>
            run[d] = "blocked" \/ Unavailable(d)

\* Away from admission nothing is reserved.
NothingReserved ==
    sched.pc \in {"due", "reserve", "work", "claimed", "slice", "notice", "told"} =>
        \A d \in Dues : occ[d].state # "reserved"

IInv ==
    /\ TypeOK
    /\ Exclusive
    /\ Position
    /\ Claims
    /\ Ended
    /\ NothingReserved
    /\ RunsMatchOccurrences
    /\ SucceededCompleted

-----------------------------------------------------------------------------
(* The scheduler's own steps. *)

LEMMA IdleTyped ==
    /\ Idle \in Scheduler /\ Slices \in 0 .. Slices /\ 1 \in 1 .. MaxRev
    /\ "none" \in OccurrenceStates
BY ScheduleConstants DEF Scheduler, Idle, None, OccurrenceStates

LEMMA DuesNat == Dues \subseteq Nat
BY ScheduleConstants DEF Dues

\* A step that moves one occurrence keeps them apart, if that one does not become
\* active beside another one.
LEMMA ExclusiveStep ==
    ASSUME Exclusive, NEW d \in Dues, \A e \in Dues : e # d => occ'[e] = occ[e],
           Active(occ'[d]) => Active(occ[d]) \/ \A e \in Dues : ~Active(occ[e])
    PROVE  Exclusive'
BY DEF Exclusive, Active

LEMMA TickStartPreserves == ASSUME IInv, TickStart PROVE IInv'
<1>1. CASE sched' = [Idle EXCEPT !.pc = "due", !.left = Slices]
           /\ {d \in Dues : occ[d].state = "reserved"} = {}
  <2>1. sched' \in Scheduler
    BY <1>1, IdleTyped DEF Scheduler, Idle, None
  <2>2. sched'.pc = "due" /\ \A d \in Dues : occ'[d].state # "reserved"
    BY <1>1 DEF TickStart, Idle
  <2> QED
    BY <2>1, <2>2 DEF TickStart, IInv, TypeOK, Exclusive, Position, Claims, Ended, Unavailable,
       NothingReserved, RunsMatchOccurrences, SucceededCompleted
<1>2. ASSUME NEW d \in Dues, occ[d].state = "reserved",
             sched' = [Idle EXCEPT !.pc = "check", !.due = d, !.left = Slices]
      PROVE IInv'
  <2>1. sched' \in Scheduler
    BY <1>2, IdleTyped DEF Scheduler, Idle, None
  <2>2. sched'.pc = "check" /\ sched'.due = d
    BY <1>2 DEF Idle
  <2> QED
    BY <1>2, <2>1, <2>2 DEF TickStart, IInv, TypeOK, Exclusive, Position, Claims, Ended,
       Unavailable, NothingReserved, RunsMatchOccurrences, SucceededCompleted
<1> QED
  BY <1>1, <1>2 DEF TickStart

LEMMA AdmitCheckPreserves == ASSUME IInv, AdmitCheck PROVE IInv'
<1> DEFINE d == sched.due
<1>1. sched \in Scheduler /\ d \in Dues /\ occ[d].state = "reserved"
  BY DEF IInv, TypeOK, Position, AdmitCheck
<1>2. CASE sched' = [sched EXCEPT !.pc = "create"] /\ occ' = occ
  <2>1. sched' \in Scheduler /\ sched'.pc = "create" /\ sched'.due = d
    BY <1>1, <1>2 DEF Scheduler
  <2> QED
    BY <1>1, <1>2, <2>1 DEF AdmitCheck, IInv, TypeOK, Exclusive, Position, Claims, Ended,
       Unavailable, NothingReserved, RunsMatchOccurrences, SucceededCompleted
<1>3. CASE sched' = Resumed /\ occ' = [occ EXCEPT ![d].state = "blocked"]
  <2>1. sched' \in Scheduler /\ sched'.pc \in {"reserved", "work"}
    BY <1>1, <1>3, IdleTyped DEF Scheduler, Resumed, None
  <2>2. TypeOK'
    BY <1>1, <1>3, <2>1 DEF AdmitCheck, IInv, TypeOK, OccurrenceStates, TerminalOccurrence
  <2>3. Exclusive' /\ Claims' /\ Ended' /\ RunsMatchOccurrences' /\ SucceededCompleted'
    BY <1>1, <1>3 DEF AdmitCheck, IInv, TypeOK, Exclusive, Claims, Ended, Unavailable, Active,
       TerminalOccurrence, RunsMatchOccurrences, SucceededCompleted
  <2>4. \A e \in Dues : occ'[e].state # "reserved"
    BY <1>1, <1>3 DEF IInv, TypeOK, Exclusive, Active, TerminalOccurrence
  <2>5. NothingReserved' /\ Position'
    BY <2>1, <2>4 DEF NothingReserved, Position
  <2> QED
    BY <2>2, <2>3, <2>5 DEF IInv
<1> QED
  BY <1>2, <1>3 DEF AdmitCheck

LEMMA AdmitCreatePreserves == ASSUME IInv, AdmitCreate PROVE IInv'
<1> DEFINE d == sched.due
<1>1. sched \in Scheduler /\ d \in Dues /\ occ[d].state = "reserved"
  BY DEF IInv, TypeOK, Position, AdmitCreate
<1>2. sched' \in Scheduler /\ sched'.pc = "drive" /\ sched'.due = d
  BY <1>1 DEF AdmitCreate, Scheduler
<1>3. TypeOK'
  BY <1>1, <1>2 DEF AdmitCreate, IInv, TypeOK, OccurrenceStates, TerminalOccurrence, RunModes
<1>4. Exclusive' /\ Position' /\ NothingReserved'
  BY <1>1, <1>2 DEF AdmitCreate, IInv, TypeOK, Exclusive, Position, NothingReserved, Active,
     TerminalOccurrence
<1>5. Claims' /\ Ended' /\ RunsMatchOccurrences' /\ SucceededCompleted'
  BY <1>1, <1>2 DEF AdmitCreate, IInv, TypeOK, Claims, Ended, Unavailable,
     RunsMatchOccurrences, SucceededCompleted
<1> QED
  BY <1>3, <1>4, <1>5 DEF IInv

LEMMA AdmitLeavePreserves == ASSUME IInv, AdmitLeave PROVE IInv'
<1> DEFINE d == sched.due
<1>1. /\ sched \in Scheduler /\ d \in Dues /\ occ[d].state = "admitted"
      /\ run[d] \in RunModes \ {"none", "created"}
  BY DEF IInv, TypeOK, Position, AdmitLeave, RunsMatchOccurrences
<1>2. /\ OccurrenceState(run[d]) \in {"succeeded", "blocked", "awaiting_input", "running"}
      /\ OccurrenceState(run[d]) = "succeeded" => run[d] = "completed"
      /\ OccurrenceState(run[d]) = "blocked" => run[d] = "blocked"
  BY <1>1 DEF OccurrenceState, RunModes
<1>3. sched' \in Scheduler /\ sched'.pc = "settle" /\ sched'.due = d
      /\ sched'.new = OccurrenceState(run[d])
  BY <1>1, <1>2 DEF AdmitLeave, Scheduler, OccurrenceStates, TerminalOccurrence
<1>4. TypeOK'
  BY <1>1, <1>3 DEF AdmitLeave, IInv, TypeOK, Released, Target
<1>5. Position' /\ NothingReserved'
  BY <1>1, <1>2, <1>3 DEF AdmitLeave, Position, NothingReserved
<1>6. Exclusive' /\ Claims' /\ Ended' /\ RunsMatchOccurrences' /\ SucceededCompleted'
  BY DEF AdmitLeave, IInv, Exclusive, Claims, Ended, Unavailable, RunsMatchOccurrences,
     SucceededCompleted
<1> QED
  BY <1>4, <1>5, <1>6 DEF IInv

LEMMA AdmitSettlePreserves == ASSUME IInv, AdmitSettle PROVE IInv'
<1> DEFINE d == sched.due
<1>1. /\ sched \in Scheduler /\ d \in Dues /\ occ[d].state = "admitted" /\ run[d] # "none"
      /\ sched.new \in {"succeeded", "blocked", "awaiting_input", "running"}
      /\ sched.new = "succeeded" => run[d] = "completed"
      /\ sched.new = "blocked" => run[d] = "blocked"
  BY DEF IInv, TypeOK, Position, AdmitSettle, RunsMatchOccurrences
<1>2. sched' \in Scheduler /\ sched'.pc \in {"reserved", "work"}
  BY <1>1, IdleTyped DEF AdmitSettle, Scheduler, Resumed, None
<1>3. TypeOK'
  BY <1>1, <1>2 DEF AdmitSettle, IInv, TypeOK, OccurrenceStates, TerminalOccurrence
<1>4. /\ \A e \in Dues : /\ occ'[e].rev = occ[e].rev
                         /\ e # d => occ'[e] = occ[e]
      /\ occ'[d].state = sched.new
  BY <1>1 DEF AdmitSettle, IInv, TypeOK
<1>5. Active(occ[d])
  BY <1>1 DEF Active, TerminalOccurrence
<1>6. Exclusive'
  BY <1>1, <1>4, <1>5, ExclusiveStep DEF IInv
<1>7. ASSUME NEW e \in Dues PROVE occ'[e].state # "reserved"
  BY <1>1, <1>4, <1>5 DEF IInv, Exclusive, Active, TerminalOccurrence
<1>8. Position' /\ NothingReserved'
  BY <1>2, <1>7 DEF Position, NothingReserved
<1>9. Claims'
  BY DEF AdmitSettle, IInv, Claims
<1>10. Ended'
  BY <1>1, <1>4 DEF AdmitSettle, IInv, Ended, Unavailable
<1>11. RunsMatchOccurrences' /\ SucceededCompleted'
  BY <1>1, <1>4 DEF AdmitSettle, IInv, RunsMatchOccurrences, SucceededCompleted
<1> QED
  BY <1>3, <1>6, <1>8, <1>9, <1>10, <1>11 DEF IInv

LEMMA ReadDuePreserves == ASSUME IInv, ReadDue PROVE IInv'
<1>1. sched \in Scheduler /\ schedule.rev \in 1 .. MaxRev
      /\ \A e \in Dues : occ[e].state # "reserved"
  BY DEF IInv, TypeOK, NothingReserved, ReadDue
<1>2. CASE sched' = [sched EXCEPT !.pc = "work"]
  <2>1. sched' \in Scheduler /\ sched'.pc = "work"
    BY <1>1, <1>2 DEF Scheduler
  <2> QED
    BY <1>1, <2>1 DEF ReadDue, IInv, TypeOK, Exclusive, Position, Claims, Ended, Unavailable,
       NothingReserved, RunsMatchOccurrences, SucceededCompleted
<1>3. ASSUME NEW d \in Dues, NextDue(d),
             sched' = [sched EXCEPT !.pc = "reserve", !.due = d, !.rev = schedule.rev,
                                    !.new = ReservedState(d)]
      PROVE IInv'
  <2>1. occ[d].state = "none"
    BY <1>3, DuesNat DEF NextDue, Unseen, Recorded
  <2>2. /\ ReservedState(d) \in {"reserved", "awaiting_input", "skipped_overlap",
                                 "skipped_misfire"}
        /\ ReservedState(d) \in {"reserved", "awaiting_input"} => \A e \in Dues : ~Active(occ[e])
    BY DEF ReservedState
  <2>3. sched' \in Scheduler
    BY <1>1, <1>3, <2>2 DEF Scheduler, OccurrenceStates, TerminalOccurrence
  <2>4. sched'.pc = "reserve" /\ sched'.due = d /\ sched'.new = ReservedState(d)
    BY <1>1, <1>3 DEF Scheduler
  <2>5. Position' /\ NothingReserved'
    BY <1>1, <2>1, <2>2, <2>4 DEF ReadDue, Position, NothingReserved
  <2> QED
    BY <2>3, <2>5 DEF ReadDue, IInv, TypeOK, Exclusive, Claims, Ended, Unavailable,
       RunsMatchOccurrences, SucceededCompleted
<1> QED
  BY <1>2, <1>3 DEF ReadDue

LEMMA ReservePreserves == ASSUME IInv, Reserve PROVE IInv'
<1> DEFINE d == sched.due
<1>1. /\ sched \in Scheduler /\ d \in Dues /\ occ[d].state = "none" /\ run[d] = "none"
      /\ sched.rev \in 1 .. MaxRev
      /\ sched.new \in {"reserved", "awaiting_input", "skipped_overlap", "skipped_misfire"}
      /\ sched.new \in {"reserved", "awaiting_input"} => \A e \in Dues : ~Active(occ[e])
      /\ \A e \in Dues : occ[e].state # "reserved"
  BY DEF IInv, TypeOK, Scheduler, Position, NothingReserved, RunsMatchOccurrences, Reserve
<1>2. CASE sched' = Idle /\ occ' = occ
  <2>1. sched' \in Scheduler /\ sched'.pc = "idle"
    BY <1>2, IdleTyped DEF Idle
  <2> QED
    BY <1>2, <2>1 DEF Reserve, IInv, TypeOK, Exclusive, Position, Claims, Ended, Unavailable,
       NothingReserved, RunsMatchOccurrences, SucceededCompleted
<1>3. ASSUME occ' = [occ EXCEPT ![d] = [state |-> sched.new, rev |-> sched.rev]],
             sched' = IF sched.new = "reserved"
                      THEN [sched EXCEPT !.pc = "check", !.next = "work", !.new = "none", !.rev = 1]
                      ELSE [sched EXCEPT !.pc = "work", !.due = None, !.new = "none", !.rev = 1]
      PROVE IInv'
  <2>1. sched' \in Scheduler
    BY <1>1, <1>3, IdleTyped DEF Scheduler, None
  <2>2. /\ sched.new = "reserved" => sched'.pc = "check" /\ sched'.due = d
        /\ sched.new # "reserved" => sched'.pc = "work"
    BY <1>1, <1>3 DEF Scheduler
  <2>3. /\ occ'[d] = [state |-> sched.new, rev |-> sched.rev]
        /\ \A e \in Dues : e # d => occ'[e] = occ[e]
        /\ occ' \in [Dues -> [state : OccurrenceStates, rev : 1..MaxRev]]
    BY <1>1, <1>3 DEF IInv, TypeOK, OccurrenceStates, TerminalOccurrence
  <2>4. Position' /\ NothingReserved'
    BY <1>1, <2>2, <2>3 DEF Position, NothingReserved
  <2>5. Exclusive'
    BY <1>1, <2>3 DEF IInv, Exclusive, Active, TerminalOccurrence
  <2>6. TypeOK' /\ Claims'
    BY <2>1, <2>3 DEF Reserve, IInv, TypeOK, Claims
  <2>7. Ended'
    BY <1>1, <2>3 DEF Reserve, IInv, Ended, Unavailable
  <2>8. RunsMatchOccurrences' /\ SucceededCompleted'
    BY <1>1, <2>3 DEF Reserve, IInv, RunsMatchOccurrences, SucceededCompleted
  <2> QED
    BY <2>4, <2>5, <2>6, <2>7, <2>8 DEF IInv
<1> QED
  BY <1>2, <1>3 DEF Reserve

LEMMA ClaimWorkPreserves == ASSUME IInv, ClaimWork PROVE IInv'
<1>1. sched \in Scheduler /\ \A e \in Dues : occ[e].state # "reserved"
  BY DEF IInv, TypeOK, NothingReserved, ClaimWork
<1>2. CASE sched' = Idle /\ row' = row
  <2>1. sched' \in Scheduler /\ sched'.pc = "idle"
    BY <1>2, IdleTyped DEF Idle
  <2> QED
    BY <1>2, <2>1 DEF ClaimWork, IInv, TypeOK, Exclusive, Position, Claims, Ended,
       Unavailable, NothingReserved, RunsMatchOccurrences, SucceededCompleted
<1>3. ASSUME NEW d \in Dues, origin[d] = "schedule", sched.left # 0,
             row' = [row EXCEPT ![d] = IF @ = "notify" THEN "notifying" ELSE "running"],
             sched' = [sched EXCEPT !.pc = "claimed", !.due = d, !.left = @ - 1]
      PROVE IInv'
  <2>1. sched.left - 1 \in 0 .. Slices
    BY <1>1, <1>3, ScheduleConstants DEF Scheduler
  <2>2. sched' \in Scheduler /\ sched'.pc = "claimed" /\ sched'.due = d
    BY <1>1, <1>3, <2>1 DEF Scheduler
  <2>3. TypeOK'
    BY <1>3, <2>2 DEF ClaimWork, IInv, TypeOK, Claimed
  <2>4. run[d] # "none"
    BY <1>3 DEF IInv, Claims
  <2> QED
    BY <1>1, <2>2, <2>3, <2>4 DEF ClaimWork, IInv, Exclusive, Position, Claims, Ended,
       Unavailable, NothingReserved, RunsMatchOccurrences, SucceededCompleted
<1> QED
  BY <1>2, <1>3 DEF ClaimWork, Claimable

LEMMA WorkCheckPreserves == ASSUME IInv, WorkCheck PROVE IInv'
<1> DEFINE d == sched.due
<1>1. /\ sched \in Scheduler /\ d \in Dues /\ run[d] \in RunModes \ {"none"}
      /\ \A e \in Dues : occ[e].state # "reserved"
  BY DEF IInv, TypeOK, Position, NothingReserved, WorkCheck
<1>2. ASSUME ~Unavailable(d), occ' = occ, row' = row,
             sched' = [sched EXCEPT !.pc = IF row[d] = "notifying" THEN "notice" ELSE "slice"]
      PROVE IInv'
  <2>1. sched' \in Scheduler /\ sched'.pc \in {"notice", "slice"} /\ sched'.due = d
    BY <1>1, <1>2 DEF Scheduler
  <2>2. Active(occ[d]) \/ occ[d].state = OccurrenceState(run[d])
    BY <1>1, <1>2 DEF IInv, TypeOK, Ended, RunsMatchOccurrences, SucceededCompleted, Active,
       TerminalOccurrence, OccurrenceStates, OccurrenceState
  <2>3. Position'
    BY <1>1, <1>2, <2>1, <2>2 DEF WorkCheck, Position, Active, OccurrenceState
  <2> QED
    BY <1>1, <1>2, <2>1, <2>3 DEF WorkCheck, IInv, TypeOK, Exclusive, Claims, Ended,
       Unavailable, NothingReserved, RunsMatchOccurrences, SucceededCompleted
<1>3. CASE sched' = Idle /\ occ' = occ /\ row' = row
  <2>1. sched' \in Scheduler /\ sched'.pc = "idle"
    BY <1>3, IdleTyped DEF Idle
  <2> QED
    BY <1>3, <2>1 DEF WorkCheck, IInv, TypeOK, Exclusive, Position, Claims, Ended,
       Unavailable, NothingReserved, RunsMatchOccurrences, SucceededCompleted
<1>4. ASSUME Unavailable(d), row' = [row EXCEPT ![d] = "none"],
             occ' = [occ EXCEPT ![d].state = IF Active(occ[d]) THEN "blocked" ELSE @],
             sched' = [sched EXCEPT !.pc = "work", !.due = None]
      PROVE IInv'
  <2>1. sched' \in Scheduler /\ sched'.pc = "work"
    BY <1>1, <1>4 DEF Scheduler
  <2>2. /\ occ' \in [Dues -> [state : OccurrenceStates, rev : 1..MaxRev]]
        /\ \A e \in Dues : /\ occ'[e].rev = occ[e].rev
                           /\ e # d => occ'[e] = occ[e]
        /\ occ'[d].state = IF Active(occ[d]) THEN "blocked" ELSE occ[d].state
    BY <1>1, <1>4 DEF IInv, TypeOK, OccurrenceStates, TerminalOccurrence
  <2>3. TypeOK' /\ Claims' /\ Ended' /\ RunsMatchOccurrences' /\ SucceededCompleted'
    BY <1>1, <1>4, <2>1, <2>2 DEF WorkCheck, IInv, TypeOK, Claims, Ended, Unavailable,
       RunsMatchOccurrences, SucceededCompleted
  <2>4. Active(occ'[d]) => Active(occ[d])
    BY <2>2 DEF Active, TerminalOccurrence
  <2>5. Exclusive'
    BY <1>1, <2>2, <2>4, ExclusiveStep DEF IInv
  <2>6. ASSUME NEW e \in Dues PROVE occ'[e].state # "reserved"
    BY <1>1, <2>2
  <2>7. Position' /\ NothingReserved'
    BY <2>1, <2>6 DEF Position, NothingReserved
  <2> QED
    BY <2>3, <2>5, <2>7 DEF IInv
<1> QED
  BY <1>2, <1>3, <1>4 DEF WorkCheck

LEMMA SliceLeavePreserves == ASSUME IInv, SliceLeave \/ SliceCrash PROVE IInv'
<1> DEFINE d == sched.due
<1>1. /\ sched \in Scheduler /\ d \in Dues /\ run[d] \in RunModes \ {"none"}
      /\ Active(occ[d]) \/ occ[d].state = OccurrenceState(run[d])
      /\ \A e \in Dues : occ[e].state # "reserved"
  BY DEF IInv, TypeOK, Position, NothingReserved, SliceLeave, SliceCrash
<1>2. /\ OccurrenceState(run[d]) \in {"succeeded", "blocked", "awaiting_input", "running",
                                      "admitted"}
      /\ OccurrenceState(run[d]) = "succeeded" => run[d] = "completed"
      /\ OccurrenceState(run[d]) = "blocked" => run[d] = "blocked"
  BY <1>1 DEF OccurrenceState, RunModes
<1>3. /\ occ' \in [Dues -> [state : OccurrenceStates, rev : 1..MaxRev]]
      /\ \A e \in Dues : /\ occ'[e].rev = occ[e].rev
                         /\ e # d => occ'[e] = occ[e]
      /\ occ'[d].state = OccurrenceState(run[d])
  BY <1>1, <1>2 DEF SliceLeave, SliceCrash, IInv, TypeOK, OccurrenceStates, TerminalOccurrence
<1>4. sched' \in Scheduler /\ sched'.pc \in {"idle", "work"}
  BY <1>1, IdleTyped DEF SliceLeave, SliceCrash, Scheduler, Idle
<1>5. TypeOK'
  BY <1>1, <1>3, <1>4, ScheduleConstants DEF SliceLeave, SliceCrash, IInv, TypeOK, Released, Target
<1>6. ~Active(occ[d]) => occ'[d].state = occ[d].state
  BY <1>1, <1>3
<1>7. Exclusive'
  BY <1>1, <1>3, <1>6, ExclusiveStep DEF IInv, Active
<1>8. Claims'
  BY DEF SliceLeave, SliceCrash, IInv, Claims
<1>9. Ended'
  BY <1>2, <1>3 DEF SliceLeave, SliceCrash, IInv, Ended, Unavailable
<1>10. RunsMatchOccurrences' /\ SucceededCompleted'
  BY <1>1, <1>2, <1>3 DEF SliceLeave, SliceCrash, IInv, RunsMatchOccurrences,
     SucceededCompleted
<1>11. ASSUME NEW e \in Dues PROVE occ'[e].state # "reserved"
  BY <1>1, <1>2, <1>3
<1>12. Position' /\ NothingReserved'
  BY <1>4, <1>11 DEF Position, NothingReserved
<1> QED
  BY <1>5, <1>7, <1>8, <1>9, <1>10, <1>12 DEF IInv

-----------------------------------------------------------------------------
(* Steps that leave every occurrence as it is. *)

\* Occurrences and Runs as before: only who holds what, or which authority is gone.
LEMMA RunsKept ==
    ASSUME IInv, occ' = occ, run' = run, revoked \subseteq revoked'
    PROVE  Exclusive' /\ Ended' /\ RunsMatchOccurrences' /\ SucceededCompleted'
BY DEF IInv, Exclusive, Ended, Unavailable, RunsMatchOccurrences, SucceededCompleted

\* A Run that has not ended takes another mode.
LEMMA RunMoves ==
    ASSUME IInv, NEW d \in Dues, NEW mode \in RunModes \ {"none"},
           run[d] \in RunModes \ {"none", "completed", "blocked"},
           run' = [run EXCEPT ![d] = mode],
           occ' = occ, revoked' = revoked, sched' = sched, origin' = origin,
           web'.due = web.due, web'.pc # "idle" => web.pc # "idle"
    PROVE  /\ run' \in [Dues -> RunModes]
           /\ Exclusive' /\ Position' /\ Claims' /\ Ended' /\ NothingReserved'
           /\ RunsMatchOccurrences' /\ SucceededCompleted'
<1>1. /\ run' \in [Dues -> RunModes] /\ run'[d] = mode
      /\ \A e \in Dues : e # d => run'[e] = run[e]
      /\ \A e \in Dues : (run'[e] = "none") = (run[e] = "none")
      /\ \A e \in Dues : run[e] \in {"completed", "blocked"} => run'[e] = run[e]
  BY DEF IInv, TypeOK
<1>2. Exclusive' /\ NothingReserved'
  BY DEF IInv, Exclusive, NothingReserved
<1>3. Claims' /\ Ended' /\ RunsMatchOccurrences' /\ SucceededCompleted'
  BY <1>1 DEF IInv, Claims, Ended, Unavailable, RunsMatchOccurrences, SucceededCompleted
<1>4. ASSUME sched.pc = "slice", ~Active(occ[sched.due]) PROVE run'[sched.due] = run[sched.due]
  <2>1. /\ sched.due \in Dues /\ run[sched.due] # "none"
        /\ occ[sched.due].state = OccurrenceState(run[sched.due])
    BY <1>4 DEF IInv, Position
  <2>2. occ[sched.due].state \in TerminalOccurrence
    BY <1>4, <2>1 DEF IInv, RunsMatchOccurrences, Active
  <2>3. run[sched.due] \in {"completed", "blocked"}
    BY <2>1, <2>2 DEF IInv, TypeOK, OccurrenceState, RunModes, TerminalOccurrence
  <2> QED
    BY <1>1, <2>1, <2>3
<1>5. Position'
  BY <1>1, <1>4 DEF IInv, Position
<1> QED
  BY <1>1, <1>2, <1>3, <1>5

LEMMA SliceCommitPreserves ==
    ASSUME IInv, NEW mode \in RunModes, SliceCommit(mode) PROVE IInv'
<1> DEFINE d == sched.due
<1>1. d \in Dues /\ mode # "none" /\ run[d] \in RunModes \ {"none", "completed", "blocked"}
  BY DEF SliceCommit, IInv, TypeOK, Position, NextModes, RunModes
<1>2. /\ run' \in [Dues -> RunModes]
      /\ Exclusive' /\ Position' /\ Claims' /\ Ended' /\ NothingReserved'
      /\ RunsMatchOccurrences' /\ SucceededCompleted'
  BY <1>1, RunMoves DEF SliceCommit
<1>3. TypeOK'
  BY <1>1, <1>2 DEF SliceCommit, IInv, TypeOK, Claimed
<1> QED
  BY <1>2, <1>3 DEF IInv

LEMMA DelegatedApprovalPreserves == ASSUME IInv, DelegatedApproval PROVE IInv'
<1> DEFINE d == sched.due
<1>1. d \in Dues /\ run[d] \in RunModes \ {"none", "completed", "blocked"}
      /\ "running" \in RunModes \ {"none"}
  BY DEF DelegatedApproval, IInv, TypeOK, Position, RunModes
<1>2. /\ run' \in [Dues -> RunModes]
      /\ Exclusive' /\ Position' /\ Claims' /\ Ended' /\ NothingReserved'
      /\ RunsMatchOccurrences' /\ SucceededCompleted'
  BY <1>1, RunMoves DEF DelegatedApproval
<1>3. TypeOK'
  BY <1>1, <1>2 DEF DelegatedApproval, IInv, TypeOK, Claimed
<1> QED
  BY <1>2, <1>3 DEF IInv

LEMMA WebCommitPreserves ==
    ASSUME IInv, NEW mode \in RunModes, WebCommit(mode) PROVE IInv'
<1> DEFINE d == web.due
<1>1. d \in Dues /\ mode # "none" /\ run[d] \in RunModes \ {"none", "completed", "blocked"}
  BY DEF WebCommit, IInv, TypeOK, Claims, NextModes, RunModes
<1>2. web'.due = web.due /\ web' \in [pc : {"idle", "job", "claimed"}, due : Dues \cup {None}]
  BY DEF WebCommit, IInv, TypeOK
<1>3. /\ run' \in [Dues -> RunModes]
      /\ Exclusive' /\ Position' /\ Claims' /\ Ended' /\ NothingReserved'
      /\ RunsMatchOccurrences' /\ SucceededCompleted'
  BY <1>1, <1>2, RunMoves DEF WebCommit
<1>4. TypeOK'
  BY <1>1, <1>2, <1>3 DEF WebCommit, IInv, TypeOK, Claimed
<1> QED
  BY <1>3, <1>4 DEF IInv

LEMMA CompleteDeferredPreserves ==
    ASSUME IInv, NEW d \in Dues, CompleteDeferred(d) \/ ResolveUnknown(d) PROVE IInv'
<1>1. PICK mode \in {"running", "unknown"} :
        /\ run' = [run EXCEPT ![d] = mode]
        /\ row' = [row EXCEPT ![d] = Target(mode)]
  BY DEF CompleteDeferred, ResolveUnknown, Target
<1>2. /\ mode \in RunModes \ {"none"} /\ run[d] \in RunModes \ {"none", "completed", "blocked"}
      /\ occ' = occ /\ revoked' = revoked /\ sched' = sched /\ origin' = origin /\ web' = web
  BY DEF CompleteDeferred, ResolveUnknown, RunModes
<1>3. /\ run' \in [Dues -> RunModes]
      /\ Exclusive' /\ Position' /\ Claims' /\ Ended' /\ NothingReserved'
      /\ RunsMatchOccurrences' /\ SucceededCompleted'
  BY <1>1, <1>2, RunMoves
<1>4. TypeOK'
  BY <1>1, <1>2, <1>3 DEF CompleteDeferred, ResolveUnknown, IInv, TypeOK, Target
<1> QED
  BY <1>3, <1>4 DEF IInv

LEMMA NotifyPreserves == ASSUME IInv, Notify \/ NotificationPersisted PROVE IInv'
<1> DEFINE d == sched.due
<1>1. /\ sched \in Scheduler /\ d \in Dues /\ run[d] # "none"
      /\ \A e \in Dues : occ[e].state # "reserved"
  BY DEF Notify, NotificationPersisted, IInv, TypeOK, Position, NothingReserved
<1>2. /\ sched' \in Scheduler
      /\ (sched'.pc = "told" /\ sched'.due = d) \/ sched'.pc = "work"
  BY <1>1 DEF Notify, NotificationPersisted, Scheduler
<1>3. row' \in [Dues -> {"none", "pending", "notify"} \cup Claimed]
  BY DEF Notify, NotificationPersisted, IInv, TypeOK
<1>4. occ' = occ /\ run' = run /\ revoked' = revoked /\ origin' = origin /\ web' = web
  BY DEF Notify, NotificationPersisted
<1>5. TypeOK' /\ Claims'
  BY <1>2, <1>3, <1>4 DEF Notify, NotificationPersisted, IInv, TypeOK, Claims
<1>6. Position' /\ NothingReserved'
  BY <1>1, <1>2, <1>4 DEF Position, NothingReserved
<1> QED
  BY <1>4, <1>5, <1>6, RunsKept DEF IInv

\* The iteration ends early: an exception, or the end of the process.
LEMMA IterationEndsPreserves == ASSUME IInv, IterationRaises \/ Crash PROVE IInv'
<1>1. sched' \in Scheduler /\ sched'.pc = "idle"
  BY IdleTyped DEF IterationRaises, Crash, Idle
<1>2. /\ row' \in [Dues -> {"none", "pending", "notify"} \cup Claimed]
      /\ web' \in [pc : {"idle", "job", "claimed"}, due : Dues \cup {None}]
      /\ web'.pc # "idle" => web' = web
      /\ faults' \in 0..MaxFaults
  BY ScheduleConstants DEF IterationRaises, Crash, IInv, TypeOK, Released, Target
<1>3. /\ occ' = occ /\ run' = run /\ revoked' = revoked /\ origin' = origin
      /\ clock' = clock /\ schedule' = schedule
  BY DEF IterationRaises, Crash
<1>4. TypeOK' /\ Claims'
  BY <1>1, <1>2, <1>3 DEF IInv, TypeOK, Claims
<1>5. Position' /\ NothingReserved'
  BY <1>1 DEF Position, NothingReserved
<1> QED
  BY <1>3, <1>4, <1>5, RunsKept DEF IInv

\* The queue changes hands, from the web side or because a claim ran out.
LEMMA HandoverPreserves ==
    ASSUME IInv, NEW d \in Dues, WebJob(d) \/ WebClaim(d) \/ WebLeave \/ Expire(d)
    PROVE  IInv'
<1>1. /\ row' \in [Dues -> {"none", "pending", "notify"} \cup Claimed]
      /\ origin' \in [Dues -> {"none", "schedule", "http"}]
      /\ web' \in [pc : {"idle", "job", "claimed"}, due : Dues \cup {None}]
  <2>1. row' \in [Dues -> {"none", "pending", "notify"} \cup Claimed]
    BY DEF WebJob, WebClaim, WebLeave, Expire, IInv, TypeOK, Claimed, Released, Target
  <2>2. origin' \in [Dues -> {"none", "schedule", "http"}]
    BY DEF WebJob, WebClaim, WebLeave, Expire, IInv, TypeOK
  <2>3. web' \in [pc : {"idle", "job", "claimed"}, due : Dues \cup {None}]
    BY DEF WebJob, WebClaim, WebLeave, Expire, IInv, TypeOK
  <2> QED
    BY <2>1, <2>2, <2>3
<1>2. /\ occ' = occ /\ run' = run /\ revoked' = revoked /\ sched' = sched
      /\ clock' = clock /\ schedule' = schedule /\ faults' = faults
  BY DEF WebJob, WebClaim, WebLeave, Expire
<1>3. TypeOK'
  BY <1>1, <1>2 DEF IInv, TypeOK
<1>4. Claims'
  BY <1>2 DEF WebJob, WebClaim, WebLeave, Expire, Claimable, IInv, TypeOK, Claims
<1>5. Position' /\ NothingReserved'
  BY <1>2 DEF IInv, Position, NothingReserved
<1> QED
  BY <1>2, <1>3, <1>4, <1>5, RunsKept DEF IInv

\* The owner, the authority behind a revision, and time.
LEMMA OutsidePreserves ==
    ASSUME IInv,
           \/ \E status \in {"active", "paused"} : ChangeSchedule(status)
           \/ \E rev \in 1..MaxRev : Revoke(rev)
           \/ Tick
    PROVE  IInv'
<1>1. /\ schedule' \in [rev : 1..MaxRev, status : {"active", "paused"}, policy : Policies]
      /\ revoked \subseteq revoked' /\ revoked' \subseteq 1..MaxRev
      /\ clock' \in 0..MaxTime
  <2>1. schedule' \in [rev : 1..MaxRev, status : {"active", "paused"}, policy : Policies]
    <3>1. ASSUME NEW status \in {"active", "paused"}, ChangeSchedule(status)
          PROVE  schedule' \in [rev : 1..MaxRev, status : {"active", "paused"}, policy : Policies]
      <4>1. schedule.rev + 1 \in 1..MaxRev
        BY <3>1, ScheduleConstants DEF ChangeSchedule, IInv, TypeOK
      <4> QED
        BY <3>1, <4>1 DEF ChangeSchedule, IInv, TypeOK
    <3> QED
      BY <3>1 DEF Revoke, Tick, IInv, TypeOK
  <2>2. revoked \subseteq revoked' /\ revoked' \subseteq 1..MaxRev
    BY DEF ChangeSchedule, Revoke, Tick, IInv, TypeOK
  <2>3. clock' \in 0..MaxTime
    BY ScheduleConstants DEF ChangeSchedule, Revoke, Tick, IInv, TypeOK
  <2> QED
    BY <2>1, <2>2, <2>3
<1>2. /\ occ' = occ /\ run' = run /\ row' = row /\ sched' = sched /\ origin' = origin
      /\ web' = web /\ faults' = faults
  BY DEF ChangeSchedule, Revoke, Tick
<1>3. TypeOK'
  BY <1>1, <1>2 DEF IInv, TypeOK
<1>4. Claims' /\ Position' /\ NothingReserved'
  BY <1>2 DEF IInv, Claims, Position, NothingReserved
<1> QED
  BY <1>1, <1>2, <1>3, <1>4, RunsKept DEF IInv

-----------------------------------------------------------------------------
(* The inductive invariant holds. *)

LEMMA InitInductive == Init => IInv
<1> SUFFICES ASSUME Init PROVE IInv
  OBVIOUS
<1>1. TypeOK
  BY ScheduleConstants, IdleTyped DEF Init, TypeOK, RunModes
<1>2. Exclusive /\ Claims /\ Ended /\ RunsMatchOccurrences /\ SucceededCompleted
  BY DEF Init, Exclusive, Active, Claims, Ended, RunsMatchOccurrences, SucceededCompleted
<1>3. Position /\ NothingReserved
  BY DEF Init, Idle, Position, NothingReserved
<1> QED
  BY <1>1, <1>2, <1>3 DEF IInv

LEMMA NextPreserves == IInv /\ [Next]_vars => IInv'
<1> SUFFICES ASSUME IInv, [Next]_vars PROVE IInv'
  OBVIOUS
<1>1. CASE TickStart \/ AdmitCheck \/ AdmitCreate \/ AdmitLeave \/ AdmitSettle
  BY <1>1, TickStartPreserves, AdmitCheckPreserves, AdmitCreatePreserves,
     AdmitLeavePreserves, AdmitSettlePreserves
<1>2. CASE ReadDue \/ Reserve \/ ClaimWork \/ WorkCheck
  BY <1>2, ReadDuePreserves, ReservePreserves, ClaimWorkPreserves, WorkCheckPreserves
<1>3. CASE DelegatedApproval \/ SliceLeave \/ SliceCrash \/ Notify \/ NotificationPersisted
  BY <1>3, DelegatedApprovalPreserves, SliceLeavePreserves, NotifyPreserves
<1>4. CASE \E mode \in RunModes : SliceCommit(mode) \/ WebCommit(mode)
  BY <1>4, SliceCommitPreserves, WebCommitPreserves
<1>5. CASE IterationRaises \/ Crash
  BY <1>5, IterationEndsPreserves
<1>6. CASE \E d \in Dues : WebJob(d) \/ WebClaim(d) \/ Expire(d)
  BY <1>6, HandoverPreserves
<1>7. CASE \E d \in Dues : CompleteDeferred(d) \/ ResolveUnknown(d)
  BY <1>7, CompleteDeferredPreserves
<1>8. CASE WebLeave
  <2>1. web.due \in Dues
    BY <1>8 DEF WebLeave, IInv, Claims
  <2> QED
    BY <1>8, <2>1, HandoverPreserves
<1>9. CASE \/ \E status \in {"active", "paused"} : ChangeSchedule(status)
           \/ \E rev \in 1..MaxRev : Revoke(rev)
           \/ Tick
  BY <1>9, OutsidePreserves
<1>10. CASE UNCHANGED vars
  BY <1>10 DEF vars, IInv, TypeOK, Exclusive, Position, Claims, Ended, Unavailable,
     NothingReserved, RunsMatchOccurrences, SucceededCompleted
<1> QED
  BY <1>1, <1>2, <1>3, <1>4, <1>5, <1>6, <1>7, <1>8, <1>9, <1>10 DEF Next, Iteration

\* Every reachable state satisfies the inductive invariant.
THEOREM ScheduleInductive == Spec => []IInv
BY InitInductive, NextPreserves, PTL DEF Spec

\* The schedule, its occurrences, Runs and queue rows stay in the values the tables
\* may hold, whatever the scheduler, the web workers and crashes do.
THEOREM ScheduleTypes == Spec => []TypeOK
<1>1. IInv => TypeOK
  BY DEF IInv
<1> QED
  BY <1>1, ScheduleInductive, PTL

\* Occurrences do not overlap: _reserve_due reserves beside an active occurrence only
\* as "skipped_overlap", and no later step makes an ended occurrence active.
THEOREM ScheduleOneActive == Spec => []OneActive
<1>1. ASSUME IInv PROVE OneActive
  <2> DEFINE live == {d \in Dues : Active(occ[d])}
  <2>1. CASE live = {}
    <3>1. Cardinality(live) = 0
      BY <2>1, FS_EmptySet
    <3> QED
      BY <3>1 DEF OneActive
  <2>2. CASE live # {}
    <3>1. PICK d \in Dues : d \in live
      BY <2>2
    <3>2. live = {d}
      BY <1>1, <3>1 DEF IInv, Exclusive
    <3>3. Cardinality(live) = 1
      BY <3>2, FS_Singleton
    <3> QED
      BY <3>3 DEF OneActive
  <2> QED
    BY <2>1, <2>2
<1> QED
  BY <1>1, ScheduleInductive, PTL

\* A Run exists exactly for the occurrences the scheduler admitted, because
\* service.create writes the Run and the admission in one transaction.
THEOREM ScheduleRunsMatch == Spec => []RunsMatchOccurrences
<1>1. IInv => RunsMatchOccurrences
  BY DEF IInv
<1> QED
  BY <1>1, ScheduleInductive, PTL

\* An occurrence recorded as succeeded has a Run that completed.
THEOREM ScheduleSucceeded == Spec => []SucceededCompleted
<1>1. IInv => SucceededCompleted
  BY DEF IInv
<1> QED
  BY <1>1, ScheduleInductive, PTL

\* What a crash left reserved is admitted or refused before the tick goes on.
THEOREM ScheduleReservedFirst == Spec => []ReservedFirst
<1>1. IInv => ReservedFirst
  BY DEF IInv, NothingReserved, ReservedFirst
<1> QED
  BY <1>1, ScheduleInductive, PTL

\* An occurrence that ended keeps its state: each write to it is of one that is
\* reserved, admitted or new, or repeats what it says already.
THEOREM ScheduleTerminalFinal == Spec => TerminalFinal
<1>1. ASSUME IInv, [Next]_vars, NEW d \in Dues, occ[d].state \in TerminalOccurrence
      PROVE  occ'[d] = occ[d]
  <2>1. occ[d].state \notin {"none", "reserved", "admitted"} /\ ~Active(occ[d])
        /\ occ \in [Dues -> [state : OccurrenceStates, rev : 1..MaxRev]]
    BY <1>1 DEF TerminalOccurrence, Active, IInv, TypeOK
  <2>2. CASE AdmitCheck \/ AdmitCreate \/ AdmitSettle \/ Reserve
    <3>1. sched.due \in Dues /\ occ[sched.due].state \in {"none", "reserved", "admitted"}
      BY <1>1, <2>2 DEF IInv, Position, AdmitCheck, AdmitCreate, AdmitSettle, Reserve
    <3>2. d # sched.due
      BY <2>1, <3>1
    <3> QED
      BY <2>1, <2>2, <3>2 DEF AdmitCheck, AdmitCreate, AdmitSettle, Reserve
  <2>3. CASE WorkCheck
    BY <2>1, <2>3 DEF WorkCheck
  <2>4. CASE SliceLeave \/ SliceCrash
    <3>1. d = sched.due => occ[d].state = OccurrenceState(run[d])
      BY <1>1, <2>1, <2>4 DEF IInv, Position, SliceLeave, SliceCrash
    <3> QED
      BY <2>1, <2>4, <3>1 DEF SliceLeave, SliceCrash
  <2>5. CASE occ' = occ
    BY <2>5
  <2>6. AdmitCheck \/ AdmitCreate \/ AdmitSettle \/ Reserve \/ WorkCheck
            \/ SliceLeave \/ SliceCrash \/ occ' = occ
    BY <1>1 DEF Next, Iteration, vars, TickStart, AdmitLeave, ReadDue, ClaimWork, SliceCommit,
       DelegatedApproval, Notify, NotificationPersisted, IterationRaises, Crash, WebJob,
       WebClaim, WebCommit, WebLeave, CompleteDeferred, ResolveUnknown, Expire,
       ChangeSchedule, Revoke, Tick
  <2> QED
    BY <2>2, <2>3, <2>4, <2>5, <2>6
<1>2. IInv /\ [Next]_vars =>
        \A d \in Dues : occ[d].state \in TerminalOccurrence => occ'[d] = occ[d]
  BY <1>1
<1> QED
  BY <1>2, ScheduleInductive, PTL DEF Spec, TerminalFinal

\* "An unknown external effect is not replaced with a new Run" (system.md): service.create
\* starts a Run only for the reserved occurrence, and an occurrence whose Run waits for
\* reconciliation is still active, unless its authority is gone.
THEOREM ScheduleUnknownStays == Spec => UnknownEffectNotReplaced
<1>1. ASSUME IInv, [Next]_vars, NEW d \in Dues, run[d] = "none", run'[d] # "none"
      PROVE  AdmitCreate /\ d = sched.due
  <2>1. CASE AdmitCreate
    BY <1>1, <2>1 DEF AdmitCreate, IInv, TypeOK
  <2>2. CASE \E mode \in RunModes : SliceCommit(mode) \/ WebCommit(mode)
    BY <1>1, <2>2 DEF SliceCommit, WebCommit, NextModes, IInv, TypeOK
  <2>3. CASE DelegatedApproval \/ \E e \in Dues : CompleteDeferred(e) \/ ResolveUnknown(e)
    BY <1>1, <2>3 DEF DelegatedApproval, CompleteDeferred, ResolveUnknown, IInv, TypeOK
  <2>4. CASE run' = run
    BY <1>1, <2>4
  <2>5. \/ AdmitCreate \/ DelegatedApproval \/ run' = run
        \/ \E mode \in RunModes : SliceCommit(mode) \/ WebCommit(mode)
        \/ \E e \in Dues : CompleteDeferred(e) \/ ResolveUnknown(e)
    BY <1>1 DEF Next, Iteration, vars, TickStart, AdmitCheck, AdmitLeave, AdmitSettle, ReadDue,
       Reserve, ClaimWork, WorkCheck, SliceLeave, SliceCrash, Notify, NotificationPersisted,
       IterationRaises, Crash, WebJob, WebClaim, WebLeave, Expire, ChangeSchedule, Revoke, Tick
  <2> QED
    BY <2>1, <2>2, <2>3, <2>4, <2>5
<1>2. ASSUME IInv, AdmitCreate, NEW e \in Dues, run[e] = "unknown" PROVE Unavailable(e)
  <2>1. sched.due \in Dues /\ occ[sched.due].state = "reserved" /\ Active(occ[sched.due])
    BY <1>2 DEF IInv, Position, AdmitCreate, Active, TerminalOccurrence
  <2>2. e # sched.due /\ ~Active(occ[e])
    BY <1>2, <2>1 DEF IInv, Exclusive, RunsMatchOccurrences
  <2>3. occ[e].state = "blocked"
    BY <1>2, <2>2 DEF IInv, RunsMatchOccurrences, SucceededCompleted, Active, TerminalOccurrence
  <2> QED
    BY <1>2, <2>3 DEF IInv, Ended
<1>3. IInv /\ [Next]_vars =>
        [\A d \in Dues : run[d] = "none" /\ run'[d] # "none" =>
            \A e \in Dues : run[e] = "unknown" => Unavailable(e)]_vars
  BY <1>1, <1>2
<1> QED
  BY <1>3, ScheduleInductive, PTL DEF Spec, UnknownEffectNotReplaced
=============================================================================
