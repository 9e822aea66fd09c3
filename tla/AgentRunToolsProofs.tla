-------------------------- MODULE AgentRunToolsProofs --------------------------
(***************************************************************************)
(* Proofs about AgentRunTools, for every set of requests and every bound:  *)
(* what an effect is authorized by, what stays reserved for it, who owns   *)
(* it while its result is unknown, and that the Run implements the         *)
(* abstract ledger ToolEffects.                                            *)
(***************************************************************************)
EXTENDS AgentRunTools, SequenceTheorems, TLAPS

Approved(i) == RequestOf(i) \in NeedsApproval => records.approval[i] = "granted"

\* Every plan was paid for with a decision, and one being made has its own.
PlansPaid ==
    /\ Len(records.plan) + (IF lock.pc = "planning" THEN 1 ELSE 0) <= env.decisions
    /\ env.decisions <= MaxDecisions

\* A pending proposal has no decision, and an invocation decided on stays decided.
ApprovalsDecided ==
    /\ records.invocations \subseteq Plans
    /\ records.pending # 0 =>
          records.pending \in records.invocations /\ RequestOf(records.pending) \in NeedsApproval
    /\ \A i \in Ids : records.approval[i] # "none" =>
          i \in records.invocations /\ records.pending # i

\* One invocation holds an idempotency key.
OneClaim ==
    /\ records.claims \subseteq Plans
    /\ \A i, j \in records.claims : SameKey(i, j) => i = j

\* The session admits only what the Run claimed, recorded and had approved.
AdmittedClaimed ==
    \A i \in session.dispatched : i \in records.claims \cap records.invocations /\ Approved(i)

\* What the Run's last step says of the invocation it is about.
StepFits ==
    /\ run.last = "PLAN" /\ run.subject # 0 => run.subject \in Plans \ records.invocations
    /\ run.last = "APPROVE" => run.subject \in records.invocations \ session.dispatched
    /\ run.last = "EXECUTE" /\ run.state = "running" =>
          run.target \in records.claims \cap records.invocations /\ Approved(run.target)

\* The session holds one call at a time; what it settled is what happened.
OneReserved ==
    /\ session.pending # 0 =>
          session.pending \in session.dispatched /\ session.settled[session.pending] = "none"
    /\ session.started => session.pending # 0
    /\ session.pending # 0 /\ ~session.started => world.outcome[session.pending] = "none"
    /\ \A i \in session.dispatched : session.settled[i] = "none" => i = session.pending
    /\ \A i \in Ids : session.settled[i] # "none" => session.settled[i] = world.outcome[i]

\* Effects come from admitted calls, operations from their effects.
EffectsAdmitted ==
    /\ \A i \in Ids : Entered(i) <=> world.outcome[i] # "none"
    /\ \A n \in DOMAIN world.effects : world.effects[n] \in session.dispatched
    /\ \A i \in records.acks : world.outcome[i] # "none" /\ RequestOf(i) \in Deferring
    /\ records.completions \subseteq records.acks
    /\ \A i \in records.completions : world.outcome[i] \in Final

\* The Run's ledger holds the very results the session settled.
ReceiptsSettled ==
    \A n \in DOMAIN records.receipts :
        /\ records.receipts[n].call \in Plans
        /\ records.receipts[n].result \in Final =>
              session.settled[records.receipts[n].call] = records.receipts[n].result

\* While a call is executed under the lock, the Run's last step names it.
Executing == {"committed", "admitted", "started", "deferring", "returned", "recorded", "mark"}

LockFits ==
    /\ lock.pc = "planning" => run.state = "running" /\ run.last = "OBSERVE"
    /\ lock.pc = "claimed" =>
          /\ lock.at \in records.claims \ session.dispatched /\ Approved(lock.at)
          /\ run.state = "running" /\ run.last \in {"PLAN", "APPROVE"} /\ run.subject = lock.at
    /\ lock.pc \in Executing =>
          run.state = "running" /\ run.last = "EXECUTE" /\ run.target = lock.at
    /\ lock.pc \in {"admitted", "started", "deferring", "returned"} => session.pending = lock.at
    /\ lock.pc = "admitted" => ~session.started
    /\ lock.pc \in {"started", "deferring", "returned"} => session.started
    /\ lock.pc = "started" => world.outcome[lock.at] = "none"
    /\ lock.pc = "deferring" =>
          world.outcome[lock.at] # "none" /\ RequestOf(lock.at) \in Deferring
    /\ lock.pc = "returned" =>
          /\ world.outcome[lock.at] # "none"
          /\ lock.result \in Final => lock.result = world.outcome[lock.at]
    /\ lock.pc = "recorded" /\ lock.result \in Final =>
          session.settled[lock.at] = lock.result
    /\ lock.pc \in {"returned", "recorded"} =>
          lock.result # "none" /\ (lock.result = "deferred" => RequestOf(lock.at) \in Deferring)
    /\ lock.pc = "await" =>
          lock.at \in records.acks /\ (lock.goal = "complete" => world.outcome[lock.at] \in Final)
    /\ lock.pc \in {"settle", "project"} => lock.at \in records.completions
    /\ lock.pc \in {"project", "resolved"} => session.settled[lock.at] # "none"
    /\ lock.pc \in {"resolved", "revised"} => session.pending = 0

\* Without deferred operations the Run that holds a reserved call does nothing else.
CallOwned ==
    PlannedOperations = {} /\ session.pending # 0 =>
        /\ run.target = session.pending
        /\ \/ run.state \in {"awaiting_tool", "awaiting_reconciliation", "stopped"}
           \/ run.state = "running" /\ run.last = "EXECUTE"

IInv ==
    /\ TypeOK
    /\ PlansPaid
    /\ ApprovalsDecided
    /\ OneClaim
    /\ AdmittedClaimed
    /\ StepFits
    /\ OneReserved
    /\ EffectsAdmitted
    /\ ReceiptsSettled
    /\ LockFits
    /\ CallOwned

-----------------------------------------------------------------------------
(* The initial state, and what a step keeps by what it leaves alone. *)

LEMMA InitIInv == Init => IInv
<1> SUFFICES ASSUME Init PROVE IInv
  OBVIOUS
<1>1. TypeOK
  BY ToolConstants DEF Init, TypeOK, RunType, RecordsType, SessionType, LockType, WorldType,
     EnvType, Idle, Ids, States, Kinds, Final
<1>2. PlansPaid /\ ApprovalsDecided /\ OneClaim /\ AdmittedClaimed
  BY ToolConstants DEF Init, PlansPaid, ApprovalsDecided, OneClaim, AdmittedClaimed, Idle, Plans
<1>3. StepFits /\ OneReserved /\ EffectsAdmitted /\ ReceiptsSettled
  BY DEF Init, StepFits, OneReserved, EffectsAdmitted, ReceiptsSettled, Entered
<1>4. LockFits /\ CallOwned
  BY DEF Init, LockFits, CallOwned, Idle, Executing
<1> QED
  BY <1>1, <1>2, <1>3, <1>4 DEF IInv

\* A step that writes neither the Run's records nor what was dispatched.
LEMMA KeepsRecords ==
    ASSUME IInv, UNCHANGED records, session'.dispatched = session.dispatched
    PROVE  ApprovalsDecided' /\ OneClaim' /\ AdmittedClaimed'
<1> QED
  BY DEF IInv, ApprovalsDecided, OneClaim, AdmittedClaimed, Plans, SameKey, RequestOf, Approved

\* A step that writes no store but the Run's ledger of steps.
LEMMA KeepsStores ==
    ASSUME IInv, UNCHANGED <<records, session, world>>
    PROVE  /\ ApprovalsDecided' /\ OneClaim' /\ AdmittedClaimed'
           /\ OneReserved' /\ EffectsAdmitted' /\ ReceiptsSettled'
<1>1. OneReserved' /\ ReceiptsSettled'
  BY DEF IInv, OneReserved, ReceiptsSettled, Plans
<1>2. EffectsAdmitted'
  BY DEF IInv, EffectsAdmitted, Entered, RequestOf
<1> QED
  BY <1>1, <1>2, KeepsRecords

\* The Run that may leave its call alone.
Free == PlannedOperations = {} => session.pending = 0

\* A handler ends, or goes on to nothing that needs the call, with a step that is
\* neither a plan, a proposal nor an execution.
LEMMA RunMoves ==
    ASSUME IInv, UNCHANGED <<records, session, world>>,
           run' \in RunType, run'.last \notin {"PLAN", "APPROVE", "EXECUTE"},
           run'.target = run.target, Free \/ run'.state = "awaiting_reconciliation",
           lock' \in LockType, lock'.pc = "idle", env' \in EnvType,
           env'.decisions = env.decisions
    PROVE  IInv'
<1>1. TypeOK' /\ PlansPaid'
  BY DEF IInv, TypeOK, PlansPaid, RecordsType, EnvType
<1>2. StepFits' /\ LockFits'
  BY DEF StepFits, LockFits, Executing
<1>3. CallOwned'
  BY DEF IInv, CallOwned, Free, PlannedOperations, Plans, RequestOf
<1> QED
  BY <1>1, <1>2, <1>3, KeepsStores DEF IInv

\* Only the handler's place, or the environment, changes.
LEMMA LockMoves ==
    ASSUME IInv, UNCHANGED <<run, records, session, world>>,
           lock' \in LockType, lock'.pc = "planning" => lock.pc = "planning", LockFits',
           env' \in EnvType, env'.decisions = env.decisions
    PROVE  IInv'
<1>1. TypeOK' /\ PlansPaid'
  BY DEF IInv, TypeOK, PlansPaid, RecordsType, EnvType
<1>2. StepFits' /\ CallOwned'
  BY DEF IInv, StepFits, CallOwned, PlannedOperations, Plans, RequestOf, Approved
<1> QED
  BY <1>1, <1>2, KeepsStores DEF IInv

LEMMA StepTyped ==
    ASSUME TypeOK, NEW kind \in Kinds, NEW i \in 0 .. MaxDecisions, NEW s \in States
    PROVE  /\ Step(kind, i, s) \in RunType /\ Executed(i, s) \in RunType
           /\ [Step(kind, i, s) EXCEPT !.next = "plan"] \in RunType
           /\ [Step(kind, i, s) EXCEPT !.next = "assess"] \in RunType
<1> QED
  BY DEF TypeOK, RunType, Step, Executed, Kinds

LEMMA Named ==
    /\ "OBSERVE" \in Kinds /\ "PLAN" \in Kinds /\ "APPROVE" \in Kinds /\ "EXECUTE" \in Kinds
    /\ "VERIFY" \in Kinds /\ "EVALUATE" \in Kinds /\ "STOP" \in Kinds
    /\ "running" \in States /\ "awaiting_input" \in States /\ "awaiting_approval" \in States
    /\ "awaiting_tool" \in States /\ "awaiting_reconciliation" \in States
    /\ "blocked" \in States /\ "stopped" \in States
<1> QED
  BY DEF Kinds, States

LEMMA GotoTyped ==
    ASSUME TypeOK, NEW i \in 0 .. MaxDecisions, NEW pc, lock' = [lock EXCEPT !.pc = pc, !.at = i],
           pc \in {"planning", "claimed", "committed", "admitted", "started", "deferring",
                   "returned", "recorded", "mark", "settle", "project", "resolved", "revised"}
    PROVE  /\ lock' \in LockType /\ lock'.pc = pc /\ lock'.at = i
           /\ lock'.result = lock.result /\ lock'.goal = lock.goal
<1> QED
  BY DEF TypeOK, LockType

LEMMA NoCallTyped == 0 \in 0 .. MaxDecisions /\ Idle \in LockType /\ Idle.pc = "idle"
<1>1. 0 \in 0 .. MaxDecisions
  BY ToolConstants
<1> QED
  BY <1>1 DEF Idle, LockType

LEMMA PlansInIds == ASSUME IInv PROVE Plans \subseteq Ids /\ Ids \subseteq 0 .. MaxDecisions
<1> QED
  BY ToolConstants DEF IInv, TypeOK, PlansPaid, Plans, Ids, RecordsType, EnvType

-----------------------------------------------------------------------------
(* Steps that only append to the Run's ledger. *)

LEMMA Replans ==
    ASSUME IInv, PauseForSignal \/ AwaitKnowledge \/ PlanFails \/ Assess
                 \/ SubmitInput \/ SubmitRevision
    PROVE  IInv'
<1>1. UNCHANGED <<records, session, world>> /\ env' \in EnvType /\ env'.decisions = env.decisions
  BY DEF IInv, TypeOK, EnvType, PauseForSignal, AwaitKnowledge, PlanFails, Assess, SubmitInput,
     SubmitRevision, InputSubmitted
<1>2. lock' \in LockType /\ lock'.pc = "idle"
  BY ToolConstants DEF IInv, TypeOK, LockType, PauseForSignal, AwaitKnowledge, PlanFails, Assess, SubmitInput,
     SubmitRevision, InputSubmitted, Yield, Idle, AtRest, MayPlan, MayAssess, Dispatches
<1>3. run' \in RunType /\ run'.last \in {"OBSERVE", "EVALUATE"} /\ run'.target = run.target
  <2>1. \/ \E kind \in {"OBSERVE", "EVALUATE"}, state \in States : run' = Step(kind, 0, state)
        \/ run' = [Step("EVALUATE", 0, "running") EXCEPT !.next = "plan"]
    BY DEF PauseForSignal, AwaitKnowledge, PlanFails, Assess, SubmitInput, SubmitRevision,
       InputSubmitted, States
  <2>2. {"OBSERVE", "EVALUATE"} \subseteq Kinds
    BY DEF Kinds
  <2>3. ASSUME NEW kind \in {"OBSERVE", "EVALUATE"}, NEW state \in States, run' = Step(kind, 0, state)
        PROVE  run' \in RunType
    BY <2>2, <2>3, StepTyped, NoCallTyped DEF IInv
  <2>4. ASSUME run' = [Step("EVALUATE", 0, "running") EXCEPT !.next = "plan"]
        PROVE  run' \in RunType
    BY <2>4, StepTyped, NoCallTyped, Named DEF IInv
  <2> QED
    BY <2>1, <2>3, <2>4 DEF IInv, TypeOK, RunType, Step
<1>4. Free
  BY DEF Free, IInv, CallOwned, LockFits, PauseForSignal, AwaitKnowledge, PlanFails,
     Assess, SubmitInput, SubmitRevision, InputSubmitted, CanPause, MayPlan, MayAssess
<1> QED
  BY <1>1, <1>2, <1>3, <1>4, RunMoves

LEMMA ObservePreserves == ASSUME IInv, Observe PROVE IInv'
<1>1. Free
  BY DEF Free, IInv, CallOwned, Observe, MayPlan
<1>2. CASE env.decisions < MaxDecisions
  <2>1. /\ run' = Step("OBSERVE", 0, "running") /\ lock' = [lock EXCEPT !.pc = "planning", !.at = 0]
        /\ env' = [env EXCEPT !.fresh = TRUE, !.decisions = @ + 1]
        /\ UNCHANGED <<records, session, world>>
    BY <1>2 DEF Observe, Goto
  <2>2. run' \in RunType /\ run'.state = "running" /\ run'.last = "OBSERVE"
    <3>1. run' \in RunType
      BY <2>1, StepTyped, NoCallTyped, Named DEF IInv
    <3> QED
      BY <2>1, <3>1 DEF IInv, TypeOK, RunType, Step
  <2>3. lock' \in LockType /\ lock'.pc = "planning" /\ lock.pc = "idle"
    BY <2>1, GotoTyped, NoCallTyped DEF IInv, Observe, MayPlan, AtRest
  <2>4. env.decisions + 1 \in Nat
    BY DEF IInv, TypeOK, EnvType
  <2>5. env' \in EnvType /\ env'.decisions = env.decisions + 1
    BY <2>1, <2>4 DEF IInv, TypeOK, EnvType
  <2>6. TypeOK' /\ PlansPaid'
    BY <1>2, <2>1, <2>2, <2>3, <2>5, ToolConstants DEF IInv, TypeOK, PlansPaid, RecordsType, EnvType
  <2>7. StepFits' /\ LockFits'
    BY <2>2, <2>3 DEF StepFits, LockFits, Executing
  <2>8. CallOwned'
    BY <1>1, <2>1 DEF IInv, CallOwned, Free, PlannedOperations, Plans, RequestOf
  <2> QED
    BY <2>1, <2>6, <2>7, <2>8, KeepsStores DEF IInv
<1>3. CASE ~(env.decisions < MaxDecisions)
  <2>1. run' = Step("EVALUATE", 0, "blocked")
    BY <1>3 DEF Observe
  <2>2. run' \in RunType /\ run'.last = "EVALUATE" /\ run'.target = run.target
    <3>1. run' \in RunType
      BY <2>1, StepTyped, NoCallTyped, Named DEF IInv
    <3> QED
      BY <2>1, <3>1 DEF IInv, TypeOK, RunType, Step
  <2> QED
    BY <1>1, <1>3, <2>2, RunMoves DEF IInv, TypeOK, Observe, MayPlan, AtRest
<1> QED
  BY <1>2, <1>3

\* Reuse of a receipt, a refusal, a result that is evaluated or left to reconcile.
LEMMA Judges ==
    ASSUME IInv, NEW i \in Plans,
           Reuse(i) \/ RefuseStale(i) \/ MarkReconciliation(i) \/ Evaluate(i)
    PROVE  IInv'
<1>1. UNCHANGED <<records, session, world>> /\ env' \in EnvType /\ env'.decisions = env.decisions
  BY DEF IInv, TypeOK, Reuse, RefuseStale, MarkReconciliation, Evaluate
<1>2. lock' \in LockType /\ lock'.pc = "idle"
  BY ToolConstants DEF IInv, TypeOK, LockType, Reuse, RefuseStale, MarkReconciliation, Evaluate, Yield,
     Idle, AtRest, Planned, Dispatches
<1>3. i \in 0 .. MaxDecisions
  BY PlansInIds
<1>4. run' \in RunType /\ run'.last \in {"VERIFY", "EVALUATE"} /\ run'.target = run.target
  <2>1. CASE Reuse(i)
    <3>1. PICK n \in DOMAIN records.receipts : run' = Step("VERIFY", records.receipts[n].call, "running")
      BY <2>1 DEF Reuse
    <3>2. records.receipts[n].call \in Plans
      BY DEF IInv, ReceiptsSettled
    <3>3. records.receipts[n].call \in 0 .. MaxDecisions
      BY <3>2, PlansInIds
    <3>4. run' \in RunType
      BY <3>1, <3>3, StepTyped, Named DEF IInv
    <3> QED
      BY <3>1, <3>4 DEF IInv, TypeOK, RunType, Step
  <2>2. CASE RefuseStale(i) \/ MarkReconciliation(i) \/ Evaluate(i)
    BY <1>3, <2>2 DEF IInv, TypeOK, RunType, Kinds, States, Step, RefuseStale,
       MarkReconciliation, Evaluate
  <2> QED
    BY <2>1, <2>2
<1>5. Free \/ run'.state = "awaiting_reconciliation"
  BY DEF Free, IInv, TypeOK, RunType, CallOwned, Reuse, Planned, RefuseStale, MarkReconciliation, Evaluate, Step
<1> QED
  BY <1>1, <1>2, <1>4, <1>5, RunMoves

-----------------------------------------------------------------------------
(* Steps that only move the handler, or what arrives from outside. *)

LEMMA Arrivals ==
    ASSUME IInv, SignalArrives \/ KnowledgeChanges \/ Crash
                 \/ \E i \in Plans : ApprovalLapses(i) \/ AckRefused(i)
    PROVE  IInv'
<1>1. UNCHANGED <<run, records, session, world>>
  BY DEF SignalArrives, KnowledgeChanges, Crash, ApprovalLapses, AckRefused
<1>2. env' \in EnvType /\ env'.decisions = env.decisions
  <2>1. env.inputs + 1 \in Nat /\ env.faults + 1 \in Nat
    BY DEF IInv, TypeOK, EnvType
  <2>2. CASE SignalArrives
    BY <2>1, <2>2 DEF IInv, TypeOK, EnvType, SignalArrives
  <2>3. CASE KnowledgeChanges
    BY <2>1, <2>3 DEF IInv, TypeOK, EnvType, KnowledgeChanges, Fault
  <2>4. CASE Crash \/ \E i \in Plans : AckRefused(i)
    BY <2>1, <2>4 DEF IInv, TypeOK, EnvType, Crash, AckRefused, Fault
  <2>5. ASSUME NEW i \in Plans, ApprovalLapses(i) PROVE env' \in EnvType /\ env'.decisions = env.decisions
    <3>1. env.lapsed \cup {i} \in SUBSET Ids
      BY PlansInIds DEF IInv, TypeOK, EnvType
    <3> QED
      BY <2>1, <2>5, <3>1 DEF IInv, TypeOK, EnvType, ApprovalLapses, Fault
  <2> QED
    BY <2>2, <2>3, <2>4, <2>5
<1>3. CASE lock' = lock
  <2>1. LockFits'
    BY <1>1, <1>3 DEF IInv, LockFits, Executing, Approved, RequestOf
  <2> QED
    BY <1>1, <1>2, <1>3, <2>1, LockMoves DEF IInv, TypeOK
<1>4. CASE lock' = Idle
  BY <1>1, <1>2, <1>4, NoCallTyped, LockMoves DEF LockFits, Executing
<1>5. CASE \E i \in Plans : AckRefused(i)
  <2>1. /\ lock.pc = "deferring" /\ lock' \in LockType /\ lock'.pc = "returned"
        /\ lock'.result = "raised" /\ lock'.at = lock.at
    BY <1>5 DEF IInv, TypeOK, LockType, AckRefused, At
  <2>2. LockFits'
    BY <1>1, <2>1 DEF IInv, LockFits, Executing, RequestOf, Final
  <2> QED
    BY <1>1, <1>2, <2>1, <2>2, LockMoves
<1> QED
  BY <1>3, <1>4, <1>5 DEF SignalArrives, KnowledgeChanges, Crash, ApprovalLapses, Yield

LEMMA Awaits ==
    ASSUME IInv, NEW i \in Plans, ResumeDeferred(i) \/ CompleteDeferred(i) \/ MarkUncertain(i)
    PROVE  IInv'
<1>1. PICK goal \in {"drive", "complete", "uncertain"} :
         /\ BeginAwait(i, goal) /\ (goal = "complete" => world.outcome[i] \in Final)
  BY DEF ResumeDeferred, CompleteDeferred, MarkUncertain
<1>2. UNCHANGED <<run, records, session, world>> /\ i \in records.acks
  BY <1>1 DEF BeginAwait
<1>3. env' \in EnvType /\ env'.decisions = env.decisions
  <2>1. env.faults + 1 \in Nat
    BY DEF IInv, TypeOK, EnvType
  <2> QED
    BY <2>1 DEF IInv, TypeOK, EnvType, ResumeDeferred, CompleteDeferred, MarkUncertain
<1>4. lock' \in LockType /\ lock'.pc = "await" /\ lock'.at = i /\ lock'.goal = goal
  BY <1>1, PlansInIds DEF BeginAwait, Idle, LockType
<1>5. LockFits'
  BY <1>1, <1>2, <1>4 DEF LockFits, Executing
<1> QED
  BY <1>2, <1>3, <1>4, <1>5, LockMoves

LEMMA ResumeCompletionPreserves == ASSUME IInv, NEW i \in Plans, ResumeCompletion(i) PROVE IInv'
<1>1. PICK pc \in {"settle", "project"} :
         /\ lock' = [lock EXCEPT !.pc = pc, !.at = i]
         /\ pc = "project" => session.settled[i] # "none"
  BY DEF ResumeCompletion, Goto
<1>2. UNCHANGED <<run, records, session, world, env>> /\ i \in records.completions
  BY DEF ResumeCompletion
<1>3. lock' \in LockType /\ lock'.pc = pc /\ lock'.at = i
  BY <1>1, PlansInIds DEF IInv, TypeOK, LockType
<1>4. LockFits'
  BY <1>1, <1>2, <1>3 DEF LockFits, Executing
<1> QED
  BY <1>2, <1>3, <1>4, LockMoves DEF IInv, TypeOK

-----------------------------------------------------------------------------
(* From the plan to the claim and the EXECUTE commit. *)

\* What the planner's decision writes: the plan grows, and its request is new.
LEMMA PlanToolPreserves ==
    ASSUME IInv, NEW r \in Requests, NEW keeps \in BOOLEAN, PlanTool(r, keeps)
    PROVE  IInv'
<1> DEFINE n == Len(records.plan) + 1
<1>1. /\ lock.pc = "planning" /\ lock' = Idle /\ run' = Step("PLAN", n, "running")
      /\ records' = [records EXCEPT !.plan = Append(@, r), !.pending = IF keeps THEN @ ELSE 0]
      /\ UNCHANGED <<session, world, env>>
  BY DEF PlanTool, Yield
<1>2. /\ records.plan \in Seq(Requests) /\ Len(records.plan) \in Nat /\ n \in Ids /\ n \in 0 .. MaxDecisions
      /\ n <= env.decisions /\ env.decisions \in Nat
  BY <1>1, ToolConstants DEF IInv, TypeOK, RecordsType, EnvType, PlansPaid, Ids
<1>3. /\ records'.plan = Append(records.plan, r) /\ records'.pending \in {0, records.pending}
      /\ records'.invocations = records.invocations /\ records'.claims = records.claims
      /\ records'.acks = records.acks /\ records'.completions = records.completions
      /\ records'.approval = records.approval /\ records'.receipts = records.receipts
  BY <1>1 DEF IInv, TypeOK, RecordsType
<1>4. /\ records'.plan \in Seq(Requests) /\ Len(records'.plan) = n
      /\ Plans = 1 .. Len(records.plan) /\ Plans' = 1 .. n
      /\ \A i \in Plans : i \in Plans' /\ i # n /\ RequestOf(i)' = RequestOf(i)
  BY <1>2, <1>3 DEF Plans, RequestOf
<1>5. records' \in RecordsType
  <2>1. 0 \in 0 .. MaxDecisions /\ Append(records.plan, r) \in Seq(Requests)
    BY <1>3, <1>4, NoCallTyped
  <2> QED
    BY <1>1, <2>1 DEF IInv, TypeOK, RecordsType
<1>6. run' \in RunType
  BY <1>1, <1>2, StepTyped, Named DEF IInv
<1>7. run'.last = "PLAN" /\ run'.subject = n /\ run'.target = run.target /\ run'.state = "running"
  BY <1>1 DEF IInv, TypeOK, RunType, Step
<1> HIDE DEF n
<1>8. TypeOK' /\ PlansPaid'
  BY <1>1, <1>2, <1>4, <1>5, <1>6, NoCallTyped DEF IInv, TypeOK, PlansPaid
<1>9. ApprovalsDecided' /\ OneClaim' /\ AdmittedClaimed'
  BY <1>1, <1>3, <1>4 DEF IInv, ApprovalsDecided, OneClaim, AdmittedClaimed, SameKey, Approved
<1>10. StepFits' /\ LockFits'
  BY <1>1, <1>3, <1>4, <1>7, NoCallTyped DEF IInv, ApprovalsDecided, StepFits, LockFits, Executing
<1>11. OneReserved' /\ EffectsAdmitted' /\ ReceiptsSettled'
  <2>1. OneReserved' /\ ReceiptsSettled'
    BY <1>1, <1>3, <1>4 DEF IInv, OneReserved, ReceiptsSettled
  <2>2. \A i \in records.acks : i \in Plans
    BY <1>4 DEF IInv, EffectsAdmitted, Entered, AdmittedClaimed, OneClaim, TypeOK, RecordsType, WorldType
  <2> QED
    BY <1>1, <1>3, <1>4, <2>1, <2>2 DEF IInv, EffectsAdmitted, Entered
<1>12. CallOwned'
  <2>1. PlannedOperations' = {} => PlannedOperations = {}
    BY <1>4 DEF PlannedOperations
  <2> QED
    BY <1>1, <2>1 DEF IInv, CallOwned, LockFits
<1> QED
  BY <1>8, <1>9, <1>10, <1>11, <1>12 DEF IInv

\* A step that rewrites fields of the records no effect is read from.
LEMMA KeepsEffects ==
    ASSUME IInv, UNCHANGED <<session, world>>,
           records'.plan = records.plan, records'.acks = records.acks,
           records'.completions = records.completions, records'.receipts = records.receipts
    PROVE  OneReserved' /\ EffectsAdmitted' /\ ReceiptsSettled'
<1> QED
  BY DEF IInv, OneReserved, EffectsAdmitted, ReceiptsSettled, Entered, RequestOf, Plans

\* The planner's other answers, and the humans that stop or steer the Run.
LEMMA Answers ==
    ASSUME IInv, (\E keeps \in BOOLEAN : PlanOther(keeps)) \/ Stop
                 \/ \E action \in {"pause", "revise"} : Continue(action)
    PROVE  IInv'
<1>1. UNCHANGED <<session, world>> /\ env' \in EnvType /\ env'.decisions = env.decisions
  <2>1. env.inputs + 1 \in Nat
    BY DEF IInv, TypeOK, EnvType
  <2> QED
    BY <2>1 DEF IInv, TypeOK, EnvType, PlanOther, Stop, Continue
<1>2. records' \in RecordsType /\ records'.pending \in {0, records.pending}
  <2>1. ASSUME NEW keeps \in BOOLEAN, PlanOther(keeps)
        PROVE  records' \in RecordsType /\ records'.pending \in {0, records.pending}
    BY <2>1, NoCallTyped DEF IInv, TypeOK, RecordsType, PlanOther
  <2>2. ASSUME Stop PROVE records' \in RecordsType /\ records'.pending \in {0, records.pending}
    BY <2>2, NoCallTyped DEF IInv, TypeOK, RecordsType, Stop
  <2>3. ASSUME NEW action \in {"pause", "revise"}, Continue(action)
        PROVE  records' \in RecordsType /\ records'.pending \in {0, records.pending}
    <3>1. Steered(action) \in [Ids -> {"none", "pause", "revise"}]
      BY DEF IInv, TypeOK, RecordsType, Steered
    <3> QED
      BY <2>3, <3>1, NoCallTyped DEF IInv, TypeOK, RecordsType, Continue
  <2> QED
    BY <2>1, <2>2, <2>3
<1>3. /\ records'.plan = records.plan /\ records'.invocations = records.invocations
      /\ records'.claims = records.claims /\ records'.acks = records.acks
      /\ records'.completions = records.completions /\ records'.approval = records.approval
      /\ records'.receipts = records.receipts
  BY DEF IInv, TypeOK, RecordsType, PlanOther, Stop, Continue
<1>4. /\ run' \in RunType /\ run'.target = run.target
      /\ run'.last \in {"OBSERVE", "PLAN", "STOP"} /\ run'.subject = 0
  <2>1. \/ run' = [Step("PLAN", 0, "running") EXCEPT !.next = "assess"]
        \/ run' = Step("PLAN", 0, "awaiting_input") \/ run' = Step("PLAN", 0, "awaiting_approval")
        \/ run' = Step("STOP", 0, "stopped") \/ run' = Step("OBSERVE", 0, "awaiting_input")
        \/ run' = Step("OBSERVE", 0, "awaiting_tool")
    BY DEF PlanOther, Stop, Continue
  <2>2. /\ [Step("PLAN", 0, "running") EXCEPT !.next = "assess"] \in RunType
        /\ Step("PLAN", 0, "awaiting_input") \in RunType
        /\ Step("PLAN", 0, "awaiting_approval") \in RunType
        /\ Step("STOP", 0, "stopped") \in RunType
        /\ Step("OBSERVE", 0, "awaiting_input") \in RunType
        /\ Step("OBSERVE", 0, "awaiting_tool") \in RunType
    BY StepTyped, NoCallTyped, Named DEF IInv
  <2> QED
    BY <2>1, <2>2 DEF IInv, TypeOK, RunType, Step
<1>5. Free \/ run'.state \in {"awaiting_tool", "stopped"}
  BY DEF IInv, TypeOK, RunType, Free, CallOwned, LockFits, PlanOther, Stop, Continue, AtSafeBoundary, Step
<1>6. /\ lock' \in LockType /\ lock'.pc \in {"idle", "revised"}
      /\ lock'.pc = "revised" => session.pending = 0
  <2>1. ASSUME NEW keeps \in BOOLEAN, PlanOther(keeps)
        PROVE  lock' \in LockType /\ lock'.pc = "idle"
    BY <2>1, NoCallTyped DEF PlanOther, Yield
  <2>2. ASSUME Stop
        PROVE  lock' \in LockType /\ lock'.pc = "idle"
    BY <2>2 DEF IInv, TypeOK, Stop, AtRest
  <2>3. ASSUME NEW action \in {"pause", "revise"}, Continue(action)
        PROVE  /\ lock' \in LockType /\ lock'.pc \in {"idle", "revised"}
               /\ lock'.pc = "revised" => session.pending = 0
    <3>1. lock.pc = "idle" /\ lock \in LockType
      BY <2>3 DEF IInv, TypeOK, Continue, AtRest
    <3>2. CASE UNCHANGED lock
      BY <3>1, <3>2
    <3>3. CASE run.state # "awaiting_tool" /\ Goto("revised", 0)
      <4>1. lock' = [lock EXCEPT !.pc = "revised", !.at = 0]
        BY <3>3 DEF Goto
      <4>2. lock' \in LockType /\ lock'.pc = "revised"
        BY <4>1, NoCallTyped, GotoTyped DEF IInv
      <4> QED
        BY <4>2, <2>3, <3>3 DEF Continue, AtSafeBoundary
    <3> QED
      BY <2>3, <3>2, <3>3 DEF Continue
  <2> QED
    BY <2>1, <2>2, <2>3
<1>7. TypeOK' /\ PlansPaid'
  BY <1>1, <1>2, <1>3, <1>4, <1>6 DEF IInv, TypeOK, PlansPaid, RecordsType, EnvType
<1>8. ApprovalsDecided' /\ OneClaim' /\ AdmittedClaimed'
  BY <1>1, <1>2, <1>3 DEF IInv, ApprovalsDecided, OneClaim, AdmittedClaimed, SameKey, RequestOf, Plans, Approved, Ids
<1>9. StepFits' /\ LockFits' /\ CallOwned'
  BY <1>1, <1>3, <1>4, <1>5, <1>6 DEF IInv, StepFits, LockFits, Executing, CallOwned, Free,
     PlannedOperations, Plans, RequestOf
<1> QED
  BY <1>1, <1>3, <1>7, <1>8, <1>9, KeepsEffects DEF IInv

LEMMA DecideApprovalPreserves ==
    ASSUME IInv, NEW granted \in BOOLEAN, DecideApproval(granted)
    PROVE  IInv'
<1> DEFINE i == records.pending
           answer == IF granted THEN "granted" ELSE "rejected"
<1>1. /\ UNCHANGED <<session, lock, world, env>> /\ lock.pc = "idle" /\ i # 0
      /\ run.state = "awaiting_approval"
      /\ run' = Step("APPROVE", i, IF granted THEN "running" ELSE "stopped")
      /\ records' = [records EXCEPT !.pending = 0, !.approval[i] = answer]
  BY DEF DecideApproval, AtRest
<1>2. i \in Ids /\ i \in 0 .. MaxDecisions /\ i \in records.invocations /\ RequestOf(i) \in NeedsApproval
  BY <1>1, PlansInIds DEF IInv, ApprovalsDecided, TypeOK, RecordsType
<1>3. i \notin session.dispatched
  BY <1>2 DEF IInv, ApprovalsDecided, AdmittedClaimed, Approved
<1>4. records' \in RecordsType
  <2>1. [records.approval EXCEPT ![i] = answer] \in [Ids -> {"none", "granted", "rejected"}]
    BY <1>2 DEF IInv, TypeOK, RecordsType
  <2>2. records' = [records EXCEPT !.pending = 0, !.approval = [records.approval EXCEPT ![i] = answer]]
    BY <1>1
  <2> QED
    BY <2>1, <2>2, NoCallTyped DEF IInv, TypeOK, RecordsType
<1>5. /\ records'.plan = records.plan /\ records'.invocations = records.invocations
      /\ records'.claims = records.claims /\ records'.acks = records.acks
      /\ records'.completions = records.completions /\ records'.receipts = records.receipts
      /\ records'.pending = 0 /\ \A j \in Ids \ {i} : records'.approval[j] = records.approval[j]
  BY <1>1 DEF IInv, TypeOK, RecordsType
<1>6. run' \in RunType /\ run'.last = "APPROVE" /\ run'.subject = i
  <2>1. run' \in RunType
    BY <1>1, <1>2, StepTyped, Named DEF IInv
  <2> QED
    BY <1>1, <2>1 DEF IInv, TypeOK, RunType, Step
<1> HIDE DEF i, answer
<1>7. TypeOK' /\ PlansPaid'
  BY <1>1, <1>4, <1>5, <1>6 DEF IInv, TypeOK, PlansPaid
<1>8. ApprovalsDecided' /\ OneClaim'
  BY <1>2, <1>5 DEF IInv, ApprovalsDecided, OneClaim, SameKey, RequestOf, Plans, Ids
<1>9. AdmittedClaimed'
  BY <1>1, <1>3, <1>5 DEF IInv, AdmittedClaimed, RequestOf, Approved, TypeOK, SessionType
<1>10. StepFits' /\ LockFits' /\ CallOwned'
  BY <1>1, <1>2, <1>3, <1>5, <1>6 DEF IInv, StepFits, LockFits, Executing, CallOwned,
     PlannedOperations, Plans, RequestOf
<1> QED
  BY <1>1, <1>5, <1>7, <1>8, <1>9, <1>10, KeepsEffects DEF IInv

LEMMA ProposePreserves == ASSUME IInv, NEW i \in Plans, Propose(i) PROVE IInv'
<1>1. /\ UNCHANGED <<session, lock, world, env>> /\ lock.pc = "idle"
      /\ run.state = "running" /\ run.last = "PLAN" /\ run.subject = i
      /\ RequestOf(i) \in NeedsApproval /\ run' = Step("APPROVE", i, "awaiting_approval")
      /\ records' = [records EXCEPT !.invocations = @ \cup {i}, !.pending = i]
  BY DEF Propose, Planned, AtRest
<1>2. i \in Ids /\ i \in 0 .. MaxDecisions /\ i # 0
  BY PlansInIds DEF Ids
<1>3. i \notin records.invocations /\ i \notin session.dispatched /\ records.approval[i] = "none"
  BY <1>1, <1>2 DEF IInv, StepFits, AdmittedClaimed, ApprovalsDecided
<1>4. records' \in RecordsType
  <2>1. records.invocations \cup {i} \in SUBSET Ids
    BY <1>2 DEF IInv, TypeOK, RecordsType
  <2> QED
    BY <1>1, <1>2, <2>1 DEF IInv, TypeOK, RecordsType
<1>5. /\ records'.plan = records.plan /\ records'.invocations = records.invocations \cup {i}
      /\ records'.claims = records.claims /\ records'.acks = records.acks
      /\ records'.completions = records.completions /\ records'.receipts = records.receipts
      /\ records'.pending = i /\ records'.approval = records.approval
  BY <1>1 DEF IInv, TypeOK, RecordsType
<1>6. run' \in RunType /\ run'.last = "APPROVE" /\ run'.subject = i
  <2>1. run' \in RunType
    BY <1>1, <1>2, StepTyped, Named DEF IInv
  <2> QED
    BY <1>1, <2>1 DEF IInv, TypeOK, RunType, Step
<1>7. TypeOK' /\ PlansPaid'
  BY <1>1, <1>4, <1>5, <1>6 DEF IInv, TypeOK, PlansPaid
<1>8. ApprovalsDecided' /\ OneClaim' /\ AdmittedClaimed'
  BY <1>1, <1>3, <1>5 DEF IInv, ApprovalsDecided, OneClaim, SameKey, RequestOf, Plans, AdmittedClaimed, Approved
<1>9. StepFits' /\ LockFits' /\ CallOwned'
  BY <1>1, <1>3, <1>5, <1>6 DEF IInv, StepFits, LockFits, Executing, CallOwned,
     PlannedOperations, Plans, RequestOf
<1> QED
  BY <1>1, <1>5, <1>7, <1>8, <1>9, KeepsEffects DEF IInv

\* What lets an invocation be dispatched also approves it; one that is not the
\* Run's execution already was never admitted.
LEMMA DispatchApproved ==
    ASSUME IInv, NEW i \in Plans, Dispatches(i)
    PROVE  /\ lock.pc = "idle" /\ run.state = "running" /\ Approved(i)
           /\ \/ run.last \in {"PLAN", "APPROVE"} /\ run.subject = i /\ i \notin session.dispatched
              \/ /\ run.last = "EXECUTE" /\ run.target = i
                 /\ i \in records.claims \cap records.invocations
<1> QED
  BY PlansInIds DEF IInv, Dispatches, AtRest, ApprovalValid, Approved, StepFits, AdmittedClaimed, Ids

LEMMA ClaimPreserves == ASSUME IInv, NEW i \in Plans, Claim(i) PROVE IInv'
<1>1. Dispatches(i) /\ UNCHANGED <<session, world, env>>
  BY DEF Claim
<1>2. i \in Ids /\ i \in 0 .. MaxDecisions
  BY PlansInIds
<1>3. CASE \E j \in records.claims : j # i /\ SameKey(i, j)
  <2>1. /\ UNCHANGED <<records, lock>> /\ lock.pc = "idle"
        /\ run' = Executed(i, "blocked") \/ run' = Step("EXECUTE", i, "blocked")
    BY <1>1, <1>3, DispatchApproved DEF Claim
  <2>2. run' \in RunType
    BY <1>2, <2>1, StepTyped, Named DEF IInv
  <2>3. run'.last = "EXECUTE" /\ run'.state = "blocked"
    BY <2>1, <2>2 DEF IInv, TypeOK, RunType, Step, Executed
  <2>4. Free
    <3>1. i \notin records.claims
      BY <1>2, <1>3 DEF IInv, OneClaim
    <3> QED
      BY <1>1, <3>1, DispatchApproved DEF IInv, CallOwned, Free
  <2>5. TypeOK' /\ PlansPaid'
    BY <1>1, <2>1, <2>2 DEF IInv, TypeOK, PlansPaid
  <2>6. StepFits' /\ LockFits' /\ CallOwned'
    BY <1>1, <2>1, <2>3, <2>4 DEF IInv, StepFits, LockFits, Executing, CallOwned, Free,
       PlannedOperations, Plans, RequestOf
  <2> QED
    BY <1>1, <2>1, <2>5, <2>6, KeepsStores DEF IInv
<1>4. CASE ~\E j \in records.claims : j # i /\ SameKey(i, j)
  <2>1. PICK pc \in {"committed", "claimed"} :
           /\ lock' = [lock EXCEPT !.pc = pc, !.at = i] /\ UNCHANGED run
           /\ records' = [records EXCEPT !.claims = @ \cup {i}]
           /\ pc = "committed" <=> run.last = "EXECUTE"
    BY <1>4 DEF Claim, Goto
  <2>2. lock' \in LockType /\ lock'.pc = pc /\ lock'.at = i
    BY <1>2, <2>1, GotoTyped DEF IInv
  <2>3. records' \in RecordsType
    <3>1. records.claims \cup {i} \in SUBSET Ids
      BY <1>2 DEF IInv, TypeOK, RecordsType
    <3> QED
      BY <2>1, <3>1 DEF IInv, TypeOK, RecordsType
  <2>4. /\ records'.plan = records.plan /\ records'.invocations = records.invocations
        /\ records'.claims = records.claims \cup {i} /\ records'.acks = records.acks
        /\ records'.completions = records.completions /\ records'.receipts = records.receipts
        /\ records'.pending = records.pending /\ records'.approval = records.approval
    BY <2>1 DEF IInv, TypeOK, RecordsType
  <2>5. TypeOK' /\ PlansPaid'
    BY <1>1, <2>1, <2>2, <2>3, <2>4, DispatchApproved DEF IInv, TypeOK, PlansPaid
  <2>6. ApprovalsDecided' /\ AdmittedClaimed'
    BY <1>1, <2>4 DEF IInv, ApprovalsDecided, RequestOf, Plans, AdmittedClaimed, Approved
  <2>7. OneClaim'
    BY <1>4, <2>4 DEF IInv, OneClaim, SameKey, RequestOf, Plans
  <2>8. StepFits' /\ LockFits' /\ CallOwned'
    BY <1>1, <2>1, <2>2, <2>4, DispatchApproved DEF IInv, StepFits, LockFits, Executing, CallOwned,
       PlannedOperations, Plans, RequestOf, Approved
  <2> QED
    BY <1>1, <2>4, <2>5, <2>6, <2>7, <2>8, KeepsEffects DEF IInv
<1> QED
  BY <1>3, <1>4

LEMMA CommitExecutePreserves == ASSUME IInv, NEW i \in Plans, CommitExecute(i) PROVE IInv'
<1>1. /\ lock.pc = "claimed" /\ lock.at = i /\ UNCHANGED <<session, world, env>>
      /\ run' = Executed(i, "running") /\ lock' = [lock EXCEPT !.pc = "committed", !.at = i]
      /\ records' = [records EXCEPT !.invocations = @ \cup {i}]
  BY DEF CommitExecute, At, Goto
<1>2. i \in Ids /\ i \in 0 .. MaxDecisions
  BY PlansInIds
<1>3. /\ i \in records.claims /\ Approved(i) /\ i \notin session.dispatched
      /\ run.state = "running" /\ run.last \in {"PLAN", "APPROVE"}
  BY <1>1 DEF IInv, LockFits
<1>4. lock' \in LockType /\ lock'.pc = "committed" /\ lock'.at = i
  BY <1>1, <1>2, GotoTyped DEF IInv
<1>5. records' \in RecordsType
  <2>1. records.invocations \cup {i} \in SUBSET Ids
    BY <1>2 DEF IInv, TypeOK, RecordsType
  <2> QED
    BY <1>1, <2>1 DEF IInv, TypeOK, RecordsType
<1>6. /\ records'.plan = records.plan /\ records'.invocations = records.invocations \cup {i}
      /\ records'.claims = records.claims /\ records'.acks = records.acks
      /\ records'.completions = records.completions /\ records'.receipts = records.receipts
      /\ records'.pending = records.pending /\ records'.approval = records.approval
  BY <1>1 DEF IInv, TypeOK, RecordsType
<1>7. run' \in RunType
  BY <1>1, <1>2, StepTyped, Named DEF IInv
<1>8. run'.last = "EXECUTE" /\ run'.state = "running" /\ run'.target = i
  BY <1>1, <1>7 DEF IInv, TypeOK, RunType, Step, Executed
<1>9. TypeOK' /\ PlansPaid'
  BY <1>1, <1>4, <1>5, <1>6, <1>7 DEF IInv, TypeOK, PlansPaid
<1>10. ApprovalsDecided' /\ OneClaim' /\ AdmittedClaimed'
  BY <1>1, <1>6 DEF IInv, ApprovalsDecided, OneClaim, SameKey, RequestOf, Plans, AdmittedClaimed, Approved
<1>11. StepFits' /\ LockFits' /\ CallOwned'
  BY <1>1, <1>3, <1>4, <1>6, <1>8 DEF IInv, StepFits, LockFits, Executing, CallOwned,
     PlannedOperations, Plans, RequestOf, Approved
<1> QED
  BY <1>1, <1>6, <1>9, <1>10, <1>11, KeepsEffects DEF IInv

-----------------------------------------------------------------------------
(* The session, the adapter and the receipts. *)

\* A step of the session that neither admits nor settles a call.
LEMMA KeepsCall ==
    ASSUME IInv, UNCHANGED <<records, world>>,
           session'.pending = session.pending, session'.dispatched = session.dispatched,
           session'.settled = session.settled, session.started => session'.started,
           session'.started => session.started \/ session.pending # 0
    PROVE  /\ ApprovalsDecided' /\ OneClaim' /\ AdmittedClaimed'
           /\ OneReserved' /\ EffectsAdmitted' /\ ReceiptsSettled'
<1>1. OneReserved'
  BY DEF IInv, OneReserved
<1>2. EffectsAdmitted' /\ ReceiptsSettled'
  BY DEF IInv, EffectsAdmitted, ReceiptsSettled, Entered, RequestOf, Plans
<1> QED
  BY <1>1, <1>2, KeepsRecords

LEMMA StepFitsKept ==
    ASSUME IInv, UNCHANGED <<run, records>>, session'.dispatched = session.dispatched
    PROVE  StepFits'
<1> QED
  BY DEF IInv, StepFits, Approved, RequestOf, Plans

LEMMA CallOwnedKept ==
    ASSUME IInv, UNCHANGED run, records'.plan = records.plan,
           session'.pending \in {0, session.pending}
    PROVE  CallOwned'
<1> QED
  BY DEF IInv, CallOwned, PlannedOperations, Plans, RequestOf

LEMMA AdmitPreserves == ASSUME IInv, NEW i \in Plans, Admit(i) PROVE IInv'
<1>1. lock.pc = "committed" /\ lock.at = i /\ UNCHANGED <<run, records, world, env>>
  BY DEF Admit, At
<1>2. i \in Ids /\ i \in 0 .. MaxDecisions /\ i # 0
  BY PlansInIds DEF Ids
<1>3. /\ run.state = "running" /\ run.last = "EXECUTE" /\ run.target = i
      /\ i \in records.claims \cap records.invocations /\ Approved(i)
  BY <1>1 DEF IInv, LockFits, StepFits, Executing
<1>4. CASE KeyDispatched(i)
  <2>1. PICK pc \in {"mark", "admitted"} :
           /\ lock' = [lock EXCEPT !.pc = pc, !.at = i] /\ UNCHANGED session
           /\ pc = "admitted" => session.pending = i /\ ~session.started
    BY <1>4 DEF Admit, Goto
  <2>2. lock' \in LockType /\ lock'.pc = pc /\ lock'.at = i
    BY <1>2, <2>1, GotoTyped DEF IInv
  <2>3. LockFits'
    BY <1>1, <1>3, <2>1, <2>2 DEF LockFits, Executing
  <2> QED
    BY <1>1, <2>1, <2>2, <2>3, LockMoves DEF IInv, TypeOK
<1>5. CASE lock' = Idle /\ session' \in {session, [session EXCEPT !.state = "stopped"]}
  <2>1. /\ session' \in SessionType /\ session'.pending = session.pending
        /\ session'.dispatched = session.dispatched /\ session'.settled = session.settled
        /\ session'.started = session.started
    BY <1>5 DEF IInv, TypeOK, SessionType
  <2>2. TypeOK' /\ PlansPaid' /\ LockFits'
    BY <1>1, <1>5, <2>1, NoCallTyped DEF IInv, TypeOK, PlansPaid, RecordsType, EnvType, LockFits, Executing
  <2> QED
    BY <1>1, <2>1, <2>2, KeepsCall, StepFitsKept, CallOwnedKept DEF IInv
<1>6. CASE /\ ~KeyDispatched(i) /\ session.pending = 0 /\ lock' = [lock EXCEPT !.pc = "admitted", !.at = i]
           /\ session' = [session EXCEPT !.state = "executing", !.pending = i,
                                         !.dispatched = @ \cup {i}]
  <2>1. lock' \in LockType /\ lock'.pc = "admitted" /\ lock'.at = i
    BY <1>2, <1>6, GotoTyped DEF IInv
  <2>2. session' \in SessionType
    <3>1. session.dispatched \cup {i} \in SUBSET Ids
      BY <1>2 DEF IInv, TypeOK, SessionType
    <3> QED
      BY <1>2, <1>6, <3>1 DEF IInv, TypeOK, SessionType
  <2>3. /\ session'.pending = i /\ session'.dispatched = session.dispatched \cup {i}
        /\ session'.settled = session.settled /\ session'.started = session.started
    BY <1>6 DEF IInv, TypeOK, SessionType
  <2>4. ~session.started
    BY <1>6 DEF IInv, OneReserved
  <2>5. i \notin session.dispatched
    BY <1>6 DEF KeyDispatched, SameKey
  <2>6. world.outcome[i] = "none" /\ session.settled[i] = "none"
    BY <1>2, <2>5 DEF IInv, EffectsAdmitted, OneReserved, Entered
  <2>7. TypeOK' /\ PlansPaid'
    BY <1>1, <2>1, <2>2 DEF IInv, TypeOK, PlansPaid, RecordsType, EnvType
  <2>8. ApprovalsDecided' /\ OneClaim'
    BY <1>1 DEF IInv, ApprovalsDecided, OneClaim, Plans, SameKey, RequestOf
  <2>9. AdmittedClaimed' /\ StepFits'
    BY <1>1, <1>3, <2>3 DEF IInv, AdmittedClaimed, StepFits, Plans, RequestOf, Approved
  <2>10. OneReserved'
    <3>1. \A j \in session.dispatched : j # 0 /\ j \in Ids
      BY DEF IInv, TypeOK, SessionType, Ids
    <3> QED
      BY <1>1, <1>2, <1>6, <2>3, <2>4, <2>6, <3>1 DEF IInv, OneReserved
  <2>11. EffectsAdmitted' /\ ReceiptsSettled'
    BY <1>1, <2>3 DEF IInv, EffectsAdmitted, ReceiptsSettled, Entered, RequestOf, Plans
  <2>12. LockFits' /\ CallOwned'
    BY <1>1, <1>3, <2>1, <2>3, <2>4 DEF IInv, LockFits, Executing, CallOwned
  <2> QED
    BY <2>7, <2>8, <2>9, <2>10, <2>11, <2>12 DEF IInv
<1> QED
  BY <1>4, <1>5, <1>6 DEF Admit, Yield, Goto

LEMMA StartPreserves == ASSUME IInv, NEW i \in Plans, Start(i) PROVE IInv'
<1>1. /\ lock.pc = "admitted" /\ lock.at = i /\ UNCHANGED <<run, records, world, env>>
      /\ session' = [session EXCEPT !.started = TRUE]
      /\ lock' = [lock EXCEPT !.pc = "started", !.at = i]
  BY DEF Start, At, Goto
<1>2. i \in 0 .. MaxDecisions /\ i # 0
  BY PlansInIds DEF Ids
<1>3. session.pending = i /\ ~session.started /\ world.outcome[i] = "none"
  BY <1>1, <1>2 DEF IInv, LockFits, OneReserved
<1>4. lock' \in LockType /\ lock'.pc = "started" /\ lock'.at = i
  BY <1>1, <1>2, GotoTyped DEF IInv
<1>5. /\ session' \in SessionType /\ session'.pending = session.pending
      /\ session'.dispatched = session.dispatched /\ session'.settled = session.settled
      /\ session'.started = TRUE
  BY <1>1 DEF IInv, TypeOK, SessionType
<1>6. TypeOK' /\ PlansPaid'
  BY <1>1, <1>4, <1>5 DEF IInv, TypeOK, PlansPaid, RecordsType, EnvType
<1>7. LockFits'
  BY <1>1, <1>3, <1>4, <1>5 DEF IInv, LockFits, Executing
<1> QED
  BY <1>1, <1>2, <1>3, <1>5, <1>6, <1>7, KeepsCall, StepFitsKept, CallOwnedKept DEF IInv

LEMMA ResumeInterruptedPreserves == ASSUME IInv, NEW i \in Plans, ResumeInterrupted(i) PROVE IInv'
<1>1. /\ lock.pc = "idle" /\ run.state = "running" /\ run.last = "EXECUTE" /\ run.target = i
      /\ UNCHANGED <<run, records, world, env>> /\ lock' = [lock EXCEPT !.pc = "mark", !.at = i]
      /\ session' \in {session, [session EXCEPT !.state = "awaiting_reconciliation"]}
  BY DEF ResumeInterrupted, AtRest, Goto
<1>2. lock' \in LockType /\ lock'.pc = "mark" /\ lock'.at = i
  BY <1>1, PlansInIds, GotoTyped DEF IInv
<1>3. /\ session' \in SessionType /\ session'.pending = session.pending
      /\ session'.dispatched = session.dispatched /\ session'.settled = session.settled
      /\ session'.started = session.started
  BY <1>1 DEF IInv, TypeOK, SessionType
<1>4. TypeOK' /\ PlansPaid' /\ LockFits'
  BY <1>1, <1>2, <1>3 DEF IInv, TypeOK, PlansPaid, RecordsType, EnvType, LockFits, Executing
<1> QED
  BY <1>1, <1>3, <1>4, KeepsCall, StepFitsKept, CallOwnedKept DEF IInv

LEMMA AwaitAckPreserves == ASSUME IInv, NEW i \in Plans, AwaitAck(i) PROVE IInv'
<1>1. /\ lock.pc = "await" /\ UNCHANGED <<run, records, lock, world, env>>
      /\ session' = [session EXCEPT !.deferred = TRUE]
  BY DEF AwaitAck, At
<1>2. /\ session' \in SessionType /\ session'.pending = session.pending
      /\ session'.dispatched = session.dispatched /\ session'.settled = session.settled
      /\ session'.started = session.started
  BY <1>1 DEF IInv, TypeOK, SessionType
<1>3. TypeOK' /\ PlansPaid' /\ LockFits'
  BY <1>1, <1>2 DEF IInv, TypeOK, PlansPaid, RecordsType, EnvType, LockFits, Executing
<1> QED
  BY <1>1, <1>2, <1>3, KeepsCall, StepFitsKept, CallOwnedKept DEF IInv

LEMMA EnterAdapterPreserves == ASSUME IInv, NEW i \in Plans, EnterAdapter(i) PROVE IInv'
<1>1. /\ lock.pc = "started" /\ lock.at = i /\ UNCHANGED <<run, records, session, env>>
  BY DEF EnterAdapter, At
<1>2. i \in Ids /\ i \in 0 .. MaxDecisions /\ i # 0
  BY PlansInIds DEF Ids
<1>3. /\ session.pending = i /\ session.started /\ world.outcome[i] = "none"
      /\ i \in session.dispatched /\ session.settled[i] = "none" /\ i \notin records.acks
  BY <1>1, <1>2 DEF IInv, LockFits, OneReserved, EffectsAdmitted
<1>4. PICK outcome \in Final \cup {"running"}, pc \in {"deferring", "returned"},
           result \in Final \cup {"unknown", "raised", lock.result} :
         /\ world' = [effects |-> Append(world.effects, i),
                      outcome |-> [world.outcome EXCEPT ![i] = outcome]]
         /\ pc = "returned" => result # "none" /\ result # "deferred"
                               /\ (result \in Final => result = outcome)
         /\ pc = "deferring" => RequestOf(i) \in Deferring
         /\ lock' = [lock EXCEPT !.pc = pc, !.result = result]
  <2>1. CASE RequestOf(i) \in Deferring
    <3>1. lock' = [lock EXCEPT !.pc = "deferring", !.result = lock.result]
      BY <2>1 DEF EnterAdapter, IInv, TypeOK, LockType
    <3> QED
      BY <2>1, <3>1 DEF EnterAdapter
  <2>2. CASE RequestOf(i) \notin Deferring
    <3>1. PICK outcome \in Final : \E result \in {outcome, "unknown", "raised"} :
            /\ world' = [effects |-> Append(world.effects, i),
                         outcome |-> [world.outcome EXCEPT ![i] = outcome]]
            /\ lock' = [lock EXCEPT !.pc = "returned", !.result = result]
      BY <2>2 DEF EnterAdapter
    <3>2. PICK result \in {outcome, "unknown", "raised"} :
            /\ world' = [effects |-> Append(world.effects, i),
                         outcome |-> [world.outcome EXCEPT ![i] = outcome]]
            /\ lock' = [lock EXCEPT !.pc = "returned", !.result = result]
      BY <3>1
    <3> QED
      BY <3>2 DEF Final
  <2> QED
    BY <2>1, <2>2
<1>5. lock' \in LockType /\ lock'.pc = pc /\ lock'.at = i /\ lock'.result = result
  BY <1>1, <1>4 DEF IInv, TypeOK, LockType
<1>6. /\ world.effects \in Seq(Ids) /\ world'.effects = Append(world.effects, i)
      /\ world'.outcome = [world.outcome EXCEPT ![i] = outcome] /\ outcome # "none"
      /\ world.outcome \in [Ids -> Final \cup {"none", "running"}]
  BY <1>4 DEF IInv, TypeOK, WorldType, Final
<1>7. /\ DOMAIN world'.effects = 1 .. Len(world.effects) + 1
      /\ DOMAIN world.effects = 1 .. Len(world.effects) /\ Len(world.effects) \in Nat
      /\ world'.effects[Len(world.effects) + 1] = i
      /\ \A n \in DOMAIN world.effects : world'.effects[n] = world.effects[n]
  BY <1>2, <1>6
<1>8. \A j \in Ids : Entered(j)' <=> Entered(j) \/ j = i
  BY <1>7 DEF Entered
<1>9. /\ world'.outcome[i] = outcome /\ \A j \in Ids \ {i} : world'.outcome[j] = world.outcome[j]
  BY <1>2, <1>6
<1>10. world' \in WorldType
  <2>1. Append(world.effects, i) \in Seq(Ids)
    BY <1>2, <1>6
  <2>2. [world.outcome EXCEPT ![i] = outcome] \in [Ids -> Final \cup {"none", "running"}]
    BY <1>2, <1>6
  <2> QED
    BY <1>4, <2>1, <2>2 DEF WorldType
<1>11. TypeOK' /\ PlansPaid'
  BY <1>1, <1>4, <1>5, <1>10 DEF IInv, TypeOK, PlansPaid, RecordsType, EnvType
<1>12. OneReserved'
  BY <1>1, <1>3, <1>9 DEF IInv, OneReserved, TypeOK, SessionType
<1>13. EffectsAdmitted'
  <2>1. \A j \in Ids : Entered(j)' <=> world'.outcome[j] # "none"
    BY <1>6, <1>8, <1>9 DEF IInv, EffectsAdmitted
  <2>2. \A n \in DOMAIN world'.effects : world'.effects[n] \in session.dispatched
    BY <1>3, <1>7 DEF IInv, EffectsAdmitted
  <2>3. /\ \A j \in records.acks : world'.outcome[j] # "none" /\ RequestOf(j) \in Deferring
        /\ records.completions \subseteq records.acks
        /\ \A j \in records.completions : world'.outcome[j] \in Final
    <3>1. \A j \in records.acks : world'.outcome[j] = world.outcome[j]
      BY <1>3, <1>9 DEF IInv, TypeOK, RecordsType
    <3> QED
      BY <3>1 DEF IInv, EffectsAdmitted
  <2> QED
    BY <1>1, <2>1, <2>2, <2>3 DEF EffectsAdmitted, RequestOf
<1>14. ReceiptsSettled'
  BY <1>1 DEF IInv, ReceiptsSettled, Plans
<1>15. LockFits'
  BY <1>1, <1>3, <1>4, <1>5, <1>6, <1>9 DEF IInv, LockFits, Executing, RequestOf
<1> QED
  BY <1>1, <1>11, <1>12, <1>13, <1>14, <1>15, KeepsRecords, StepFitsKept, CallOwnedKept DEF IInv

LEMMA PersistAckPreserves == ASSUME IInv, NEW i \in Plans, PersistAck(i) PROVE IInv'
<1>1. /\ lock.pc = "deferring" /\ lock.at = i /\ UNCHANGED <<session, world, env>>
      /\ run' = Executed(i, "running") /\ records' = [records EXCEPT !.acks = @ \cup {i}]
      /\ lock' = [lock EXCEPT !.pc = "returned", !.result = "deferred"]
  BY DEF PersistAck, At
<1>2. i \in Ids /\ i \in 0 .. MaxDecisions
  BY PlansInIds
<1>3. /\ session.pending = i /\ session.started /\ world.outcome[i] # "none"
      /\ run.state = "running" /\ run.last = "EXECUTE" /\ run.target = i
      /\ i \in records.claims \cap records.invocations /\ Approved(i) /\ RequestOf(i) \in Deferring
  BY <1>1 DEF IInv, LockFits, Executing, StepFits
<1>4. lock' \in LockType /\ lock'.pc = "returned" /\ lock'.at = i /\ lock'.result = "deferred"
  BY <1>1 DEF IInv, TypeOK, LockType
<1>5. records' \in RecordsType
  <2>1. records.acks \cup {i} \in SUBSET Ids
    BY <1>2 DEF IInv, TypeOK, RecordsType
  <2> QED
    BY <1>1, <2>1 DEF IInv, TypeOK, RecordsType
<1>6. /\ records'.plan = records.plan /\ records'.invocations = records.invocations
      /\ records'.claims = records.claims /\ records'.acks = records.acks \cup {i}
      /\ records'.completions = records.completions /\ records'.receipts = records.receipts
      /\ records'.pending = records.pending /\ records'.approval = records.approval
  BY <1>1 DEF IInv, TypeOK, RecordsType
<1>7. run' \in RunType
  BY <1>1, <1>2, StepTyped, Named DEF IInv
<1>8. run'.last = "EXECUTE" /\ run'.state = "running" /\ run'.target = i
  BY <1>1, <1>7 DEF IInv, TypeOK, RunType, Step, Executed
<1>9. TypeOK' /\ PlansPaid'
  BY <1>1, <1>4, <1>5, <1>6, <1>7 DEF IInv, TypeOK, PlansPaid
<1>10. ApprovalsDecided' /\ OneClaim' /\ AdmittedClaimed'
  BY <1>1, <1>6 DEF IInv, ApprovalsDecided, OneClaim, SameKey, RequestOf, Plans, AdmittedClaimed, Approved
<1>11. StepFits' /\ LockFits' /\ CallOwned'
  BY <1>1, <1>3, <1>4, <1>6, <1>8 DEF IInv, StepFits, LockFits, Executing, CallOwned,
     PlannedOperations, Plans, RequestOf, Approved, Final
<1>12. OneReserved' /\ EffectsAdmitted' /\ ReceiptsSettled'
  BY <1>1, <1>3, <1>6 DEF IInv, OneReserved, EffectsAdmitted, ReceiptsSettled, Entered, RequestOf, Plans
<1> QED
  BY <1>9, <1>10, <1>11, <1>12 DEF IInv

\* The pending call is settled with what became of its effect.
LEMMA SettlesCall ==
    ASSUME IInv, UNCHANGED <<records, world>>, NEW i \in Ids, session.pending = i,
           world.outcome[i] \in Final, session' = SettledSession(i, world.outcome[i])
    PROVE  /\ session' \in SessionType /\ session'.dispatched = session.dispatched
           /\ session'.pending = 0 /\ session'.settled[i] = world.outcome[i]
           /\ \A j \in Ids : session.settled[j] # "none" => session'.settled[j] = session.settled[j]
           /\ ApprovalsDecided' /\ OneClaim' /\ AdmittedClaimed'
           /\ OneReserved' /\ EffectsAdmitted' /\ ReceiptsSettled'
<1>1. world.outcome[i] # "none" /\ session.settled[i] = "none" /\ i # 0
  BY DEF Final, IInv, OneReserved, Ids
<1>2. session' = [session EXCEPT !.settled = [session.settled EXCEPT ![i] = world.outcome[i]],
                                 !.pending = 0, !.started = FALSE, !.deferred = FALSE,
                                 !.state = "executing"]
  BY DEF SettledSession
<1>3. [session.settled EXCEPT ![i] = world.outcome[i]] \in [Ids -> Final \cup {"none"}]
  BY DEF IInv, TypeOK, SessionType
<1>4. session' \in SessionType
  BY <1>2, <1>3, NoCallTyped DEF IInv, TypeOK, SessionType
<1>5. /\ session'.dispatched = session.dispatched /\ session'.pending = 0
      /\ session'.started = FALSE
      /\ session'.settled = [session.settled EXCEPT ![i] = world.outcome[i]]
  BY <1>2 DEF IInv, TypeOK, SessionType
<1>6. /\ session'.settled[i] = world.outcome[i]
      /\ \A j \in Ids \ {i} : session'.settled[j] = session.settled[j]
  BY <1>5 DEF IInv, TypeOK, SessionType
<1>7. OneReserved'
  BY <1>1, <1>5, <1>6 DEF IInv, OneReserved, TypeOK, SessionType
<1>8. EffectsAdmitted'
  BY <1>5 DEF IInv, EffectsAdmitted, Entered, RequestOf
<1>9. ReceiptsSettled'
  <2>1. \A n \in DOMAIN records.receipts :
           records.receipts[n].result \in Final =>
             session'.settled[records.receipts[n].call] = records.receipts[n].result
    <3>1. ASSUME NEW n \in DOMAIN records.receipts, records.receipts[n].result \in Final
          PROVE  session'.settled[records.receipts[n].call] = records.receipts[n].result
      <4>1. /\ records.receipts[n].call \in Ids
            /\ session.settled[records.receipts[n].call] = records.receipts[n].result
        BY <3>1, PlansInIds DEF IInv, ReceiptsSettled
      <4>2. records.receipts[n].call # i
        BY <1>1, <3>1, <4>1 DEF Final
      <4> QED
        BY <1>6, <4>1, <4>2
    <3> QED
      BY <3>1
  <2> QED
    BY <2>1 DEF IInv, ReceiptsSettled, Plans
<1> QED
  BY <1>1, <1>4, <1>5, <1>6, <1>7, <1>8, <1>9, KeepsRecords

LEMMA PersistResultPreserves == ASSUME IInv, NEW i \in Plans, PersistResult(i) PROVE IInv'
<1>1. /\ lock.pc = "returned" /\ lock.at = i /\ UNCHANGED <<run, records, world, env>>
      /\ lock' = [lock EXCEPT !.pc = "recorded", !.at = i]
  BY DEF PersistResult, At, Goto
<1>2. i \in Ids /\ i \in 0 .. MaxDecisions /\ i # 0
  BY PlansInIds DEF Ids
<1>3. /\ session.pending = i /\ session.started /\ lock.result # "none"
      /\ lock.result = "deferred" => RequestOf(i) \in Deferring
      /\ lock.result \in Final => lock.result = world.outcome[i]
      /\ run.state = "running" /\ run.last = "EXECUTE" /\ run.target = i
  BY <1>1 DEF IInv, LockFits, Executing
<1>4. lock' \in LockType /\ lock'.pc = "recorded" /\ lock'.at = i /\ lock'.result = lock.result
  BY <1>1, <1>2, GotoTyped DEF IInv
<1>5. CASE lock.result \in Final
  <2>1. session' = SettledSession(i, world.outcome[i])
    BY <1>3, <1>5 DEF PersistResult
  <2>2. /\ session' \in SessionType /\ session'.dispatched = session.dispatched
        /\ session'.pending = 0 /\ session'.settled[i] = world.outcome[i]
        /\ ApprovalsDecided' /\ OneClaim' /\ AdmittedClaimed'
        /\ OneReserved' /\ EffectsAdmitted' /\ ReceiptsSettled'
    BY <1>1, <1>2, <1>3, <1>5, <2>1, SettlesCall
  <2>3. TypeOK' /\ PlansPaid'
    BY <1>1, <1>4, <2>2 DEF IInv, TypeOK, PlansPaid, RecordsType, EnvType
  <2>4. LockFits'
    BY <1>1, <1>3, <1>4, <1>5, <2>2 DEF LockFits, Executing, RequestOf
  <2> QED
    BY <1>1, <2>2, <2>3, <2>4, StepFitsKept, CallOwnedKept DEF IInv
<1>6. CASE lock.result \notin Final
  <2>1. session' \in {[session EXCEPT !.deferred = TRUE],
                      [session EXCEPT !.state = "awaiting_reconciliation"]}
    BY <1>6 DEF PersistResult
  <2>2. /\ session' \in SessionType /\ session'.pending = session.pending
        /\ session'.dispatched = session.dispatched /\ session'.settled = session.settled
        /\ session'.started = session.started
    BY <2>1 DEF IInv, TypeOK, SessionType
  <2>3. TypeOK' /\ PlansPaid'
    BY <1>1, <1>4, <2>2 DEF IInv, TypeOK, PlansPaid, RecordsType, EnvType
  <2>4. LockFits'
    BY <1>1, <1>3, <1>4, <1>6, <2>2 DEF LockFits, Executing, RequestOf
  <2> QED
    BY <1>1, <2>2, <2>3, <2>4, KeepsCall, StepFitsKept, CallOwnedKept DEF IInv
<1> QED
  BY <1>5, <1>6

LEMMA SettlePreserves == ASSUME IInv, NEW i \in Plans, Settle(i) PROVE IInv'
<1>1. lock.pc = "settle" /\ lock.at = i /\ UNCHANGED <<run, records, world, env>>
  BY DEF Settle, At
<1>2. i \in Ids /\ i \in 0 .. MaxDecisions /\ i \in records.completions /\ world.outcome[i] \in Final
  BY <1>1, PlansInIds DEF IInv, LockFits, EffectsAdmitted
<1>3. CASE session.pending = i /\ session.started
  <2>1. /\ session' = SettledSession(i, world.outcome[i])
        /\ lock' = [lock EXCEPT !.pc = "project", !.at = i]
    BY <1>3 DEF Settle, Goto
  <2>2. lock' \in LockType /\ lock'.pc = "project" /\ lock'.at = i
    BY <1>2, <2>1, GotoTyped DEF IInv
  <2>3. /\ session' \in SessionType /\ session'.dispatched = session.dispatched
        /\ session'.pending = 0 /\ session'.settled[i] = world.outcome[i]
        /\ ApprovalsDecided' /\ OneClaim' /\ AdmittedClaimed'
        /\ OneReserved' /\ EffectsAdmitted' /\ ReceiptsSettled'
    BY <1>1, <1>2, <1>3, <2>1, SettlesCall
  <2>4. TypeOK' /\ PlansPaid'
    BY <1>1, <2>2, <2>3 DEF IInv, TypeOK, PlansPaid, RecordsType, EnvType
  <2>5. LockFits'
    BY <1>1, <1>2, <2>2, <2>3 DEF LockFits, Executing, Final
  <2> QED
    BY <1>1, <2>3, <2>4, <2>5, StepFitsKept, CallOwnedKept DEF IInv
<1>4. CASE ~(session.pending = i /\ session.started)
  <2>1. lock' = Idle /\ UNCHANGED session
    BY <1>4 DEF Settle, Yield
  <2> QED
    BY <1>1, <2>1, NoCallTyped, LockMoves DEF IInv, TypeOK, LockFits, Executing
<1> QED
  BY <1>3, <1>4

LEMMA ResolvePreserves == ASSUME IInv, NEW i \in Plans, ResolveReconciliation(i) PROVE IInv'
<1>1. /\ UNCHANGED <<run, records, world, env>> /\ session.pending = i
      /\ world.outcome[i] \in Final /\ session' = SettledSession(i, world.outcome[i])
      /\ lock' = [lock EXCEPT !.pc = "resolved", !.at = i]
  BY DEF ResolveReconciliation, MayResolve, Goto
<1>2. i \in Ids /\ i \in 0 .. MaxDecisions
  BY PlansInIds
<1>3. lock' \in LockType /\ lock'.pc = "resolved" /\ lock'.at = i
  BY <1>1, <1>2, GotoTyped DEF IInv
<1>4. /\ session' \in SessionType /\ session'.dispatched = session.dispatched
      /\ session'.pending = 0 /\ session'.settled[i] = world.outcome[i]
      /\ ApprovalsDecided' /\ OneClaim' /\ AdmittedClaimed'
      /\ OneReserved' /\ EffectsAdmitted' /\ ReceiptsSettled'
  BY <1>1, <1>2, SettlesCall
<1>5. TypeOK' /\ PlansPaid'
  BY <1>1, <1>3, <1>4 DEF IInv, TypeOK, PlansPaid, RecordsType, EnvType
<1>6. LockFits'
  BY <1>1, <1>3, <1>4 DEF LockFits, Executing, Final
<1> QED
  BY <1>1, <1>4, <1>5, <1>6, StepFitsKept, CallOwnedKept DEF IInv

\* A receipt enters the Run's ledger under a call whose session agrees with it.
LEMMA ReceiptRecorded ==
    ASSUME IInv, UNCHANGED <<session, world, env>>, lock' = Idle, NEW i \in Plans,
           NEW result \in Final \cup {"unknown"}, Recorded(i, result),
           result \in Final => session.settled[i] = result,
           Free \/ (result = "unknown" /\ session.pending = i /\ run.target = i)
    PROVE  IInv'
<1>1. /\ run' = Step("VERIFY", i, IF result = "unknown" THEN "awaiting_reconciliation" ELSE "running")
      /\ records' = [records EXCEPT !.receipts = Append(@, [call |-> i, result |-> result]),
                                    !.pending = IF @ = i THEN 0 ELSE @]
  BY DEF Recorded, Receipt, PendingAfter
<1>2. i \in Ids /\ i \in 0 .. MaxDecisions
  BY PlansInIds
<1>3. /\ records.receipts \in Seq([call : Ids, result : Final \cup {"unknown"}])
      /\ [call |-> i, result |-> result] \in [call : Ids, result : Final \cup {"unknown"}]
  BY <1>2 DEF IInv, TypeOK, RecordsType
<1>4. records' \in RecordsType
  <2>1. Append(records.receipts, [call |-> i, result |-> result])
          \in Seq([call : Ids, result : Final \cup {"unknown"}])
    BY <1>3
  <2> QED
    BY <1>1, <2>1, NoCallTyped DEF IInv, TypeOK, RecordsType
<1>5. /\ records'.plan = records.plan /\ records'.invocations = records.invocations
      /\ records'.claims = records.claims /\ records'.acks = records.acks
      /\ records'.completions = records.completions /\ records'.approval = records.approval
      /\ records'.pending \in {0, records.pending}
      /\ records'.receipts = Append(records.receipts, [call |-> i, result |-> result])
  BY <1>1 DEF IInv, TypeOK, RecordsType
<1>6. run' \in RunType
  BY <1>1, <1>2, StepTyped, Named DEF IInv
<1>7. /\ run'.last = "VERIFY" /\ run'.target = run.target
      /\ run'.state = IF result = "unknown" THEN "awaiting_reconciliation" ELSE "running"
  BY <1>1, <1>6 DEF IInv, TypeOK, RunType, Step
<1>8. TypeOK' /\ PlansPaid'
  BY <1>4, <1>5, <1>6, NoCallTyped DEF IInv, TypeOK, PlansPaid, RecordsType, EnvType
<1>9. ApprovalsDecided' /\ OneClaim' /\ AdmittedClaimed'
  BY <1>5 DEF IInv, ApprovalsDecided, OneClaim, SameKey, RequestOf, Plans, AdmittedClaimed, Approved, Ids
<1>10. StepFits' /\ LockFits' /\ CallOwned'
  BY <1>5, <1>7, NoCallTyped DEF IInv, StepFits, LockFits, Executing, CallOwned, Free,
     PlannedOperations, Plans, RequestOf
<1>11. OneReserved' /\ EffectsAdmitted'
  BY <1>5 DEF IInv, OneReserved, EffectsAdmitted, Entered, RequestOf
<1>12. ReceiptsSettled'
  <2>1. /\ DOMAIN records'.receipts = 1 .. Len(records.receipts) + 1
        /\ DOMAIN records.receipts = 1 .. Len(records.receipts) /\ Len(records.receipts) \in Nat
        /\ records'.receipts[Len(records.receipts) + 1] = [call |-> i, result |-> result]
        /\ \A n \in DOMAIN records.receipts : records'.receipts[n] = records.receipts[n]
    BY <1>3, <1>5
  <2> QED
    BY <1>5, <2>1 DEF IInv, ReceiptsSettled, Plans
<1> QED
  BY <1>8, <1>9, <1>10, <1>11, <1>12 DEF IInv

LEMMA RecordResultPreserves == ASSUME IInv, NEW i \in Plans, RecordResult(i) PROVE IInv'
<1>1. lock.pc = "recorded" /\ lock.at = i /\ lock' = Idle /\ UNCHANGED <<session, world, env>>
  BY DEF RecordResult, At, Yield
<1>2. /\ lock.result # "none" /\ lock.result \in Final \cup {"unknown", "raised", "deferred"}
      /\ lock.result = "deferred" => RequestOf(i) \in Deferring
      /\ lock.result \in Final => session.settled[i] = lock.result
      /\ run.state = "running" /\ run.last = "EXECUTE" /\ run.target = i
  BY <1>1 DEF IInv, LockFits, Executing, TypeOK, LockType
<1>3. i \in Ids /\ i \in 0 .. MaxDecisions
  BY PlansInIds
<1>4. CASE lock.result = "deferred"
  <2>1. run' = Executed(i, "awaiting_tool") /\ UNCHANGED records
    BY <1>4 DEF RecordResult
  <2>2. run' \in RunType
    BY <1>3, <2>1, StepTyped, Named DEF IInv
  <2>3. run'.last = "EXECUTE" /\ run'.state = "awaiting_tool" /\ run'.target = i
    BY <2>1, <2>2 DEF IInv, TypeOK, RunType, Step, Executed
  <2>4. TypeOK' /\ PlansPaid'
    BY <1>1, <2>1, <2>2, NoCallTyped DEF IInv, TypeOK, PlansPaid, RecordsType, EnvType
  <2>5. StepFits' /\ LockFits' /\ CallOwned'
    BY <1>1, <1>2, <2>1, <2>3, NoCallTyped DEF IInv, StepFits, LockFits, Executing, CallOwned,
       PlannedOperations, Plans, RequestOf
  <2> QED
    BY <1>1, <2>1, <2>4, <2>5, KeepsStores DEF IInv
<1>5. CASE lock.result = "raised"
  <2>1. run' = Step("VERIFY", i, "awaiting_reconciliation") /\ UNCHANGED records
    BY <1>5 DEF RecordResult
  <2>2. run' \in RunType
    BY <1>3, <2>1, StepTyped, Named DEF IInv
  <2>3. /\ run'.last = "VERIFY" /\ run'.state = "awaiting_reconciliation"
        /\ run'.target = run.target
    BY <2>1, <2>2 DEF IInv, TypeOK, RunType, Step
  <2> QED
    BY <1>1, <2>1, <2>2, <2>3, NoCallTyped, RunMoves DEF IInv, TypeOK
<1>6. CASE lock.result \in Final \cup {"unknown"}
  <2>1. Recorded(i, lock.result)
    BY <1>6 DEF RecordResult, Final
  <2>2. Free \/ (lock.result = "unknown" /\ session.pending = i /\ run.target = i)
    <3>1. Free \/ (session.pending = i /\ session.settled[i] = "none")
      BY <1>2 DEF IInv, CallOwned, Free, OneReserved
    <3>2. lock.result \in Final => session.settled[i] # "none"
      BY <1>2 DEF Final
    <3> QED
      BY <1>2, <1>6, <3>1, <3>2
  <2> QED
    BY <1>1, <1>2, <1>6, <2>1, <2>2, ReceiptRecorded
<1> QED
  BY <1>2, <1>4, <1>5, <1>6

LEMMA RecordResolvedPreserves == ASSUME IInv, NEW i \in Plans, RecordResolved(i) PROVE IInv'
<1>1. /\ lock.pc = "resolved" /\ lock.at = i /\ lock' = Idle /\ UNCHANGED <<session, world, env>>
      /\ Recorded(i, world.outcome[i])
  BY DEF RecordResolved, At, Yield
<1>2. /\ session.pending = 0 /\ session.settled[i] = world.outcome[i]
      /\ world.outcome[i] \in Final
  BY <1>1, PlansInIds DEF IInv, LockFits, OneReserved, TypeOK, SessionType
<1>3. Free /\ world.outcome[i] \in Final \cup {"unknown"}
  BY <1>2 DEF Free
<1> QED
  BY <1>1, <1>2, <1>3, ReceiptRecorded

LEMMA ProjectPreserves == ASSUME IInv, NEW i \in Plans, Project(i) PROVE IInv'
<1>1. lock.pc = "project" /\ lock.at = i /\ lock' = Idle /\ UNCHANGED <<session, world, env>>
  BY DEF Project, At, Yield
<1>2. /\ session.settled[i] = world.outcome[i] /\ world.outcome[i] \in Final
      /\ i \in records.completions
  BY <1>1, PlansInIds DEF IInv, LockFits, OneReserved, TypeOK, SessionType
<1>3. Free
  BY <1>2 DEF Free, PlannedOperations, IInv, EffectsAdmitted
<1>4. CASE HasReceipt(i)
  BY <1>1, <1>4, NoCallTyped, LockMoves DEF Project, IInv, TypeOK, LockFits, Executing
<1>5. CASE ~HasReceipt(i)
  <2>1. Recorded(i, world.outcome[i]) /\ world.outcome[i] \in Final \cup {"unknown"}
    BY <1>2, <1>5 DEF Project
  <2> QED
    BY <1>1, <1>2, <1>3, <2>1, ReceiptRecorded
<1> QED
  BY <1>4, <1>5

LEMMA AwaitCommitPreserves == ASSUME IInv, NEW i \in Plans, AwaitCommit(i) PROVE IInv'
<1>1. lock.pc = "await" /\ lock.at = i /\ UNCHANGED <<records, session, lock, world, env>>
  BY DEF AwaitCommit, At
<1>2. i \in 0 .. MaxDecisions /\ i \in records.acks /\ RequestOf(i) \in Deferring
  BY <1>1, PlansInIds DEF IInv, LockFits, EffectsAdmitted
<1>3. \/ run' = Executed(i, "awaiting_tool")
      \/ run' = Step("VERIFY", i, "awaiting_reconciliation")
  BY DEF AwaitCommit
<1>4. run' \in RunType
  BY <1>2, <1>3, StepTyped, Named DEF IInv
<1>5. \/ run'.last = "EXECUTE" /\ run'.state = "awaiting_tool"
      \/ run'.last = "VERIFY" /\ run'.state = "awaiting_reconciliation"
  BY <1>3, <1>4 DEF IInv, TypeOK, RunType, Step, Executed
<1>6. TypeOK' /\ PlansPaid'
  BY <1>1, <1>4 DEF IInv, TypeOK, PlansPaid, RecordsType, EnvType
<1>7. StepFits' /\ LockFits'
  BY <1>1, <1>5 DEF IInv, StepFits, LockFits, Executing
<1>8. CallOwned'
  BY <1>1, <1>2 DEF CallOwned, PlannedOperations, Plans, RequestOf
<1> QED
  BY <1>1, <1>6, <1>7, <1>8, KeepsStores DEF IInv

LEMMA AwaitDonePreserves == ASSUME IInv, NEW i \in Plans, AwaitDone(i) PROVE IInv'
<1>1. lock.pc = "await" /\ lock.at = i /\ UNCHANGED <<world, env>>
  BY DEF AwaitDone, At
<1>2. /\ i \in Ids /\ i \in 0 .. MaxDecisions /\ i \in records.acks /\ RequestOf(i) \in Deferring
      /\ lock.goal = "complete" => world.outcome[i] \in Final
  BY <1>1, PlansInIds DEF IInv, LockFits, EffectsAdmitted
<1>3. CASE lock' = Idle /\ UNCHANGED <<run, records, session>>
  BY <1>1, <1>3, NoCallTyped, LockMoves DEF IInv, TypeOK, LockFits, Executing
<1>4. CASE lock.goal = "complete"
  <2>1. /\ run' = Executed(i, run.state) /\ UNCHANGED session
        /\ records' = [records EXCEPT !.completions = @ \cup {i}]
        /\ lock' = [lock EXCEPT !.pc = "settle", !.at = i]
    BY <1>4 DEF AwaitDone, Goto
  <2>2. lock' \in LockType /\ lock'.pc = "settle" /\ lock'.at = i
    BY <1>2, <2>1, GotoTyped DEF IInv
  <2>3. records' \in RecordsType
    <3>1. records.completions \cup {i} \in SUBSET Ids
      BY <1>2 DEF IInv, TypeOK, RecordsType
    <3> QED
      BY <2>1, <3>1 DEF IInv, TypeOK, RecordsType
  <2>4. /\ records'.plan = records.plan /\ records'.invocations = records.invocations
        /\ records'.claims = records.claims /\ records'.acks = records.acks
        /\ records'.completions = records.completions \cup {i}
        /\ records'.receipts = records.receipts
        /\ records'.pending = records.pending /\ records'.approval = records.approval
    BY <2>1 DEF IInv, TypeOK, RecordsType
  <2>5. run.state \in States
    BY DEF IInv, TypeOK, RunType
  <2>6. run' \in RunType
    BY <1>2, <2>1, <2>5, StepTyped, Named DEF IInv
  <2>7. run'.last = "EXECUTE" /\ run'.target = i
    BY <2>1, <2>6 DEF IInv, TypeOK, RunType, Step, Executed
  <2>8. i \in session.dispatched /\ i \in records.claims \cap records.invocations /\ Approved(i)
    BY <1>2 DEF IInv, EffectsAdmitted, Entered, AdmittedClaimed
  <2>9. TypeOK' /\ PlansPaid'
    BY <1>1, <2>1, <2>2, <2>3, <2>4, <2>6 DEF IInv, TypeOK, PlansPaid, RecordsType, EnvType
  <2>10. ApprovalsDecided' /\ OneClaim' /\ AdmittedClaimed'
    BY <2>1, <2>4 DEF IInv, ApprovalsDecided, OneClaim, SameKey, RequestOf, Plans, AdmittedClaimed, Approved
  <2>11. StepFits' /\ LockFits'
    BY <2>2, <2>4, <2>7, <2>8 DEF StepFits, LockFits, Executing, Approved, RequestOf
  <2>12. CallOwned'
    BY <1>2, <2>4 DEF CallOwned, PlannedOperations, Plans, RequestOf
  <2>13. OneReserved' /\ EffectsAdmitted' /\ ReceiptsSettled'
    BY <1>1, <1>2, <1>4, <2>1, <2>4 DEF IInv, OneReserved, EffectsAdmitted, ReceiptsSettled, Entered, RequestOf, Plans
  <2> QED
    BY <2>9, <2>10, <2>11, <2>12, <2>13 DEF IInv
<1>5. CASE lock.goal = "uncertain" /\ session.state = "executing"
  <2>1. /\ session' = [session EXCEPT !.state = "awaiting_reconciliation"]
        /\ UNCHANGED <<run, records, lock>>
    BY <1>5 DEF AwaitDone
  <2>2. /\ session' \in SessionType /\ session'.pending = session.pending
        /\ session'.dispatched = session.dispatched /\ session'.settled = session.settled
        /\ session'.started = session.started
    BY <2>1 DEF IInv, TypeOK, SessionType
  <2>3. TypeOK' /\ PlansPaid' /\ LockFits'
    BY <1>1, <2>1, <2>2 DEF IInv, TypeOK, PlansPaid, RecordsType, EnvType, LockFits, Executing
  <2> QED
    BY <1>1, <2>1, <2>2, <2>3, KeepsCall, StepFitsKept, CallOwnedKept DEF IInv
<1> QED
  BY <1>3, <1>4, <1>5 DEF AwaitDone, Yield

LEMMA WorkerFinishesPreserves == ASSUME IInv, NEW i \in Plans, WorkerFinishes(i) PROVE IInv'
<1>1. PICK outcome \in Final : world' = [world EXCEPT !.outcome[i] = outcome]
  BY DEF WorkerFinishes
<1>2. /\ world.outcome[i] = "running" /\ UNCHANGED <<run, records, session, lock, env>>
      /\ i \in Ids
  BY PlansInIds DEF WorkerFinishes
<1>3. /\ world'.effects = world.effects /\ world' \in WorldType
      /\ world'.outcome[i] = outcome /\ \A j \in Ids \ {i} : world'.outcome[j] = world.outcome[j]
  <2>1. [world.outcome EXCEPT ![i] = outcome] \in [Ids -> Final \cup {"none", "running"}]
    BY <1>2 DEF IInv, TypeOK, WorldType
  <2>2. world' = [world EXCEPT !.outcome = [world.outcome EXCEPT ![i] = outcome]]
    BY <1>1
  <2> QED
    BY <1>2, <2>1, <2>2 DEF IInv, TypeOK, WorldType
<1>4. outcome # "none" /\ world.outcome[i] # "none" /\ world.outcome[i] \notin Final
  BY <1>2 DEF Final
<1>5. session.settled[i] = "none"
  BY <1>2, <1>4 DEF IInv, OneReserved, TypeOK, SessionType
<1>6. TypeOK' /\ PlansPaid'
  BY <1>2, <1>3 DEF IInv, TypeOK, PlansPaid, RecordsType, EnvType
<1>7. OneReserved'
  BY <1>2, <1>3, <1>4, <1>5 DEF IInv, OneReserved, TypeOK, SessionType, Ids
<1>8. EffectsAdmitted'
  <2>1. \A j \in Ids : Entered(j)' <=> world'.outcome[j] # "none"
    BY <1>3, <1>4 DEF IInv, EffectsAdmitted, Entered
  <2>2. /\ \A j \in records.acks : world'.outcome[j] # "none"
        /\ \A j \in records.completions : world'.outcome[j] \in Final
    BY <1>3, <1>4 DEF IInv, EffectsAdmitted, TypeOK, RecordsType
  <2> QED
    BY <1>2, <1>3, <2>1, <2>2 DEF IInv, EffectsAdmitted, RequestOf
<1>9. LockFits'
  <2>1. \A j \in Ids : /\ world'.outcome[j] # "none" <=> world.outcome[j] # "none"
                       /\ world.outcome[j] \in Final => world'.outcome[j] = world.outcome[j]
    BY <1>3, <1>4
  <2>2. lock.pc \in {"started", "deferring", "returned", "await"} => lock.at \in Ids
    BY DEF IInv, LockFits, OneReserved, TypeOK, RecordsType, SessionType, LockType, Ids
  <2> QED
    BY <1>2, <2>1, <2>2 DEF IInv, LockFits, Executing, RequestOf, Approved
<1> QED
  BY <1>2, <1>6, <1>7, <1>8, <1>9, KeepsRecords, StepFitsKept, CallOwnedKept DEF IInv, ReceiptsSettled, Plans

\* Every step of the Run, the human, the worker and the faults.
LEMMA NextIInv == IInv /\ [Next]_vars => IInv'
<1> SUFFICES ASSUME IInv, [Next]_vars PROVE IInv'
  OBVIOUS
<1>1. CASE Planning
  BY <1>1, Replans, ObservePreserves, Answers, PlanToolPreserves DEF Planning
<1>2. CASE Dispatching
  BY <1>2, Judges, ProposePreserves, ClaimPreserves, CommitExecutePreserves, AdmitPreserves,
     StartPreserves, EnterAdapterPreserves, PersistAckPreserves, PersistResultPreserves,
     RecordResultPreserves DEF Dispatching
<1>3. CASE Recovering
  BY <1>3, Replans, Judges, Awaits, ResumeInterruptedPreserves, AwaitAckPreserves,
     AwaitCommitPreserves, AwaitDonePreserves, ResumeCompletionPreserves, SettlePreserves,
     ProjectPreserves, ResolvePreserves, RecordResolvedPreserves DEF Recovering
<1>4. CASE Human
  BY <1>4, Replans, Answers, Arrivals, DecideApprovalPreserves DEF Human
<1>5. CASE Faulty
  BY <1>5, Arrivals, Awaits DEF Faulty
<1>6. CASE \E i \in Plans : WorkerFinishes(i)
  BY <1>6, WorkerFinishesPreserves
<1>7. CASE UNCHANGED vars
  BY <1>7, LockMoves DEF vars, IInv, TypeOK, LockFits, Executing, Approved, RequestOf
<1> QED
  BY <1>1, <1>2, <1>3, <1>4, <1>5, <1>6, <1>7 DEF Next

-----------------------------------------------------------------------------
(* What the Run keeps *)

\* The five stores of a Run hold what the service writes into them (run, records,
\* session, world), whatever was planned, lost and repeated.
THEOREM TypeCorrect == Spec => []TypeOK
<1>1. IInv => TypeOK
  BY DEF IInv
<1> QED
  BY <1>1, InitIInv, NextIInv, PTL DEF Spec

\* An external effect was claimed, recorded as an invocation and approved where its
\* descriptor asks for it (claim_tool_idempotency, _execute_tool, _dispatch_tool),
\* for every request set and any number of crashes.
THEOREM Authorized == Spec => []EffectAuthorized
<1>1. IInv => EffectAuthorized
  <2> SUFFICES ASSUME IInv, NEW i \in Plans, Entered(i)
               PROVE  /\ i \in records.claims \cap records.invocations
                      /\ RequestOf(i) \in NeedsApproval => records.approval[i] = "granted"
    BY DEF EffectAuthorized
  <2>1. i \in session.dispatched
    BY DEF IInv, EffectsAdmitted, Entered
  <2> QED
    BY <2>1 DEF IInv, AdmittedClaimed, Approved
<1> QED
  BY <1>1, InitIInv, NextIInv, PTL DEF Spec

\* Until the session holds a terminal receipt of an effect, it holds the call that
\* began it, started and with its cost reserved (start_persisted_tool_execution,
\* _record_receipt).
THEOREM StaysReserved == Spec => []EffectStaysReserved
<1>1. IInv => EffectStaysReserved
  <2> SUFFICES ASSUME IInv, NEW i \in Plans, Entered(i), session.settled[i] = "none"
               PROVE  session.pending = i /\ session.started
    BY DEF EffectStaysReserved
  <2>1. i \in session.dispatched /\ i \in Ids /\ i # 0
    BY PlansInIds DEF IInv, EffectsAdmitted, Entered, Ids
  <2>2. session.pending = i /\ world.outcome[i] # "none"
    BY <2>1 DEF IInv, OneReserved, EffectsAdmitted
  <2> QED
    BY <2>1, <2>2 DEF IInv, OneReserved, TypeOK, SessionType
<1> QED
  BY <1>1, InitIInv, NextIInv, PTL DEF Spec

\* Without deferred operations a Run does nothing else while an effect of its own
\* is unknown: it executes, waits for or reconciles that call, or was stopped.
THEOREM UnsettledOwned == Spec => []UnsettledEffectOwned
<1>1. IInv => UnsettledEffectOwned
  <2> SUFFICES ASSUME IInv, NEW i \in Plans, AtRest, Entered(i), session.settled[i] = "none",
                      PlannedOperations = {}
               PROVE  /\ run.target = i
                      /\ \/ run.state \in {"awaiting_tool", "awaiting_reconciliation", "stopped"}
                         \/ run.state = "running" /\ run.last = "EXECUTE"
    BY DEF UnsettledEffectOwned
  <2>1. i \in session.dispatched /\ i # 0
    BY PlansInIds DEF IInv, EffectsAdmitted, Entered, Ids
  <2> QED
    BY <2>1 DEF IInv, OneReserved, CallOwned
<1> QED
  BY <1>1, InitIInv, NextIInv, PTL DEF Spec

-----------------------------------------------------------------------------
(* The Run implements the abstract ledger of effects. *)

KeySet == [request : Requests, plan : 0 .. MaxDecisions]

LEMMA KeysTyped ==
    ASSUME IInv
    PROVE  /\ \A i \in Plans : KeyOf(i) \in KeySet /\ KeyOf(i) # NoKey
           /\ \A i, j \in Plans : KeyOf(i) = KeyOf(j) => SameKey(i, j)
<1>1. ASSUME NEW i \in Plans PROVE KeyOf(i) \in KeySet
  <2>1. RequestOf(i) \in Requests
    BY DEF IInv, TypeOK, RecordsType, Plans, RequestOf
  <2>2. i \in 0 .. MaxDecisions /\ 0 \in 0 .. MaxDecisions
    BY PlansInIds, NoCallTyped
  <2> QED
    BY <2>1, <2>2 DEF KeyOf, KeySet
<1>2. \A i, j \in Plans : KeyOf(i) = KeyOf(j) => SameKey(i, j)
  BY DEF KeyOf, SameKey
<1> QED
  BY <1>1, <1>2, ToolConstants DEF KeySet

\* The open key is the key of the reserved call, once its effect began.
LEMMA OpenIsReserved ==
    IInv => OpenKey = IF session.pending # 0 /\ Entered(session.pending)
                      THEN KeyOf(session.pending) ELSE NoKey
<1> SUFFICES ASSUME IInv
             PROVE  OpenKey = IF session.pending # 0 /\ Entered(session.pending)
                              THEN KeyOf(session.pending) ELSE NoKey
  OBVIOUS
<1>1. \A i \in Plans : Unsettled(i) => i = session.pending /\ session.pending # 0
  BY PlansInIds DEF Unsettled, IInv, OneReserved, EffectsAdmitted, Entered, Ids
<1>2. session.pending # 0 /\ Entered(session.pending) =>
         session.pending \in Plans /\ Unsettled(session.pending)
  BY DEF Unsettled, IInv, OneReserved, AdmittedClaimed, OneClaim
<1>3. CASE session.pending # 0 /\ Entered(session.pending)
  <2>1. (CHOOSE i \in Plans : Unsettled(i)) = session.pending
    BY <1>1, <1>2, <1>3
  <2> QED
    BY <1>2, <1>3, <2>1 DEF OpenKey
<1>4. CASE ~(session.pending # 0 /\ Entered(session.pending))
  BY <1>1, <1>4 DEF OpenKey, Unsettled
<1> QED
  BY <1>3, <1>4

\* A step that begins, settles and tells no effect.
EffectsIdle ==
    /\ records'.plan = records.plan /\ records'.receipts = records.receipts
    /\ session'.settled = session.settled /\ world'.effects = world.effects

LEMMA IdleKeeps ==
    ASSUME IInv, EffectsIdle, OpenKey' = OpenKey
    PROVE  UNCHANGED <<EnteredKeys, OpenKey, SettledKeys, ToldKeys>>
<1>1. EnteredKeys' = EnteredKeys
  BY DEF EffectsIdle, EnteredKeys, KeyOf, RequestOf
<1>2. SettledKeys' = SettledKeys
  BY DEF EffectsIdle, SettledKeys, KeyOf, RequestOf, Plans
<1>3. ToldKeys' = ToldKeys
  BY DEF EffectsIdle, ToldKeys, Told, KeyOf, RequestOf
<1> QED
  BY <1>1, <1>2, <1>3

LEMMA OpenIsReservedNext ==
    ASSUME IInv'
    PROVE  OpenKey' = IF session'.pending # 0 /\ (\E n \in DOMAIN world'.effects :
                                                     world'.effects[n] = session'.pending)
                      THEN [request |-> records'.plan[session'.pending],
                            plan |-> IF records'.plan[session'.pending] \in Observes
                                     THEN session'.pending ELSE 0]
                      ELSE NoKey
<1>1. (IInv => OpenKey = IF session.pending # 0 /\ Entered(session.pending)
                         THEN KeyOf(session.pending) ELSE NoKey)'
  BY OpenIsReserved, PTL
<1> QED
  BY <1>1 DEF Entered, KeyOf, RequestOf

LEMMA IdleOpen ==
    ASSUME IInv, IInv', EffectsIdle, session'.pending = session.pending
    PROVE  OpenKey' = OpenKey
<1> QED
  BY OpenIsReserved, OpenIsReservedNext DEF EffectsIdle, Entered, KeyOf, RequestOf

Outline == <<EnteredKeys, OpenKey, SettledKeys, ToldKeys>>

\* Planning, waiting, arriving, giving up: no effect is begun, settled or told.
LEMMA IdleSteps ==
    ASSUME IInv, IInv',
           \/ PauseForSignal \/ Observe \/ AwaitKnowledge \/ PlanFails \/ Assess
           \/ SubmitInput \/ SubmitRevision \/ Stop \/ SignalArrives \/ Crash \/ KnowledgeChanges
           \/ \E keeps \in BOOLEAN : PlanOther(keeps) \/ DecideApproval(keeps)
           \/ \E action \in {"pause", "revise"} : Continue(action)
           \/ \E i \in Plans :
                \/ Reuse(i) \/ Propose(i) \/ RefuseStale(i) \/ Claim(i) \/ CommitExecute(i)
                \/ Start(i) \/ PersistAck(i) \/ ResumeInterrupted(i) \/ MarkReconciliation(i)
                \/ Evaluate(i) \/ ResumeDeferred(i) \/ AwaitAck(i) \/ AwaitCommit(i)
                \/ AwaitDone(i) \/ ResumeCompletion(i) \/ CompleteDeferred(i)
                \/ ApprovalLapses(i) \/ MarkUncertain(i) \/ AckRefused(i) \/ WorkerFinishes(i)
    PROVE  UNCHANGED Outline
<1>1. records'.plan = records.plan /\ records'.receipts = records.receipts
  <2>1. \/ UNCHANGED records \/ Stop
        \/ \E keeps \in BOOLEAN : PlanOther(keeps) \/ DecideApproval(keeps)
        \/ \E action \in {"pause", "revise"} : Continue(action)
        \/ \E i \in Plans : Propose(i) \/ Claim(i) \/ CommitExecute(i) \/ PersistAck(i) \/ AwaitDone(i)
    BY DEF PauseForSignal, Observe, AwaitKnowledge, PlanFails, Assess, SubmitInput, SubmitRevision,
       InputSubmitted, SignalArrives, Crash, KnowledgeChanges, Reuse, RefuseStale, Start,
       ResumeInterrupted, MarkReconciliation, Evaluate, ResumeDeferred, BeginAwait, AwaitAck,
       AwaitCommit, ResumeCompletion, CompleteDeferred, ApprovalLapses, MarkUncertain, AckRefused,
       WorkerFinishes
  <2>2. CASE Stop \/ \E keeps \in BOOLEAN : PlanOther(keeps) \/ DecideApproval(keeps)
    BY <2>2 DEF IInv, TypeOK, RecordsType, Stop, PlanOther, DecideApproval
  <2>3. CASE \E action \in {"pause", "revise"} : Continue(action)
    BY <2>3 DEF IInv, TypeOK, RecordsType, Continue
  <2>4. ASSUME NEW i \in Plans, Propose(i) \/ CommitExecute(i) \/ PersistAck(i)
        PROVE  records'.plan = records.plan /\ records'.receipts = records.receipts
    BY <2>4 DEF IInv, TypeOK, RecordsType, Propose, CommitExecute, PersistAck
  <2>5. ASSUME NEW i \in Plans, Claim(i) \/ AwaitDone(i)
        PROVE  records'.plan = records.plan /\ records'.receipts = records.receipts
    <3>1. \/ UNCHANGED records
          \/ records' = [records EXCEPT !.claims = @ \cup {i}]
          \/ records' = [records EXCEPT !.completions = @ \cup {i}]
      BY <2>5 DEF Claim, AwaitDone
    <3> QED
      BY <3>1 DEF IInv, TypeOK, RecordsType
  <2> QED
    BY <2>1, <2>2, <2>3, <2>4, <2>5
<1>2. session'.settled = session.settled /\ session'.pending = session.pending
  BY DEF IInv, TypeOK, SessionType, PauseForSignal, Observe, AwaitKnowledge, PlanFails, Assess,
     SubmitInput, SubmitRevision, InputSubmitted, Stop, SignalArrives, Crash, KnowledgeChanges,
     PlanOther, DecideApproval, Continue, Reuse, Propose, RefuseStale, Claim, CommitExecute, Start,
     PersistAck, ResumeInterrupted, MarkReconciliation, Evaluate, ResumeDeferred, BeginAwait,
     AwaitAck, AwaitCommit, AwaitDone, ResumeCompletion, CompleteDeferred, ApprovalLapses,
     MarkUncertain, AckRefused, WorkerFinishes
<1>3. world'.effects = world.effects
  BY DEF IInv, TypeOK, WorldType, PauseForSignal, Observe, AwaitKnowledge, PlanFails, Assess,
     SubmitInput, SubmitRevision, InputSubmitted, Stop, SignalArrives, Crash, KnowledgeChanges,
     PlanOther, DecideApproval, Continue, Reuse, Propose, RefuseStale, Claim, CommitExecute, Start,
     PersistAck, ResumeInterrupted, MarkReconciliation, Evaluate, ResumeDeferred, BeginAwait,
     AwaitAck, AwaitCommit, AwaitDone, ResumeCompletion, CompleteDeferred, ApprovalLapses,
     MarkUncertain, AckRefused, WorkerFinishes
<1> QED
  BY <1>1, <1>2, <1>3, IdleOpen, IdleKeeps DEF EffectsIdle, Outline

\* A call is admitted before its effect begins; a plan begins nothing.
LEMMA AdmitIdle == ASSUME IInv, IInv', NEW i \in Plans, Admit(i) PROVE UNCHANGED Outline
<1>1. EffectsIdle
  <2>1. session \in SessionType /\ UNCHANGED <<records, world>>
    BY DEF IInv, TypeOK, Admit
  <2>2. \/ UNCHANGED session
        \/ session' = [session EXCEPT !.state = "stopped"]
        \/ session' = [session EXCEPT !.state = "executing", !.pending = i,
                                      !.dispatched = session.dispatched \cup {i}]
    BY <2>1 DEF Admit, SessionType
  <2> QED
    BY <2>1, <2>2 DEF SessionType, EffectsIdle
<1>2. CASE session'.pending = session.pending
  BY <1>1, <1>2, IdleOpen, IdleKeeps DEF Outline
<1>3. CASE session'.pending # session.pending
  <2>1. session.pending = 0 /\ session'.pending = i /\ UNCHANGED world /\ i # 0
        /\ session.dispatched' = session.dispatched \cup {i} /\ i \notin session.dispatched
    BY <1>3, PlansInIds DEF IInv, TypeOK, SessionType, Admit, KeyDispatched, SameKey, Ids
  <2>2. ~Entered(i)
    BY <2>1 DEF IInv, EffectsAdmitted, Entered
  <2>3. OpenKey' = OpenKey
    BY <2>1, <2>2, OpenIsReserved, OpenIsReservedNext DEF Entered
  <2> QED
    BY <1>1, <2>3, IdleKeeps DEF Outline
<1> QED
  BY <1>2, <1>3

LEMMA PlanIdle ==
    ASSUME IInv, IInv', NEW r \in Requests, NEW keeps \in BOOLEAN, PlanTool(r, keeps)
    PROVE  UNCHANGED Outline
<1>1. /\ records'.plan = Append(records.plan, r) /\ records'.receipts = records.receipts
      /\ UNCHANGED <<session, world>>
  BY DEF IInv, TypeOK, RecordsType, PlanTool
<1>2. /\ records.plan \in Seq(Requests) /\ Plans = 1 .. Len(records.plan)
      /\ Plans' = 1 .. Len(records.plan) + 1 /\ Len(records.plan) \in Nat
      /\ \A i \in Plans : records'.plan[i] = records.plan[i]
  BY <1>1 DEF IInv, TypeOK, RecordsType, Plans
<1>3. /\ \A n \in DOMAIN world.effects : world.effects[n] \in Plans
      /\ \A n \in DOMAIN records.receipts : records.receipts[n].call \in Plans
      /\ session.pending # 0 => session.pending \in Plans
  BY DEF IInv, EffectsAdmitted, AdmittedClaimed, OneClaim, OneReserved, ReceiptsSettled
<1>4. EnteredKeys' = EnteredKeys
  BY <1>1, <1>2, <1>3 DEF EnteredKeys, KeyOf, RequestOf
<1>5. OpenKey' = OpenKey
  BY <1>1, <1>2, <1>3, OpenIsReserved, OpenIsReservedNext DEF Entered, KeyOf, RequestOf
<1>6. SettledKeys' = SettledKeys
  <2>1. \A i \in Ids : session.settled[i] # "none" => i \in Plans
    BY DEF IInv, OneReserved, EffectsAdmitted, Entered, AdmittedClaimed, OneClaim
  <2>2. {i \in Plans' : session.settled[i] # "none"} = {i \in Plans : session.settled[i] # "none"}
    <3>1. Plans' \subseteq Ids
      BY <1>2, ToolConstants DEF IInv, PlansPaid, TypeOK, RecordsType, EnvType, Ids, PlanTool
    <3> QED
      BY <1>2, <2>1, <3>1
  <2> QED
    BY <1>1, <1>2, <2>2 DEF SettledKeys, KeyOf, RequestOf
<1>7. ToldKeys' = ToldKeys
  BY <1>1, <1>2, <1>3 DEF ToldKeys, Told, KeyOf, RequestOf
<1> QED
  BY <1>4, <1>5, <1>6, <1>7 DEF Outline

\* Entering the adapter begins one effect, under a key no effect has used.
LEMMA EnterBegins ==
    ASSUME IInv, IInv', NEW i \in Plans, EnterAdapter(i)
    PROVE  /\ OpenKey = NoKey /\ OpenKey' = KeyOf(i)
           /\ \A n \in DOMAIN EnteredKeys : EnteredKeys[n] # KeyOf(i)
           /\ EnteredKeys' = Append(EnteredKeys, KeyOf(i))
           /\ UNCHANGED <<SettledKeys, ToldKeys>>
<1>1. /\ lock.pc = "started" /\ lock.at = i /\ UNCHANGED <<run, records, session, env>>
      /\ world'.effects = Append(world.effects, i)
  <2>1. \E outcome \in Final \cup {"running"} :
           world' = [effects |-> Append(world.effects, i),
                     outcome |-> [world.outcome EXCEPT ![i] = outcome]]
    BY DEF EnterAdapter
  <2>2. world'.effects = Append(world.effects, i)
    BY <2>1
  <2>3. lock.pc = "started" /\ lock.at = i /\ UNCHANGED <<run, records, session, env>>
    BY DEF EnterAdapter, At
  <2> QED
    BY <2>2, <2>3
<1>2. i \in Ids /\ i # 0 /\ world.effects \in Seq(Ids)
  BY PlansInIds DEF Ids, IInv, TypeOK, WorldType
<1>3. session.pending = i /\ ~Entered(i) /\ i \in session.dispatched
  BY <1>1, <1>2 DEF IInv, LockFits, OneReserved, EffectsAdmitted
<1>4. /\ DOMAIN world'.effects = 1 .. Len(world.effects) + 1 /\ Len(world.effects) \in Nat
      /\ DOMAIN world.effects = 1 .. Len(world.effects)
      /\ world'.effects[Len(world.effects) + 1] = i
      /\ \A n \in DOMAIN world.effects : world'.effects[n] = world.effects[n]
  BY <1>1, <1>2
<1>5. \A n \in DOMAIN world.effects : world.effects[n] \in records.claims /\ world.effects[n] \in Plans
  BY DEF IInv, EffectsAdmitted, AdmittedClaimed, OneClaim
<1>6. \A n \in DOMAIN EnteredKeys : EnteredKeys[n] # KeyOf(i)
  <2>1. ASSUME NEW n \in DOMAIN world.effects, KeyOf(world.effects[n]) = KeyOf(i) PROVE FALSE
    <3>1. SameKey(world.effects[n], i)
      BY <1>5, <2>1, KeysTyped
    <3>2. world.effects[n] = i
      BY <1>3, <1>5, <3>1 DEF IInv, OneClaim, AdmittedClaimed
    <3> QED
      BY <1>3, <3>2 DEF Entered
  <2> QED
    BY <2>1 DEF EnteredKeys
<1>7. OpenKey = NoKey
  BY <1>3, OpenIsReserved
<1>8. OpenKey' = KeyOf(i)
  <2>1. \E n \in DOMAIN world'.effects : world'.effects[n] = i
    BY <1>4
  <2> QED
    BY <1>1, <1>2, <1>3, <2>1, OpenIsReservedNext DEF KeyOf, RequestOf
<1>9. EnteredKeys' = Append(EnteredKeys, KeyOf(i))
  <2>1. EnteredKeys \in Seq(KeySet) /\ Len(EnteredKeys) = Len(world.effects)
    BY <1>4, <1>5, KeysTyped DEF EnteredKeys
  <2>2. KeyOf(i) \in KeySet
    BY KeysTyped
  <2>3. /\ Append(EnteredKeys, KeyOf(i)) \in Seq(KeySet)
        /\ Len(Append(EnteredKeys, KeyOf(i))) = Len(world.effects) + 1
        /\ \A n \in 1 .. Len(world.effects) : Append(EnteredKeys, KeyOf(i))[n] = EnteredKeys[n]
        /\ Append(EnteredKeys, KeyOf(i))[Len(world.effects) + 1] = KeyOf(i)
    BY <2>1, <2>2, AppendProperties
  <2>4. EnteredKeys' = [n \in 1 .. Len(world.effects) + 1 |-> KeyOf(world'.effects[n])]
    BY <1>1, <1>4 DEF EnteredKeys, KeyOf, RequestOf
  <2>5. /\ EnteredKeys' \in Seq(KeySet) /\ Len(EnteredKeys') = Len(world.effects) + 1
        /\ \A n \in 1 .. Len(world.effects) : EnteredKeys'[n] = EnteredKeys[n]
        /\ EnteredKeys'[Len(world.effects) + 1] = KeyOf(i)
    <3>1. \A n \in 1 .. Len(world.effects) + 1 : KeyOf(world'.effects[n]) \in KeySet
      BY <1>4, <1>5, <2>2, KeysTyped
    <3> QED
      BY <1>4, <2>4, <3>1 DEF EnteredKeys
  <2>6. \A n \in 1 .. Len(world.effects) + 1 : EnteredKeys'[n] = Append(EnteredKeys, KeyOf(i))[n]
    BY <1>4, <2>3, <2>5
  <2> QED
    BY <2>3, <2>5, <2>6, SeqEqual
<1>10. UNCHANGED <<SettledKeys, ToldKeys>>
  BY <1>1 DEF SettledKeys, ToldKeys, Told, KeyOf, RequestOf, Plans
<1> QED
  BY <1>6, <1>7, <1>8, <1>9, <1>10

\* A terminal receipt of the session settles the open effect with its outcome.
LEMMA SettleSettles ==
    ASSUME IInv, IInv', UNCHANGED <<records, world>>, NEW i \in Plans, session.pending = i,
           world.outcome[i] \in Final, session' = SettledSession(i, world.outcome[i])
    PROVE  /\ OpenKey = KeyOf(i) /\ OpenKey # NoKey /\ OpenKey' = NoKey
           /\ SettledKeys' = SettledKeys \cup {[key |-> OpenKey, result |-> world.outcome[i]]}
           /\ UNCHANGED <<EnteredKeys, ToldKeys>>
<1>1. i \in Ids /\ i # 0 /\ Entered(i) /\ session.settled[i] = "none"
  BY PlansInIds DEF Ids, IInv, EffectsAdmitted, OneReserved, Final
<1>2. OpenKey = KeyOf(i) /\ OpenKey # NoKey
  BY <1>1, OpenIsReserved, KeysTyped
<1>3. /\ session'.pending = 0
      /\ session'.settled = [session.settled EXCEPT ![i] = world.outcome[i]]
  BY DEF IInv, TypeOK, SessionType, SettledSession
<1>4. OpenKey' = NoKey
  BY <1>3, OpenIsReservedNext
<1>5. SettledKeys' = SettledKeys \cup {[key |-> KeyOf(i), result |-> world.outcome[i]]}
  <2>1. /\ session'.settled[i] = world.outcome[i] /\ world.outcome[i] # "none"
        /\ \A j \in Plans \ {i} : session'.settled[j] = session.settled[j]
    BY <1>1, <1>3, PlansInIds DEF IInv, TypeOK, SessionType, Final
  <2>2. \A j \in Plans : KeyOf(j)' = KeyOf(j)
    BY DEF KeyOf, RequestOf
  <2>3. Plans' = Plans
    BY DEF Plans
  <2> QED
    BY <1>1, <2>1, <2>2, <2>3 DEF SettledKeys
<1>6. UNCHANGED <<EnteredKeys, ToldKeys>>
  BY DEF EnteredKeys, ToldKeys, Told, KeyOf, RequestOf
<1> QED
  BY <1>2, <1>4, <1>5, <1>6

\* A receipt in the Run's ledger tells a settled result, or leaves it unknown.
LEMMA ReceiptTells ==
    ASSUME IInv, IInv', UNCHANGED <<session, world>>, NEW i \in Plans,
           NEW result \in Final \cup {"unknown"}, Recorded(i, result),
           result \in Final => session.settled[i] = result
    PROVE  /\ UNCHANGED <<EnteredKeys, OpenKey, SettledKeys>>
           /\ \/ UNCHANGED ToldKeys
              \/ \E t \in SettledKeys \ ToldKeys : ToldKeys' = ToldKeys \cup {t}
<1>1. /\ records'.plan = records.plan
      /\ records'.receipts = Append(records.receipts, [call |-> i, result |-> result])
  BY DEF IInv, TypeOK, RecordsType, Recorded, Receipt
<1>2. UNCHANGED <<EnteredKeys, SettledKeys>>
  BY <1>1 DEF EnteredKeys, SettledKeys, KeyOf, RequestOf, Plans
<1>3. UNCHANGED OpenKey
  BY <1>1, OpenIsReserved, OpenIsReservedNext DEF Entered, KeyOf, RequestOf
<1>4. /\ DOMAIN records'.receipts = 1 .. Len(records.receipts) + 1
      /\ DOMAIN records.receipts = 1 .. Len(records.receipts) /\ Len(records.receipts) \in Nat
      /\ records'.receipts[Len(records.receipts) + 1].call = i
      /\ records'.receipts[Len(records.receipts) + 1].result = result
      /\ \A n \in DOMAIN records.receipts : records'.receipts[n] = records.receipts[n]
  <2>1. i \in Ids
    BY PlansInIds
  <2>2. /\ records.receipts \in Seq([call : Ids, result : Final \cup {"unknown"}])
        /\ [call |-> i, result |-> result] \in [call : Ids, result : Final \cup {"unknown"}]
    BY <2>1 DEF IInv, TypeOK, RecordsType
  <2> QED
    BY <1>1, <2>2
<1>5. CASE result \notin Final
  <2>1. Told' = Told
    BY <1>4, <1>5 DEF Told
  <2>2. ToldKeys' = ToldKeys
    BY <1>1, <1>4, <2>1 DEF ToldKeys, Told, KeyOf, RequestOf
  <2> QED
    BY <1>2, <1>3, <2>2
<1>6. CASE result \in Final
  <2> DEFINE t == [key |-> KeyOf(i), result |-> result]
  <2>1. t \in SettledKeys
    BY <1>6 DEF SettledKeys, Final
  <2>2. Told' = Told \cup {Len(records.receipts) + 1}
    BY <1>4, <1>6 DEF Told
  <2>3. ToldKeys' = ToldKeys \cup {t}
    BY <1>1, <1>4, <2>2 DEF ToldKeys, Told, KeyOf, RequestOf
  <2> HIDE DEF t
  <2>4. t \in ToldKeys => ToldKeys' = ToldKeys
    BY <2>3
  <2> QED
    BY <1>2, <1>3, <2>1, <2>3, <2>4
<1> QED
  BY <1>5, <1>6

\* What an abstract step looks like through the mapping.
LEMMA Abstractly ==
    ASSUME IInv,
           \/ UNCHANGED Outline
           \/ \E i \in Plans :
                /\ OpenKey = NoKey /\ OpenKey' = KeyOf(i)
                /\ \A n \in DOMAIN EnteredKeys : EnteredKeys[n] # KeyOf(i)
                /\ EnteredKeys' = Append(EnteredKeys, KeyOf(i))
                /\ UNCHANGED <<SettledKeys, ToldKeys>>
           \/ \E result \in Final :
                /\ OpenKey # NoKey /\ OpenKey' = NoKey
                /\ SettledKeys' = SettledKeys \cup {[key |-> OpenKey, result |-> result]}
                /\ UNCHANGED <<EnteredKeys, ToldKeys>>
           \/ /\ \E t \in SettledKeys \ ToldKeys : ToldKeys' = ToldKeys \cup {t}
              /\ UNCHANGED <<EnteredKeys, OpenKey, SettledKeys>>
    PROVE  [Effects!Next]_(Effects!evars)
<1>1. CASE UNCHANGED Outline
  BY <1>1 DEF Outline, Effects!evars
<1>2. ASSUME NEW i \in Plans, OpenKey = NoKey, OpenKey' = KeyOf(i),
             \A n \in DOMAIN EnteredKeys : EnteredKeys[n] # KeyOf(i),
             EnteredKeys' = Append(EnteredKeys, KeyOf(i)), UNCHANGED <<SettledKeys, ToldKeys>>
      PROVE  Effects!Next
  <2>1. KeyOf(i) \in [request : Requests, plan : 0 .. MaxDecisions]
    BY KeysTyped DEF KeySet
  <2>2. Effects!Begin(KeyOf(i))
    BY <1>2 DEF Effects!Begin, Effects!Used
  <2> QED
    BY <2>1, <2>2 DEF Effects!Next
<1>3. ASSUME NEW result \in Final, OpenKey # NoKey, OpenKey' = NoKey,
             SettledKeys' = SettledKeys \cup {[key |-> OpenKey, result |-> result]},
             UNCHANGED <<EnteredKeys, ToldKeys>>
      PROVE  Effects!Next
  <2>1. Effects!Settle(result)
    BY <1>3 DEF Effects!Settle
  <2> QED
    BY <2>1 DEF Effects!Next
<1>4. ASSUME NEW t \in SettledKeys \ ToldKeys, ToldKeys' = ToldKeys \cup {t},
             UNCHANGED <<EnteredKeys, OpenKey, SettledKeys>>
      PROVE  Effects!Next
  <2>1. Effects!Tell(t)
    BY <1>4 DEF Effects!Tell
  <2> QED
    BY <2>1 DEF Effects!Next
<1> QED
  BY <1>1, <1>2, <1>3, <1>4

LEMMA RecordImplements ==
    ASSUME IInv, IInv', NEW i \in Plans, RecordResult(i) \/ RecordResolved(i) \/ Project(i)
    PROVE  [Effects!Next]_(Effects!evars)
<1>1. UNCHANGED <<session, world>>
  BY DEF RecordResult, RecordResolved, Project
<1>2. CASE UNCHANGED records
  BY <1>1, <1>2, IdleOpen, IdleKeeps, Abstractly DEF EffectsIdle, Outline
<1>3. ASSUME NEW result \in Final \cup {"unknown"}, Recorded(i, result),
             result \in Final => session.settled[i] = result
      PROVE  [Effects!Next]_(Effects!evars)
  BY <1>1, <1>3, ReceiptTells, Abstractly DEF Outline
<1>4. CASE RecordResult(i)
  <2>1. /\ lock.result \in Final \cup {"unknown", "raised", "deferred"}
        /\ lock.result \in Final => session.settled[i] = lock.result
    BY <1>4 DEF RecordResult, At, IInv, LockFits, TypeOK, LockType
  <2>2. \/ UNCHANGED records
        \/ lock.result \in Final \cup {"unknown"} /\ Recorded(i, lock.result)
    BY <1>4, <2>1 DEF RecordResult
  <2> QED
    BY <1>2, <1>3, <2>1, <2>2
<1>5. CASE RecordResolved(i) \/ Project(i)
  <2>1. session.settled[i] = world.outcome[i] /\ world.outcome[i] \in Final
    BY <1>5, PlansInIds DEF RecordResolved, Project, At, IInv, LockFits, OneReserved, TypeOK, SessionType
  <2>2. UNCHANGED records \/ Recorded(i, world.outcome[i])
    BY <1>5 DEF RecordResolved, Project
  <2> QED
    BY <1>2, <1>3, <2>1, <2>2
<1> QED
  BY <1>4, <1>5

LEMMA SettleImplements ==
    ASSUME IInv, IInv', NEW i \in Plans, PersistResult(i) \/ Settle(i) \/ ResolveReconciliation(i)
    PROVE  [Effects!Next]_(Effects!evars)
<1>1. UNCHANGED <<records, world>>
  BY DEF PersistResult, Settle, ResolveReconciliation
<1>2. CASE session'.settled = session.settled /\ session'.pending = session.pending
  BY <1>1, <1>2, IdleOpen, IdleKeeps, Abstractly DEF EffectsIdle, Outline
<1>3. CASE /\ session.pending = i /\ world.outcome[i] \in Final
           /\ session' = SettledSession(i, world.outcome[i])
  BY <1>1, <1>3, SettleSettles, Abstractly
<1>4. CASE PersistResult(i)
  <2>1. session.pending = i /\ (lock.result \in Final => lock.result = world.outcome[i])
    BY <1>4 DEF PersistResult, At, IInv, LockFits
  <2>2. \/ lock.result \in Final /\ session' = SettledSession(i, lock.result)
        \/ session' \in {[session EXCEPT !.deferred = TRUE],
                         [session EXCEPT !.state = "awaiting_reconciliation"]}
    BY <1>4 DEF PersistResult
  <2>3. CASE lock.result \in Final /\ session' = SettledSession(i, lock.result)
    BY <1>3, <2>1, <2>3
  <2>4. CASE session' \in {[session EXCEPT !.deferred = TRUE],
                           [session EXCEPT !.state = "awaiting_reconciliation"]}
    BY <1>2, <2>4 DEF IInv, TypeOK, SessionType
  <2> QED
    BY <2>2, <2>3, <2>4
<1>5. CASE Settle(i)
  <2>1. world.outcome[i] \in Final
    BY <1>5 DEF Settle, At, IInv, LockFits, EffectsAdmitted
  <2> QED
    BY <1>2, <1>3, <1>5, <2>1 DEF Settle
<1>6. CASE ResolveReconciliation(i)
  BY <1>3, <1>6 DEF ResolveReconciliation, MayResolve
<1> QED
  BY <1>4, <1>5, <1>6

LEMMA StepImplements == IInv /\ IInv' /\ [Next]_vars => [Effects!Next]_(Effects!evars)
<1> SUFFICES ASSUME IInv, IInv', [Next]_vars PROVE [Effects!Next]_(Effects!evars)
  OBVIOUS
<1>1. CASE UNCHANGED Outline
  BY <1>1, Abstractly
<1>2. CASE \E r \in Requests, keeps \in BOOLEAN : PlanTool(r, keeps)
  BY <1>1, <1>2, PlanIdle
<1>3. CASE \E i \in Plans : Admit(i)
  BY <1>1, <1>3, AdmitIdle
<1>4. CASE \E i \in Plans : EnterAdapter(i)
  BY <1>4, EnterBegins, Abstractly
<1>5. CASE \E i \in Plans : RecordResult(i) \/ RecordResolved(i) \/ Project(i)
  BY <1>5, RecordImplements
<1>6. CASE \E i \in Plans : PersistResult(i) \/ Settle(i) \/ ResolveReconciliation(i)
  BY <1>6, SettleImplements
<1>7. CASE UNCHANGED vars
  BY <1>1, <1>7, IdleOpen, IdleKeeps DEF vars, EffectsIdle, Outline
<1>8. CASE Planning
  BY <1>1, <1>2, <1>8, IdleSteps DEF Planning
<1>9. CASE Dispatching
  BY <1>1, <1>3, <1>4, <1>5, <1>6, <1>9, IdleSteps DEF Dispatching
<1>10. CASE Recovering
  BY <1>1, <1>5, <1>6, <1>10, IdleSteps DEF Recovering
<1>11. CASE Human
  BY <1>1, <1>11, IdleSteps DEF Human
<1>12. CASE Faulty \/ \E i \in Plans : WorkerFinishes(i)
  BY <1>1, <1>12, IdleSteps DEF Faulty
<1> QED
  BY <1>7, <1>8, <1>9, <1>10, <1>11, <1>12 DEF Next

\* Through every crash, retry and lost answer a Run's tool calls keep the abstract
\* ledger's promise: one effect at a time, one per idempotency key, settled once,
\* and the Run's own records tell the settled results and no others
\* (_dispatch_tool, _record_receipt, _record_tool_result, resolve_reconciliation).
THEOREM EffectsImplemented == Spec => ImplementsEffects
<1>1. Init => Effects!Init
  <2> SUFFICES ASSUME Init PROVE Effects!Init
    OBVIOUS
  <2>1. EnteredKeys = <<>> /\ ToldKeys = {}
    BY DEF Init, EnteredKeys, ToldKeys, Told
  <2>2. OpenKey = NoKey /\ SettledKeys = {}
    BY DEF Init, OpenKey, Unsettled, SettledKeys, Plans
  <2> QED
    BY <2>1, <2>2 DEF Effects!Init
<1>2. Spec => []IInv
  BY InitIInv, NextIInv, PTL DEF Spec
<1> QED
  BY <1>1, <1>2, StepImplements, PTL DEF Spec, ImplementsEffects, Effects!Spec

-----------------------------------------------------------------------------
(* What the abstract ledger promises, carried down to the Run *)

AllKeys == [request : Requests, plan : 0 .. MaxDecisions]

\* The promises alone are not inductive: settling needs to know that the open key
\* was not answered before.
Promise ==
    /\ Effects!TypeOK /\ Effects!AtMostOnce /\ Effects!OneAnswer
    /\ OpenKey # NoKey => Effects!Used(OpenKey)

\* Beginning an effect keeps the keys used before and adds that one.
LEMMA AppendUses ==
    ASSUME Effects!TypeOK, NEW k \in AllKeys, EnteredKeys' = Append(EnteredKeys, k)
    PROVE  /\ Effects!Used(k)'
           /\ \A j : Effects!Used(j) => \E n \in DOMAIN EnteredKeys' : EnteredKeys'[n] = j
           /\ ~Effects!Used(k) /\ Effects!AtMostOnce => Effects!AtMostOnce'
<1>1. /\ EnteredKeys \in Seq(AllKeys)
      /\ DOMAIN EnteredKeys = 1 .. Len(EnteredKeys)
      /\ DOMAIN EnteredKeys' = 1 .. Len(EnteredKeys) + 1
      /\ EnteredKeys'[Len(EnteredKeys) + 1] = k
      /\ \A n \in DOMAIN EnteredKeys : EnteredKeys'[n] = EnteredKeys[n]
  BY DEF Effects!TypeOK, AllKeys
<1>2. Effects!Used(k)'
  BY <1>1 DEF Effects!Used
<1>3. \A j : Effects!Used(j) => \E n \in DOMAIN EnteredKeys' : EnteredKeys'[n] = j
  BY <1>1 DEF Effects!Used
<1>4. ASSUME ~Effects!Used(k), Effects!AtMostOnce PROVE Effects!AtMostOnce'
  BY <1>1, <1>4 DEF Effects!Used, Effects!AtMostOnce
<1> QED
  BY <1>2, <1>3, <1>4

\* Every step of the contract keeps its promises.
LEMMA PromiseKept == Promise /\ [Effects!Next]_(Effects!evars) => Promise'
<1> SUFFICES ASSUME Promise, [Effects!Next]_(Effects!evars) PROVE Promise'
  OBVIOUS
<1> USE DEF Promise
<1>1. ASSUME NEW k \in AllKeys, Effects!Begin(k) PROVE Promise'
  <2>1. /\ EnteredKeys' = Append(EnteredKeys, k) /\ ~Effects!Used(k) /\ OpenKey' = k
        /\ SettledKeys' = SettledKeys /\ ToldKeys' = ToldKeys
    BY <1>1 DEF Effects!Begin
  <2>2. /\ Effects!Used(k)' /\ Effects!AtMostOnce'
        /\ \A j : Effects!Used(j) => \E n \in DOMAIN EnteredKeys' : EnteredKeys'[n] = j
    BY <2>1, AppendUses
  <2>3. Effects!TypeOK'
    BY <2>1 DEF Effects!TypeOK, AllKeys
  <2>4. Effects!OneAnswer'
    BY <2>1, <2>2 DEF Effects!OneAnswer, Effects!Used
  <2>5. (OpenKey # NoKey => Effects!Used(OpenKey))'
    BY <2>1, <2>2 DEF Effects!Used
  <2> QED
    BY <2>2, <2>3, <2>4, <2>5
<1>2. ASSUME NEW r \in Final, Effects!Settle(r) PROVE Promise'
  <2>1. /\ OpenKey # NoKey /\ SettledKeys' = SettledKeys \cup {[key |-> OpenKey, result |-> r]}
        /\ OpenKey' = NoKey /\ EnteredKeys' = EnteredKeys /\ ToldKeys' = ToldKeys
    BY <1>2 DEF Effects!Settle
  <2>2. Effects!TypeOK' /\ Effects!AtMostOnce'
    BY <2>1 DEF Effects!TypeOK, Effects!AtMostOnce
  <2>3. Effects!OneAnswer'
    BY <2>1 DEF Effects!OneAnswer, Effects!Used
  <2> QED
    BY <2>1, <2>2, <2>3
<1>3. ASSUME NEW s \in SettledKeys, Effects!Tell(s) PROVE Promise'
  BY <1>3 DEF Effects!Tell, Effects!TypeOK, Effects!AtMostOnce, Effects!OneAnswer, Effects!Used
<1>4. CASE UNCHANGED Effects!evars
  BY <1>4 DEF Effects!evars, Effects!TypeOK, Effects!AtMostOnce, Effects!OneAnswer, Effects!Used
<1> QED
  BY <1>1, <1>2, <1>3, <1>4 DEF Effects!Next, AllKeys

\* Whatever a Run does, its effects, read as the abstract ledger, keep the ledger's
\* promises: one effect per key, one answer per key, none for an open one.
THEOREM PromisesHold == Spec => [](Effects!AtMostOnce /\ Effects!OneAnswer)
<1>1. Effects!Init => Promise
  BY DEF Effects!Init, Promise, Effects!TypeOK, Effects!AtMostOnce, Effects!OneAnswer
<1>2. Promise /\ [Effects!Next]_(Effects!evars) => Promise'
  BY PromiseKept
<1>3. Promise => Effects!AtMostOnce /\ Effects!OneAnswer
  BY DEF Promise
<1> QED
  BY <1>1, <1>2, <1>3, EffectsImplemented, PTL DEF ImplementsEffects, Effects!Spec

OneEffectPerKey ==
    \A m, n \in DOMAIN world.effects :
        KeyOf(world.effects[m]) = KeyOf(world.effects[n]) => m = n

\* Over the whole life of a Run an idempotency key (_idempotency_key) buys at most
\* one entry of an adapter.
THEOREM KeyBuysOneEffect == Spec => []OneEffectPerKey
<1>1. Effects!AtMostOnce => OneEffectPerKey
  BY DEF Effects!AtMostOnce, OneEffectPerKey, EnteredKeys
<1> QED
  BY <1>1, PromisesHold, PTL

OneAnswerPerKey ==
    \A m, n \in Told :
        KeyOf(records.receipts[m].call) = KeyOf(records.receipts[n].call) =>
            records.receipts[m].result = records.receipts[n].result

\* Whatever receipts a Run records under one key (_record_tool_result, and
\* reusable_tool_receipt, which reads them) tell the same terminal result.
THEOREM ReceiptsAgree == Spec => []OneAnswerPerKey
<1>1. IInv => OneAnswerPerKey
  <2> SUFFICES ASSUME IInv, NEW m \in Told, NEW n \in Told,
                      KeyOf(records.receipts[m].call) = KeyOf(records.receipts[n].call)
               PROVE  records.receipts[m].result = records.receipts[n].result
    BY DEF OneAnswerPerKey
  <2> DEFINE i == records.receipts[m].call
             j == records.receipts[n].call
  <2>1. /\ i \in Plans /\ session.settled[i] = records.receipts[m].result
        /\ j \in Plans /\ session.settled[j] = records.receipts[n].result
        /\ session.settled[i] # "none" /\ session.settled[j] # "none"
    BY DEF IInv, ReceiptsSettled, Told, Final
  <2>2. SameKey(i, j)
    BY <2>1, KeysTyped
  <2>3. i \in records.claims /\ j \in records.claims
    BY <2>1, PlansInIds DEF IInv, OneReserved, EffectsAdmitted, Entered, AdmittedClaimed
  <2> QED
    BY <2>1, <2>2, <2>3 DEF IInv, OneClaim
<1> QED
  BY <1>1, InitIInv, NextIInv, PTL DEF Spec
=============================================================================
