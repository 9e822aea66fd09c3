---------------------------- MODULE AgentRunTools -----------------------------
(***************************************************************************)
(* One Run's tool calls (MarketingAgentService, agent/service/             *)
(* application.py): from a planned request through approval, idempotency   *)
(* claim, durable execution, receipt and evaluation, with deferred         *)
(* operations, human inputs, and a crash between any two commits.          *)
(*                                                                         *)
(* All of it runs under the Run's lock, so one handler is in progress at a *)
(* time; lock holds what that handler keeps in memory between commits.     *)
(* Three stores are written by separate transactions: the Run's ledger     *)
(* (run, records), the idempotency claims and the runtime session.  The    *)
(* session is the one RuntimeSession models event by event; here it is the *)
(* checkpoint its events derive.  An invocation is numbered by the plan it *)
(* comes from (the code names it by the revision that plan committed).     *)
(***************************************************************************)
EXTENDS Naturals, Sequences, FiniteSets

CONSTANTS
    Requests,       \* tool and input the planner may choose
    NeedsApproval,  \* requests whose descriptor requires a human approval
    Observes,       \* side-effect free requests: a new key for every plan
    Deferring,      \* requests whose adapter answers with a deferred operation
    MaxToolCalls,   \* run.budget.max_tool_calls
    MaxDecisions,   \* policy's provider calls of the task
    MaxInputs,      \* human inputs and signals (model bound)
    MaxFaults,      \* crashes, lapses and stale knowledge (model bound)
    NoKey

ASSUME ToolConstants ==
    /\ NeedsApproval \subseteq Requests
    /\ Observes \subseteq Requests
    /\ Deferring \subseteq Requests \ Observes
    /\ MaxToolCalls \in Nat
    /\ MaxDecisions \in Nat
    /\ NoKey \notin [request : Requests, plan : 0 .. MaxDecisions]

VARIABLES
    run,        \* the Run: state, last step and what it is about
    records,    \* the Run's other records, derived by kind
    session,    \* the runtime session's checkpoint and its settled calls
    lock,       \* the handler in progress under the Run's lock
    world,      \* outside: effects begun, and what became of them
    env         \* inputs and faults that arrive at any time

vars == <<run, records, session, lock, world, env>>

Ids == 1 .. MaxDecisions
Final == {"succeeded", "failed"}
States == {"created", "running", "awaiting_input", "awaiting_approval", "awaiting_tool",
           "awaiting_reconciliation", "blocked", "stopped", "completed"}
Kinds == {"NONE", "OBSERVE", "PLAN", "APPROVE", "EXECUTE", "VERIFY", "EVALUATE", "STOP"}

RunType == [state : States, last : Kinds, subject : 0 .. MaxDecisions,
            target : 0 .. MaxDecisions, next : {"plan", "assess"}]
RecordsType == [plan : Seq(Requests), invocations : SUBSET Ids, pending : 0 .. MaxDecisions,
                approval : [Ids -> {"none", "granted", "rejected"}],
                acks : SUBSET Ids, completions : SUBSET Ids,
                receipts : Seq([call : Ids, result : Final \cup {"unknown"}]),
                claims : SUBSET Ids, steer : [Ids -> {"none", "pause", "revise"}]]
SessionType == [state : {"created", "executing", "awaiting_reconciliation", "stopped"},
                pending : 0 .. MaxDecisions, started : BOOLEAN, deferred : BOOLEAN,
                dispatched : SUBSET Ids, settled : [Ids -> Final \cup {"none"}]]
LockType == [pc : {"idle", "planning", "claimed", "committed", "admitted", "started",
                   "deferring", "returned", "recorded", "mark", "await", "settle",
                   "project", "resolved", "revised"},
             at : 0 .. MaxDecisions,
             result : Final \cup {"none", "unknown", "raised", "deferred"},
             goal : {"none", "drive", "complete", "uncertain"}]
WorldType == [effects : Seq(Ids), outcome : [Ids -> Final \cup {"none", "running"}]]
EnvType == [fresh : BOOLEAN, signal : BOOLEAN, lapsed : SUBSET Ids,
            decisions : Nat, faults : Nat, inputs : Nat]

TypeOK ==
    /\ run \in RunType /\ records \in RecordsType /\ session \in SessionType
    /\ lock \in LockType /\ world \in WorldType /\ env \in EnvType

Idle == [pc |-> "idle", at |-> 0, result |-> "none", goal |-> "none"]

Init ==
    /\ run = [state |-> "created", last |-> "NONE", subject |-> 0, target |-> 0, next |-> "plan"]
    /\ records = [plan |-> <<>>, invocations |-> {}, pending |-> 0,
                  approval |-> [i \in Ids |-> "none"], acks |-> {}, completions |-> {},
                  receipts |-> <<>>, claims |-> {}, steer |-> [i \in Ids |-> "none"]]
    /\ session = [state |-> "created", pending |-> 0, started |-> FALSE, deferred |-> FALSE,
                  dispatched |-> {}, settled |-> [i \in Ids |-> "none"]]
    /\ lock = Idle
    /\ world = [effects |-> <<>>, outcome |-> [i \in Ids |-> "none"]]
    /\ env = [fresh |-> TRUE, signal |-> FALSE, lapsed |-> {},
              decisions |-> 0, faults |-> 0, inputs |-> 0]

-----------------------------------------------------------------------------
(* Vocabulary *)

AtRest == lock.pc = "idle"
Yield == lock' = Idle
At(pc, i) == lock.pc = pc /\ lock.at = i
Goto(pc, i) == lock' = [lock EXCEPT !.pc = pc, !.at = i]

Plans == DOMAIN records.plan
RequestOf(i) == records.plan[i]

\* _idempotency_key: an observation's key is its plan's own, any other request
\* has one key for the whole Run.
SameKey(i, j) == i = j \/ (RequestOf(i) = RequestOf(j) /\ RequestOf(i) \notin Observes)

\* append_step and task_at_boundary: a step about invocation i; leaving "running"
\* forgets that an assessment was due.
Step(kind, i, state) ==
    [run EXCEPT !.last = kind, !.subject = i, !.state = state,
                !.next = IF state = "running" THEN @ ELSE "plan"]

\* An EXECUTE step also names the invocation a recovery will resume.
Executed(i, state) == [Step("EXECUTE", i, state) EXCEPT !.target = i]

HasReceipt(i) == \E n \in DOMAIN records.receipts : records.receipts[n].call = i

Receipt(i, result) == Append(records.receipts, [call |-> i, result |-> result])

\* pending_approval: a receipt or a decision about the proposal ends it.
PendingAfter(i) == IF records.pending = i THEN 0 ELSE records.pending

\* _approval_for_invocation
ApprovalValid(i) ==
    RequestOf(i) \in NeedsApproval =>
        records.approval[i] = "granted" /\ i \notin env.lapsed

\* _pause_for_signal: steering waits while the session holds an admitted call.
CanPause == env.signal /\ session.pending = 0

KeyDispatched(i) == \E j \in session.dispatched : SameKey(i, j)

\* _resume_execution: the call was dispatched and may have reached the adapter.
Interrupted(i) ==
    /\ KeyDispatched(i)
    /\ session.pending = 0 \/ session.started \/ session.state = "awaiting_reconciliation"

-----------------------------------------------------------------------------
(* _advance, _plan and _assess_completion *)

MayPlan ==
    /\ AtRest
    /\ run.state \in {"created", "running"}
    /\ run.last \notin {"EXECUTE", "VERIFY", "APPROVE"}
    /\ run.next = "plan" /\ run.last # "PLAN"

MayAssess ==
    /\ AtRest
    /\ run.state = "running"
    /\ run.last \notin {"EXECUTE", "VERIFY", "APPROVE"}
    /\ run.next = "assess"

\* Mutated form: a planned request is dispatched whatever its approval policy.
DispatchesUnapproved(i) ==
    /\ AtRest /\ run.state = "running"
    /\ \/ run.last = "PLAN" /\ run.next = "plan" /\ run.subject = i
       \/ run.last = "APPROVE" /\ run.subject = i /\ ApprovalValid(i)
       \/ run.last = "EXECUTE" /\ run.target = i /\ i \notin records.acks
          /\ ~Interrupted(i) /\ ApprovalValid(i)

\* The invocation the next advance hands to _dispatch_tool.
Dispatches(i) ==
    /\ AtRest /\ run.state = "running"
    /\ \/ run.last = "PLAN" /\ run.next = "plan" /\ run.subject = i
          /\ RequestOf(i) \notin NeedsApproval
       \/ run.last = "APPROVE" /\ run.subject = i /\ ApprovalValid(i)
       \/ run.last = "EXECUTE" /\ run.target = i /\ i \notin records.acks
          /\ ~Interrupted(i) /\ ApprovalValid(i)

PauseForSignal ==
    /\ CanPause
    /\ MayPlan \/ MayAssess \/ \E i \in Plans : Dispatches(i)
    /\ run' = Step("OBSERVE", 0, "awaiting_input")
    /\ env' = [env EXCEPT !.signal = FALSE]
    /\ UNCHANGED <<records, session, lock, world>>

\* _plan up to the observation: knowledge is prepared, a provider call reserved.
Observe ==
    /\ MayPlan /\ ~CanPause
    /\ IF env.decisions < MaxDecisions
       THEN /\ run' = Step("OBSERVE", 0, "running")
            /\ env' = [env EXCEPT !.fresh = TRUE, !.decisions = @ + 1]
            /\ Goto("planning", 0)
       ELSE /\ run' = Step("EVALUATE", 0, "blocked")
            /\ UNCHANGED <<env, lock>>
    /\ UNCHANGED <<records, session, world>>

\* prepare() finds required knowledge or a brand missing.
AwaitKnowledge ==
    /\ MayPlan /\ ~CanPause
    /\ run' = Step("OBSERVE", 0, "awaiting_input")
    /\ UNCHANGED <<records, session, lock, world, env>>

\* The planner chooses a tool: the snapshot offers none once the calls are spent.
PlanTool(r, keepsProposal) ==
    /\ lock.pc = "planning"
    /\ Cardinality(records.invocations) < MaxToolCalls
    /\ records' = [records EXCEPT !.plan = Append(@, r),
                                  !.pending = IF keepsProposal THEN @ ELSE 0]
    /\ run' = Step("PLAN", Len(records.plan) + 1, "running")
    /\ Yield
    /\ UNCHANGED <<session, world, env>>

\* The planner answers, asks, or returns to a proposal it keeps.
PlanOther(keepsProposal) ==
    /\ lock.pc = "planning"
    /\ records' = [records EXCEPT !.pending = IF keepsProposal THEN @ ELSE 0]
    /\ \/ run' = [Step("PLAN", 0, "running") EXCEPT !.next = "assess"]
       \/ run' = Step("PLAN", 0, "awaiting_input")
       \/ keepsProposal /\ records.pending # 0 /\ run' = Step("PLAN", 0, "awaiting_approval")
    /\ Yield
    /\ UNCHANGED <<session, world, env>>

\* The decision is invalid, over budget or bound to other knowledge than prepared.
PlanFails ==
    /\ lock.pc = "planning"
    /\ run' \in {Step("OBSERVE", 0, "running"), Step("OBSERVE", 0, "awaiting_input"),
                 Step("EVALUATE", 0, "blocked")}
    /\ Yield
    /\ UNCHANGED <<records, session, world, env>>

Assess ==
    /\ MayAssess /\ ~CanPause
    /\ run' \in {Step("EVALUATE", 0, s) : s \in {"completed", "awaiting_input", "blocked"}}
               \cup {[Step("EVALUATE", 0, "running") EXCEPT !.next = "plan"]}
    /\ UNCHANGED <<records, session, lock, world, env>>

-----------------------------------------------------------------------------
(* _execute_tool and _dispatch_tool up to the EXECUTE commit *)

Planned(i) == AtRest /\ run.state = "running" /\ run.last = "PLAN" /\ run.next = "plan"
              /\ run.subject = i

\* reusable_tool_receipt: an earlier verified success of the same key answers.
Reuse(i) ==
    /\ Planned(i) /\ RequestOf(i) \notin Observes
    /\ \E n \in DOMAIN records.receipts :
        /\ records.receipts[n].result = "succeeded"
        /\ SameKey(i, records.receipts[n].call)
        /\ run' = Step("VERIFY", records.receipts[n].call, "running")
    /\ UNCHANGED <<records, session, lock, world, env>>

Propose(i) ==
    /\ Planned(i) /\ RequestOf(i) \in NeedsApproval
    /\ run' = Step("APPROVE", i, "awaiting_approval")
    /\ records' = [records EXCEPT !.invocations = @ \cup {i}, !.pending = i]
    /\ UNCHANGED <<session, lock, world, env>>

\* knowledge_is_current fails: replan, unless the session already holds the call.
RefuseStale(i) ==
    /\ Dispatches(i) /\ ~CanPause /\ ~env.fresh
    /\ run' = IF session.pending # 0
              THEN Step("VERIFY", i, "awaiting_reconciliation")
              ELSE [Step("EVALUATE", i, "running") EXCEPT !.next = "plan"]
    /\ UNCHANGED <<records, session, lock, world, env>>

\* claim_tool_idempotency, and the blocked Run when another invocation has the key.
Claim(i) ==
    /\ Dispatches(i) /\ ~CanPause /\ env.fresh
    /\ IF \E j \in records.claims : j # i /\ SameKey(i, j)
       THEN /\ run' = IF i \in records.invocations THEN Executed(i, "blocked")
                                                   ELSE Step("EXECUTE", i, "blocked")
            /\ UNCHANGED <<records, lock>>
       ELSE /\ records' = [records EXCEPT !.claims = @ \cup {i}]
            /\ Goto(IF run.last = "EXECUTE" THEN "committed" ELSE "claimed", i)
            /\ UNCHANGED run
    /\ UNCHANGED <<session, world, env>>

CommitExecute(i) ==
    /\ At("claimed", i)
    /\ run' = Executed(i, "running")
    /\ records' = [records EXCEPT !.invocations = @ \cup {i}]
    /\ Goto("committed", i)
    /\ UNCHANGED <<session, world, env>>

-----------------------------------------------------------------------------
(* _dispatch_tool from the runtime admission to the receipt *)

\* The runtime session: a fresh call is reserved, a reserved one goes on, one
\* that may have run is left for reconciliation.
Admit(i) ==
    /\ At("committed", i)
    /\ IF KeyDispatched(i)
       THEN /\ Goto(IF session.pending # i \/ session.started
                       \/ session.state = "awaiting_reconciliation"
                    THEN "mark" ELSE "admitted", i)
            /\ UNCHANGED session
       ELSE IF session.state \in {"stopped", "awaiting_reconciliation"} \/ session.pending # 0
       THEN Yield /\ UNCHANGED session
       ELSE IF Cardinality(session.dispatched) >= MaxToolCalls
       THEN Yield /\ session' = [session EXCEPT !.state = "stopped"]
       ELSE /\ Goto("admitted", i)
            /\ session' = [session EXCEPT !.state = "executing", !.pending = i,
                                          !.dispatched = @ \cup {i}]
    /\ UNCHANGED <<run, records, world, env>>

\* start_persisted_tool_execution
Start(i) ==
    /\ At("admitted", i)
    /\ session' = [session EXCEPT !.started = TRUE]
    /\ Goto("started", i)
    /\ UNCHANGED <<run, records, world, env>>

\* The adapter is entered.  It may report what happened, leave it unknown, or
\* raise; a deferring one accepts an operation that ends later.
EnterAdapter(i) ==
    /\ At("started", i)
    /\ IF RequestOf(i) \in Deferring
       THEN /\ world' = [effects |-> Append(world.effects, i),
                         outcome |-> [world.outcome EXCEPT ![i] = "running"]]
            /\ lock' = [lock EXCEPT !.pc = "deferring"]
       ELSE \E outcome \in Final : \E result \in {outcome, "unknown", "raised"} :
            /\ world' = [effects |-> Append(world.effects, i),
                         outcome |-> [world.outcome EXCEPT ![i] = outcome]]
            /\ lock' = [lock EXCEPT !.pc = "returned", !.result = result]
    /\ UNCHANGED <<run, records, session, env>>

\* _persist_deferred_ack: the Run's ledger holds the operation before the session.
PersistAck(i) ==
    /\ At("deferring", i)
    /\ run' = Executed(i, "running")
    /\ records' = [records EXCEPT !.acks = @ \cup {i}]
    /\ lock' = [lock EXCEPT !.pc = "returned", !.result = "deferred"]
    /\ UNCHANGED <<session, world, env>>

\* The acknowledgement's commit is refused inside the adapter's call.
AckRefused(i) ==
    /\ At("deferring", i) /\ env.faults < MaxFaults
    /\ env' = [env EXCEPT !.faults = @ + 1]
    /\ lock' = [lock EXCEPT !.pc = "returned", !.result = "raised"]
    /\ UNCHANGED <<run, records, session, world>>

\* A terminal receipt of the pending call.
SettledSession(i, result) ==
    [session EXCEPT !.settled[i] = result, !.pending = 0, !.started = FALSE,
                    !.deferred = FALSE, !.state = "executing"]

\* Mutated form: an unknown effect releases the call as a terminal one does.
PersistResultReleases(i) ==
    /\ At("returned", i)
    /\ session' = IF lock.result \in Final THEN SettledSession(i, lock.result)
                  ELSE IF lock.result = "deferred" THEN [session EXCEPT !.deferred = TRUE]
                  ELSE [session EXCEPT !.pending = 0, !.state = "executing"]
    /\ Goto("recorded", i)
    /\ UNCHANGED <<run, records, world, env>>

\* finish_persisted_tool_execution after the adapter returned.
PersistResult(i) ==
    /\ At("returned", i)
    /\ session' = IF lock.result \in Final THEN SettledSession(i, lock.result)
                  ELSE IF lock.result = "deferred" THEN [session EXCEPT !.deferred = TRUE]
                  ELSE [session EXCEPT !.state = "awaiting_reconciliation"]
    /\ Goto("recorded", i)
    /\ UNCHANGED <<run, records, world, env>>

\* _record_tool_result: the receipt enters the Run's ledger.
Recorded(i, result) ==
    /\ run' = Step("VERIFY", i, IF result = "unknown" THEN "awaiting_reconciliation"
                                                      ELSE "running")
    /\ records' = [records EXCEPT !.receipts = Receipt(i, result), !.pending = PendingAfter(i)]

RecordResult(i) ==
    /\ At("recorded", i)
    /\ CASE lock.result = "deferred" -> run' = Executed(i, "awaiting_tool") /\ UNCHANGED records
         [] lock.result = "raised" ->
                run' = Step("VERIFY", i, "awaiting_reconciliation") /\ UNCHANGED records
         [] OTHER -> Recorded(i, lock.result)
    /\ Yield
    /\ UNCHANGED <<session, world, env>>

-----------------------------------------------------------------------------
(* _resume_execution, _resume_verified_tool *)

\* Mutated form: a restarted process enters the adapter again.
ResumeRedelivers(i) ==
    /\ AtRest /\ run.state = "running" /\ run.last = "EXECUTE" /\ run.target = i
    /\ i \notin records.acks /\ Interrupted(i)
    /\ Goto("started", i)
    /\ UNCHANGED <<run, records, session, world, env>>

\* reconcile_interrupted_execution before the Run is marked, when it still executes.
ResumeInterrupted(i) ==
    /\ AtRest /\ run.state = "running" /\ run.last = "EXECUTE" /\ run.target = i
    /\ i \notin records.acks /\ Interrupted(i)
    /\ session' = IF session.pending # 0 /\ session.started /\ session.state = "executing"
                  THEN [session EXCEPT !.state = "awaiting_reconciliation"] ELSE session
    /\ Goto("mark", i)
    /\ UNCHANGED <<run, records, world, env>>

\* _mark_reconciliation
MarkReconciliation(i) ==
    /\ At("mark", i)
    /\ run' = Step("VERIFY", i, "awaiting_reconciliation")
    /\ Yield
    /\ UNCHANGED <<records, session, world, env>>

\* _resume_verified_tool and _evaluate_tool_result: a handoff question, a paused
\* or exhausted task, or the next plan or assessment.
Evaluate(i) ==
    /\ AtRest /\ run.state = "running" /\ run.last = "VERIFY" /\ run.subject = i
    /\ run' \in {Step("EVALUATE", i, "awaiting_input"), Step("EVALUATE", i, "blocked")}
               \cup (IF records.steer[i] = "pause" THEN {}
                     ELSE {[Step("EVALUATE", i, "running") EXCEPT !.next = n] :
                              n \in {"plan", "assess"}})
    /\ UNCHANGED <<records, session, lock, world, env>>

-----------------------------------------------------------------------------
(* Deferred operations: _await_deferred, complete_deferred, mark_deferred_uncertain *)

AwaitSettled ==
    \/ session.state = "executing" /\ session.deferred /\ run.state = "awaiting_tool"
    \/ session.state = "awaiting_reconciliation" /\ run.state = "awaiting_reconciliation"

\* _await_deferred refuses a call the session no longer holds.
BeginAwait(i, goal) ==
    /\ AtRest
    /\ i \in records.acks /\ session.pending = i
    /\ lock' = [Idle EXCEPT !.pc = "await", !.at = i, !.goal = goal]
    /\ UNCHANGED <<run, records, session, world>>

\* drive() of a Run whose latest execution was acknowledged.
ResumeDeferred(i) ==
    /\ run.target = i /\ i \notin records.completions
    /\ \/ run.state \in {"awaiting_tool", "awaiting_reconciliation"}
       \/ run.state = "running" /\ run.last = "EXECUTE"
    /\ ~AwaitSettled
    /\ BeginAwait(i, "drive") /\ UNCHANGED env

\* The states in which complete_deferred takes a first result.
AcceptsResult(i) ==
    /\ session.settled[i] = "none"
    /\ run.state \in {"awaiting_tool", "running", "awaiting_reconciliation"}

CompleteDeferred(i) ==
    /\ world.outcome[i] \in Final /\ i \notin records.completions
    /\ AcceptsResult(i)
    /\ BeginAwait(i, "complete") /\ UNCHANGED env

\* The worker lost an accepted operation, in a restart of its own.
MarkUncertain(i) ==
    /\ world.outcome[i] = "running" /\ run.target = i
    /\ session.state = "executing" /\ env.faults < MaxFaults
    /\ BeginAwait(i, "uncertain")
    /\ env' = [env EXCEPT !.faults = @ + 1]

\* Canonical acknowledgement without the runtime's: only that one is made good.
AwaitAck(i) ==
    /\ At("await", i) /\ session.state = "executing" /\ ~session.deferred
    /\ session' = [session EXCEPT !.deferred = TRUE]
    /\ UNCHANGED <<run, records, lock, world, env>>

AwaitCommit(i) ==
    /\ At("await", i) /\ ~AwaitSettled
    /\ \/ session.state = "executing" /\ session.deferred
          /\ run' = Executed(i, "awaiting_tool")
       \/ session.state = "awaiting_reconciliation"
          /\ run' = Step("VERIFY", i, "awaiting_reconciliation")
    /\ UNCHANGED <<records, session, lock, world, env>>

AwaitDone(i) ==
    /\ At("await", i) /\ AwaitSettled
    /\ CASE lock.goal = "drive" -> Yield /\ UNCHANGED <<run, records, session>>
         [] lock.goal = "complete" ->
                /\ run' = Executed(i, run.state)
                /\ records' = [records EXCEPT !.completions = @ \cup {i}]
                /\ Goto("settle", i)
                /\ UNCHANGED session
         [] lock.goal = "uncertain" /\ session.state = "executing" ->
                /\ session' = [session EXCEPT !.state = "awaiting_reconciliation"]
                /\ UNCHANGED <<run, records, lock>>
         [] OTHER -> Yield /\ UNCHANGED <<run, records, session>>
    /\ UNCHANGED <<world, env>>

\* Mutated form: a call the session has settled counts as recorded.
ResumeCompletionUnsettled(i) ==
    /\ AtRest /\ i \in records.completions /\ session.settled[i] = "none"
    /\ Goto("settle", i)
    /\ UNCHANGED <<run, records, session, world, env>>

\* A completion that was committed before: the worker's retry, or drive().
ResumeCompletion(i) ==
    /\ AtRest /\ i \in records.completions
    /\ Goto(IF session.settled[i] = "none" THEN "settle" ELSE "project", i)
    /\ UNCHANGED <<run, records, session, world, env>>

\* resolve_persisted_deferred or resolve_persisted_reconciliation.
Settle(i) ==
    /\ At("settle", i)
    /\ IF session.pending = i /\ session.started
       THEN session' = SettledSession(i, world.outcome[i]) /\ Goto("project", i)
       ELSE Yield /\ UNCHANGED session
    /\ UNCHANGED <<run, records, world, env>>

Project(i) ==
    /\ At("project", i)
    /\ IF HasReceipt(i) THEN UNCHANGED <<run, records>> ELSE Recorded(i, world.outcome[i])
    /\ Yield
    /\ UNCHANGED <<session, world, env>>

-----------------------------------------------------------------------------
(* resolve_reconciliation, called with a provider's readback *)

MayResolve(i) ==
    /\ run.state = "awaiting_reconciliation" /\ run.target = i
    /\ session.state = "awaiting_reconciliation" /\ session.pending = i

ResolveReconciliation(i) ==
    /\ AtRest /\ MayResolve(i)
    /\ RequestOf(i) \notin Deferring /\ world.outcome[i] \in Final
    /\ session' = SettledSession(i, world.outcome[i])
    /\ Goto("resolved", i)
    /\ UNCHANGED <<run, records, world, env>>

RecordResolved(i) ==
    /\ At("resolved", i)
    /\ Recorded(i, world.outcome[i])
    /\ Yield
    /\ UNCHANGED <<session, world, env>>

-----------------------------------------------------------------------------
(* Humans: submit_input, decide_approval, continue_work, stop *)

InputSubmitted ==
    /\ run.state = "awaiting_input"
    /\ run' = Step("OBSERVE", 0, "running")
    /\ UNCHANGED <<records, session, world, env>>

SubmitInput == AtRest /\ InputSubmitted /\ UNCHANGED lock

\* continue_work goes on to submit the revision it has admitted.
SubmitRevision == lock.pc = "revised" /\ InputSubmitted /\ Yield

DecideApproval(granted) ==
    /\ AtRest /\ run.state = "awaiting_approval" /\ records.pending # 0
    /\ LET i == records.pending IN
        /\ run' = Step("APPROVE", i, IF granted THEN "running" ELSE "stopped")
        /\ records' = [records EXCEPT !.pending = 0,
                            !.approval[i] = IF granted THEN "granted" ELSE "rejected"]
    /\ UNCHANGED <<session, lock, world, env>>

\* Mutated form: a pending call of the session is not asked for.
AtSafeBoundaryByRun ==
    /\ run.state # "awaiting_reconciliation"
    /\ ~(run.state = "running" /\ run.last \in {"EXECUTE", "VERIFY"})

\* What continue_work refuses: work whose dispatch or effect is not accounted for.
AtSafeBoundary ==
    /\ run.state # "awaiting_reconciliation"
    /\ ~(run.state = "running" /\ run.last \in {"EXECUTE", "VERIFY"})
    /\ run.state = "awaiting_tool" \/ session.pending = 0

\* The steering of an invocation is read from the inputs recorded after it, up
\* to the next recorded invocation (_deferred_pause_requested).
Steered(action) ==
    [i \in Ids |-> IF i \in records.invocations /\ \A j \in records.invocations : j <= i
                   THEN action ELSE records.steer[i]]

Continue(action) ==
    /\ AtRest /\ AtSafeBoundary /\ env.inputs < MaxInputs
    /\ run.state = "blocked" => action = "revise"
    /\ run' = Step("OBSERVE", 0, IF run.state = "awaiting_tool" THEN run.state
                                                                 ELSE "awaiting_input")
    /\ records' = [records EXCEPT
            !.pending = IF action = "pause" THEN 0 ELSE @,
            !.steer = IF run.state = "awaiting_tool" THEN Steered(action) ELSE @]
    /\ env' = [env EXCEPT !.inputs = @ + 1]
    /\ IF action = "revise" /\ run.state # "awaiting_tool" THEN Goto("revised", 0)
                                                            ELSE UNCHANGED lock
    /\ UNCHANGED <<session, world>>

Stop ==
    /\ AtRest /\ env.inputs < MaxInputs
    /\ run.state \notin {"stopped", "completed", "awaiting_reconciliation"}
    /\ run' = Step("STOP", 0, "stopped")
    /\ records' = [records EXCEPT !.pending = 0]
    /\ env' = [env EXCEPT !.inputs = @ + 1]
    /\ UNCHANGED <<session, lock, world>>

SignalArrives ==
    /\ env.inputs < MaxInputs /\ ~env.signal
    /\ env' = [env EXCEPT !.signal = TRUE, !.inputs = @ + 1]
    /\ UNCHANGED <<run, records, session, lock, world>>

-----------------------------------------------------------------------------
(* The world and the faults *)

\* A worker starts an operation only once the Run's ledger acknowledges it.
WorkerFinishes(i) ==
    /\ world.outcome[i] = "running" /\ i \in records.acks
    /\ \E outcome \in Final : world' = [world EXCEPT !.outcome[i] = outcome]
    /\ UNCHANGED <<run, records, session, lock, env>>

Fault(field) ==
    /\ env.faults < MaxFaults
    /\ env' = [field EXCEPT !.faults = @ + 1]

ApprovalLapses(i) ==
    /\ records.approval[i] = "granted" /\ i \notin env.lapsed
    /\ Fault([env EXCEPT !.lapsed = @ \cup {i}])
    /\ UNCHANGED <<run, records, session, lock, world>>

KnowledgeChanges ==
    /\ env.fresh
    /\ Fault([env EXCEPT !.fresh = FALSE])
    /\ UNCHANGED <<run, records, session, lock, world>>

\* The process dies, or an exception unwinds the handler, between two commits.
Crash ==
    /\ ~AtRest
    /\ Fault(env)
    /\ Yield
    /\ UNCHANGED <<run, records, session, world>>

-----------------------------------------------------------------------------
Planning ==
    \/ PauseForSignal \/ Observe \/ AwaitKnowledge \/ PlanFails \/ Assess
    \/ \E keeps \in BOOLEAN : PlanOther(keeps) \/ \E r \in Requests : PlanTool(r, keeps)

Dispatching ==
    \E i \in Plans :
        \/ Reuse(i) \/ Propose(i) \/ RefuseStale(i) \/ Claim(i) \/ CommitExecute(i)
        \/ Admit(i) \/ Start(i) \/ EnterAdapter(i) \/ PersistAck(i) \/ PersistResult(i)
        \/ RecordResult(i)

Recovering ==
    \/ SubmitRevision
    \/ \E i \in Plans :
        \/ ResumeInterrupted(i) \/ MarkReconciliation(i) \/ Evaluate(i)
        \/ ResumeDeferred(i) \/ AwaitAck(i) \/ AwaitCommit(i) \/ AwaitDone(i)
        \/ ResumeCompletion(i) \/ CompleteDeferred(i) \/ Settle(i) \/ Project(i)
        \/ ResolveReconciliation(i) \/ RecordResolved(i)

Human ==
    \/ SubmitInput \/ Stop \/ SignalArrives
    \/ \E granted \in BOOLEAN : DecideApproval(granted)
    \/ \E action \in {"pause", "revise"} : Continue(action)

Faulty ==
    \/ Crash \/ KnowledgeChanges
    \/ \E i \in Plans : ApprovalLapses(i) \/ MarkUncertain(i) \/ AckRefused(i)

Next == Planning \/ Dispatching \/ Recovering \/ Human \/ Faulty
        \/ \E i \in Plans : WorkerFinishes(i)

Spec == Init /\ [][Next]_vars

\* The scheduler's drive and the worker's retries are repeated until they succeed.
FairSpec == Spec /\ WF_vars(Planning) /\ WF_vars(Dispatching) /\ WF_vars(Recovering)

-----------------------------------------------------------------------------
(* Properties *)

KeyOf(i) == [request |-> RequestOf(i), plan |-> IF RequestOf(i) \in Observes THEN i ELSE 0]
Entered(i) == \E n \in DOMAIN world.effects : world.effects[n] = i

Unsettled(i) == Entered(i) /\ session.settled[i] = "none"
Told == {n \in DOMAIN records.receipts : records.receipts[n].result \in Final}

EnteredKeys == [n \in DOMAIN world.effects |-> KeyOf(world.effects[n])]
OpenKey == IF \E i \in Plans : Unsettled(i) THEN KeyOf(CHOOSE i \in Plans : Unsettled(i))
                                            ELSE NoKey
SettledKeys == {[key |-> KeyOf(i), result |-> session.settled[i]] :
                   i \in {j \in Plans : session.settled[j] # "none"}}
ToldKeys == {[key |-> KeyOf(records.receipts[n].call), result |-> records.receipts[n].result] :
                n \in Told}

\* Crashes, restarts and retries included, tool effects keep the abstract promise
\* of ToolEffects: one at a time, one per idempotency key, settled before the next
\* begins, and the Run's ledger holds the very results the session settled.
Effects == INSTANCE ToolEffects WITH
    Keys <- [request : Requests, plan : 0 .. MaxDecisions],
    Results <- Final,
    entered <- EnteredKeys, open <- OpenKey, settled <- SettledKeys, told <- ToldKeys

ImplementsEffects == Effects!Spec

\* Every effect was claimed in the tenant's ledger before it began, recorded as an
\* invocation, and approved where its descriptor asks for it.
EffectAuthorized ==
    \A i \in Plans : Entered(i) =>
        /\ i \in records.claims \cap records.invocations
        /\ RequestOf(i) \in NeedsApproval => records.approval[i] = "granted"

PlannedOperations == {i \in Plans : RequestOf(i) \in Deferring}

\* "Do not obscure interrupted dispatch or unknown effects with new work": between
\* handlers, an effect without a terminal receipt is what the Run is executing,
\* waiting for or reconciling, unless the Run was stopped.  A Run that planned an
\* operation is exempt: its worker may project the result over another call.
UnsettledEffectOwned ==
    \A i \in Plans :
        AtRest /\ Entered(i) /\ session.settled[i] = "none" /\ PlannedOperations = {} =>
            /\ run.target = i
            /\ \/ run.state \in {"awaiting_tool", "awaiting_reconciliation", "stopped"}
               \/ run.state = "running" /\ run.last = "EXECUTE"

\* The cost reserved for an effect stays reserved, under that very call, until the
\* session holds its terminal receipt.
EffectStaysReserved ==
    \A i \in Plans :
        Entered(i) /\ session.settled[i] = "none" => session.pending = i /\ session.started

\* A finished operation the Run acknowledged ends up in its ledger, however often
\* the process dies in between, unless the Run was stopped.
OperationsRecorded ==
    \A i \in Ids :
        (i \in records.acks /\ world.outcome[i] \in Final)
            ~> (HasReceipt(i) \/ run.state = "stopped")
=============================================================================
