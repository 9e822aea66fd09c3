---------------------------- MODULE RuntimeLedger ----------------------------
(***************************************************************************)
(* The append-only event ledger of one runtime session                     *)
(* (ads_booster/agent/runtime.py) and the reducer that replays it.         *)
(*                                                                         *)
(* Every save of a session replays its events from nothing and refuses a   *)
(* session whose checkpoint differs from the replayed one.  The reducer    *)
(* here is the code's _replay_runtime_events with one handler per event    *)
(* type; a handler that raises sets ok to FALSE for good.                  *)
(*                                                                         *)
(* Digests, canonical JSON and timestamps are abstracted: a call, a grant  *)
(* and an idempotency key are values compared by equality.                 *)
(***************************************************************************)
EXTENDS Naturals, Sequences, Folds, SequencesExt

CONSTANTS
    Calls,          \* bound tool invocations a caller may submit
    Grants,         \* one-use approval grants
    Keys,           \* idempotency keys
    NoCall,         \* None in pending_call / pending_invocation
    NoGrant,        \* None in pending_grant_sha256
    KeyOf,          \* the idempotency key of each call
    NeedsGrant,     \* _tool_requires_approval(call)
    GrantFor,       \* the call whose digest a grant binds
    WorstCost,      \* worst_case_cost_units of the call's capability
    MaxToolCalls,   \* Budget.max_tool_calls
    MaxCostUnits    \* Budget.max_cost_units

ASSUME LedgerConstants ==
    /\ NoCall \notin Calls
    /\ NoGrant \notin Grants
    /\ KeyOf \in [Calls -> Keys]
    /\ NeedsGrant \in [Calls -> BOOLEAN]
    /\ GrantFor \in [Grants -> Calls]
    /\ WorstCost \in [Calls -> Nat]
    /\ MaxToolCalls \in Nat
    /\ MaxCostUnits \in Nat

TerminalStates == {"stopped", "inconclusive", "completed"}
RuntimeStates ==
    {"created", "executing", "awaiting_human", "awaiting_reconciliation"}
        \cup TerminalStates

Resolved == {"tool_no_effect", "tool_succeeded", "tool_failed"}
ReceiptEvents == Resolved \cup {"tool_unknown_side_effect"}
ReconciliationEvents ==
    {"tool_backend_exception", "tool_execution_interrupted", "tool_receipt_rejected"}
BudgetStops == {"budget_tool_calls_exhausted", "budget_cost_exhausted"}
EventTypes ==
    ReceiptEvents \cup ReconciliationEvents \cup BudgetStops \cup
    {"session_started", "tool_approval_required", "tool_dispatched",
     "tool_execution_started", "tool_execution_deferred",
     "tool_deferred_uncertain", "session_finalized", "workflow"}

OptCall == Calls \cup {NoCall}
OptGrant == Grants \cup {NoGrant}

Event == [type : EventTypes, call : OptCall, grant : OptGrant,
          cost : Nat, final : RuntimeStates]

\* An event about a call; the fields an event type does not use keep defaults.
On(type, call) ==
    [type |-> type, call |-> call, grant |-> NoGrant, cost |-> 0, final |-> "created"]

-----------------------------------------------------------------------------
(* The checkpoint both the writer and the reducer maintain. *)

Blank == [state |-> "created", spent |-> 0, reserved |-> 0, calls |-> 0,
          pending |-> NoCall, grant |-> NoGrant, started |-> FALSE,
          keys |-> {}, used |-> {}]

\* _RuntimeReplay before the first event.
ReplayStart == [cp |-> Blank, ok |-> TRUE, header |-> FALSE,
                finalized |-> FALSE, deferred |-> FALSE]

\* _require_dispatchable
Dispatchable(r) ==
    /\ r.cp.pending = NoCall
    /\ r.cp.state \notin TerminalStates \cup {"awaiting_reconciliation"}

\* _validate_replayed_grant
GrantReplayable(r, e) ==
    /\ NeedsGrant[e.call] <=> e.grant # NoGrant
    /\ e.grant \notin r.cp.used

\* The raise conditions of the _apply_* handlers, per event type.
HandlerAccepts(r, e) ==
    CASE e.type \in {"tool_approval_required"} \cup BudgetStops -> Dispatchable(r)
      [] e.type = "tool_dispatched" ->
            /\ Dispatchable(r)
            /\ r.cp.spent + e.cost <= MaxCostUnits
            /\ KeyOf[e.call] \notin r.cp.keys
            /\ GrantReplayable(r, e)
            /\ r.cp.calls + 1 <= MaxToolCalls
      [] e.type = "tool_execution_started" ->
            r.cp.pending # NoCall /\ ~r.cp.started /\ e.call = r.cp.pending
      [] e.type = "tool_execution_deferred" ->
            /\ r.cp.pending # NoCall /\ r.cp.started /\ e.call = r.cp.pending
            /\ r.cp.state = "executing" /\ ~r.deferred
      [] e.type = "tool_deferred_uncertain" ->
            /\ r.cp.pending # NoCall /\ r.cp.started /\ e.call = r.cp.pending
            /\ r.cp.state = "executing" /\ r.deferred
      [] e.type \in ReceiptEvents ->
            /\ r.cp.pending # NoCall /\ r.cp.started /\ e.call = r.cp.pending
            /\ e.grant = r.cp.grant
            /\ e.cost <= r.cp.reserved
            /\ ~(r.deferred /\ e.type = "tool_unknown_side_effect")
      [] e.type \in ReconciliationEvents ->
            r.cp.pending # NoCall /\ r.cp.started /\ ~r.deferred
      [] e.type = "session_finalized" ->
            /\ r.cp.pending = NoCall /\ r.cp.state # "awaiting_reconciliation"
            /\ e.final \in TerminalStates
            /\ r.cp.state \in TerminalStates => e.final = r.cp.state
      [] OTHER -> TRUE

\* The assignments of the same handlers.
Handled(r, e) ==
    CASE e.type = "tool_approval_required" -> [r EXCEPT !.cp.state = "awaiting_human"]
      [] e.type \in BudgetStops -> [r EXCEPT !.cp.state = "stopped"]
      [] e.type = "tool_dispatched" ->
            [r EXCEPT !.cp.pending = e.call, !.cp.grant = e.grant,
                      !.cp.reserved = e.cost, !.cp.calls = @ + 1,
                      !.cp.keys = @ \cup {KeyOf[e.call]},
                      !.cp.used = @ \cup ({e.grant} \ {NoGrant}),
                      !.cp.state = "executing"]
      [] e.type = "tool_execution_started" ->
            [r EXCEPT !.cp.started = TRUE, !.cp.state = "executing"]
      [] e.type = "tool_execution_deferred" -> [r EXCEPT !.deferred = TRUE]
      [] e.type \in ReconciliationEvents \cup {"tool_deferred_uncertain"} ->
            [r EXCEPT !.cp.state = "awaiting_reconciliation"]
      [] e.type = "tool_unknown_side_effect" ->
            [r EXCEPT !.cp.spent = @ + e.cost, !.cp.reserved = 0,
                      !.cp.state = "awaiting_reconciliation"]
      [] e.type \in Resolved ->
            [r EXCEPT !.cp.spent = @ + e.cost, !.cp.reserved = 0,
                      !.cp.pending = NoCall, !.cp.grant = NoGrant,
                      !.cp.started = FALSE, !.cp.state = "executing",
                      !.deferred = FALSE]
      [] e.type = "session_finalized" ->
            [r EXCEPT !.cp.state = e.final, !.finalized = TRUE]
      [] OTHER -> r

\* _apply_runtime_event: header first, nothing after finalization, then the handler.
ApplyRuntimeEvent(r, e) ==
    IF e.type = "session_started"
    THEN [r EXCEPT !.ok = @ /\ ~r.header, !.header = TRUE]
    ELSE IF r.ok /\ r.header /\ ~r.finalized /\ HandlerAccepts(r, e)
         THEN Handled(r, e)
         ELSE [r EXCEPT !.ok = FALSE]

\* _replay_runtime_events
ReplayRuntimeEvents(events) == FoldLeft(ApplyRuntimeEvent, ReplayStart, events)

=============================================================================
