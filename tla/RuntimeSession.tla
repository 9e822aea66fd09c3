---------------------------- MODULE RuntimeSession ---------------------------
(***************************************************************************)
(* MarketingAgentRuntime over a SessionStore (ads_booster/agent/runtime.py):*)
(* several workers (threads of one or more processes) drive one persisted  *)
(* session through admission, durable start, backend execution and receipt.*)
(*                                                                         *)
(* A runtime call loads the stored session, requires it to be current,     *)
(* derives the next session and saves it by compare-and-swap on the number *)
(* of events.  Load, check and save of one call are one action here: when   *)
(* another save comes between them the call raises and leaves the store as *)
(* it was.  Only execution keeps a loaded session (view) across steps,      *)
(* because the backend runs between its check and its save.                *)
(***************************************************************************)
EXTENDS RuntimeLedger

CONSTANTS
    Workers,
    MaxEvents,      \* bound on the ledger's length (model bound, not the code's)
    ReceiptCosts    \* actual_cost_units a backend may report

ASSUME SessionConstants ==
    /\ MaxEvents \in Nat
    /\ ReceiptCosts \subseteq Nat

VARIABLES
    session,    \* the stored AgentSession: its checkpoint fields and events
    usable,     \* grants neither revoked nor expired
    pc,         \* where each worker is in execute_persisted_tool
    view,       \* the session each executing worker holds
    effects,    \* ghost: every entry into backend.execute, in order
    refused     \* ghost: event types whose save the reducer refused

vars == <<session, usable, pc, view, effects, refused>>

NewSession == [cp |-> Blank, events |-> <<>>]

Session == [cp : [state : RuntimeStates, spent : Nat, reserved : Nat, calls : Nat,
                  pending : OptCall, grant : OptGrant, started : BOOLEAN,
                  keys : SUBSET Keys, used : SUBSET Grants],
            events : Seq(Event)]

TypeOK ==
    /\ session \in Session
    /\ usable \subseteq Grants
    /\ pc \in [Workers -> {"idle", "started", "executing"}]
    /\ view \in [Workers -> Session]
    /\ effects \in Seq([call : Calls, grant : OptGrant])
    /\ refused \subseteq EventTypes

Init ==
    /\ session = NewSession
    /\ usable = Grants
    /\ pc = [w \in Workers |-> "idle"]
    /\ view = [w \in Workers |-> NewSession]
    /\ effects = <<>>
    /\ refused = {}

-----------------------------------------------------------------------------
(* The writer's side: what a transition appends and stores. *)

Finalized(s) == \E i \in DOMAIN s.events : s.events[i].type = "session_finalized"

\* pending_deferred_execution: the acknowledgement after the latest dispatch.
DeferredPending(s) ==
    /\ s.cp.pending # NoCall
    /\ \E i \in DOMAIN s.events :
        /\ s.events[i].type = "tool_execution_deferred"
        /\ s.events[i].call = s.cp.pending
        /\ \A j \in i + 1 .. Len(s.events) : s.events[j].type # "tool_dispatched"

\* _append: a session with no event yet gets its header first.
Appended(s, cp, e) ==
    [cp |-> cp,
     events |-> (IF s.events = <<>> THEN <<On("session_started", NoCall)>> ELSE s.events)
                  \o <<e>>]

\* _validate_loaded_session_checkpoint: the checkpoint is a cache of the replay.
CheckpointValid(s) ==
    LET r == ReplayRuntimeEvents(s.events) IN r.ok /\ r.header /\ r.cp = s.cp

\* Mutated form: an unconditional write, with no compare-and-swap on the sequence.
SavedUnfenced(previous, next) ==
    /\ Len(next.events) <= MaxEvents
    /\ session' = next
    /\ UNCHANGED refused

\* SessionStore.save(next, expected_sequence=len(previous.events)).
Saved(previous, next) ==
    /\ Len(previous.events) = Len(session.events)
    /\ Len(next.events) <= MaxEvents
    /\ IF CheckpointValid(next)
       THEN session' = next /\ UNCHANGED refused
       ELSE /\ refused' = refused \cup {Last(next.events).type}
            /\ UNCHANGED session

\* A call that appends one event to the session it just loaded.
Persist(cp, e) ==
    /\ ~Finalized(session)
    /\ Saved(session, Appended(session, cp, e))
    /\ UNCHANGED <<usable, pc, view, effects>>

\* _validate_dispatch_state
MayDispatch(s) ==
    /\ s.cp.state \notin TerminalStates \cup {"awaiting_reconciliation"}
    /\ s.cp.pending = NoCall

OverCalls(s) == s.cp.calls >= MaxToolCalls

OverCost(s, c) == s.cp.spent + s.cp.reserved + WorstCost[c] > MaxCostUnits

\* Mutated form: any usable grant admits any call.
GrantAdmitsUnbound(c, g) ==
    IF NeedsGrant[c] THEN g \in usable /\ g \notin session.cp.used ELSE g = NoGrant

\* ApprovalGrant.allows and the one-use check of _request_tool.
GrantAdmits(c, g) ==
    IF NeedsGrant[c] THEN g \in usable /\ GrantFor[g] = c /\ g \notin session.cp.used
                     ELSE g = NoGrant

\* _record_receipt: the checkpoint after a receipt of the pending call.
Receipted(cp, type, cost) ==
    IF type = "tool_unknown_side_effect"
    THEN [cp EXCEPT !.spent = @ + cost, !.reserved = 0,
                    !.state = "awaiting_reconciliation"]
    ELSE [cp EXCEPT !.spent = @ + cost, !.reserved = 0, !.pending = NoCall,
                    !.grant = NoGrant, !.started = FALSE, !.state = "executing"]

ReceiptEvent(s, type, cost) ==
    [On(type, s.cp.pending) EXCEPT !.grant = s.cp.grant, !.cost = cost]

Uncertain(cp) == [cp EXCEPT !.state = "awaiting_reconciliation"]

-----------------------------------------------------------------------------
(* _request_tool through request_persisted_tool. *)

AwaitHuman(c) ==
    /\ MayDispatch(session)
    /\ NeedsGrant[c]
    /\ Persist([session.cp EXCEPT !.state = "awaiting_human"],
               On("tool_approval_required", c))

StopOnBudget(c, g) ==
    /\ MayDispatch(session) /\ GrantAdmits(c, g)
    /\ KeyOf[c] \notin session.cp.keys
    /\ OverCalls(session) \/ OverCost(session, c)
    /\ Persist([session.cp EXCEPT !.state = "stopped"],
               On(IF OverCalls(session) THEN "budget_tool_calls_exhausted"
                                        ELSE "budget_cost_exhausted", c))

Dispatched(cp, c, g) ==
    [cp EXCEPT !.reserved = @ + WorstCost[c], !.calls = @ + 1,
               !.pending = c, !.grant = g,
               !.keys = @ \cup {KeyOf[c]},
               !.used = @ \cup ({g} \ {NoGrant}),
               !.state = "executing"]

DispatchEvent(c, g) ==
    [On("tool_dispatched", c) EXCEPT !.grant = g, !.cost = WorstCost[c]]

\* Mutated form: dispatches without the budget check, past the save's validation.
DispatchUnvalidated(c, g) ==
    /\ MayDispatch(session) /\ GrantAdmits(c, g)
    /\ KeyOf[c] \notin session.cp.keys
    /\ Len(session.events) < MaxEvents
    /\ session' = Appended(session, Dispatched(session.cp, c, g), DispatchEvent(c, g))
    /\ UNCHANGED <<usable, pc, view, effects, refused>>

Dispatch(c, g) ==
    /\ MayDispatch(session) /\ GrantAdmits(c, g)
    /\ KeyOf[c] \notin session.cp.keys
    /\ ~OverCalls(session) /\ ~OverCost(session, c)
    /\ Persist(Dispatched(session.cp, c, g), DispatchEvent(c, g))

-----------------------------------------------------------------------------
(* execute_persisted_tool: durable start, then the backend, then the result. *)

Start(w) ==
    /\ pc[w] = "idle"
    /\ session.cp.state = "executing" /\ session.cp.pending # NoCall
    /\ ~session.cp.started
    /\ ~Finalized(session)
    /\ LET next == Appended(session, [session.cp EXCEPT !.started = TRUE],
                            On("tool_execution_started", session.cp.pending))
       IN /\ Saved(session, next)
          /\ IF CheckpointValid(next)
             THEN /\ pc' = [pc EXCEPT ![w] = "started"]
                  /\ view' = [view EXCEPT ![w] = next]
             ELSE UNCHANGED <<pc, view>>
    /\ UNCHANGED <<usable, effects>>

\* Mutated form: a restarted worker enters the backend again for a started call.
EnterBackendAgain(w) ==
    /\ pc[w] \in {"idle", "started"}
    /\ session.cp.state = "executing" /\ session.cp.started
    /\ effects' = Append(effects, [call |-> session.cp.pending, grant |-> session.cp.grant])
    /\ pc' = [pc EXCEPT ![w] = "executing"]
    /\ view' = [view EXCEPT ![w] = session]
    /\ UNCHANGED <<session, usable, refused>>

\* finish_persisted_tool_execution up to backend.execute.
EnterBackend(w) ==
    /\ pc[w] = "started"
    /\ view[w] = session
    /\ session.cp.state = "executing" /\ session.cp.pending # NoCall
    /\ session.cp.started /\ ~DeferredPending(session)
    /\ effects' = Append(effects, [call |-> session.cp.pending, grant |-> session.cp.grant])
    /\ pc' = [pc EXCEPT ![w] = "executing"]
    /\ UNCHANGED <<session, usable, view, refused>>

Finish(w, cp, e) ==
    /\ pc[w] = "executing"
    /\ Saved(view[w], Appended(view[w], cp, e))
    /\ pc' = [pc EXCEPT ![w] = "idle"]
    /\ view' = [view EXCEPT ![w] = NewSession]
    /\ UNCHANGED <<usable, effects>>

\* The backend returned a receipt bound to the pending call and within its reservation.
FinishReceipt(w, type, cost) ==
    /\ cost <= view[w].cp.reserved
    /\ Finish(w, Receipted(view[w].cp, type, cost), ReceiptEvent(view[w], type, cost))

\* The backend acknowledged a deferred operation.
FinishDeferred(w) ==
    Finish(w, view[w].cp, On("tool_execution_deferred", view[w].cp.pending))

\* The backend raised, or its receipt did not match the call, grant or reservation.
FinishUncertain(w) ==
    \E type \in {"tool_backend_exception", "tool_receipt_rejected"} :
        Finish(w, Uncertain(view[w].cp), On(type, view[w].cp.pending))

\* A failed check, a lost compare-and-swap, or the death of the process.
Abandon(w) ==
    /\ pc[w] # "idle"
    /\ pc' = [pc EXCEPT ![w] = "idle"]
    /\ view' = [view EXCEPT ![w] = NewSession]
    /\ UNCHANGED <<session, usable, effects, refused>>

-----------------------------------------------------------------------------
(* Recovery and resolution, by any worker that loads the session. *)

ReconcileInterrupted ==
    /\ session.cp.state = "executing" /\ session.cp.pending # NoCall
    /\ session.cp.started /\ ~DeferredPending(session)
    /\ Persist(Uncertain(session.cp),
               On("tool_execution_interrupted", session.cp.pending))

MarkDeferredUncertain ==
    /\ session.cp.state = "executing" /\ DeferredPending(session)
    /\ Persist(Uncertain(session.cp), On("tool_deferred_uncertain", session.cp.pending))

ResolveDeferred(type, cost) ==
    /\ session.cp.state = "executing" /\ DeferredPending(session)
    /\ cost <= session.cp.reserved
    /\ Persist(Receipted(session.cp, type, cost), ReceiptEvent(session, type, cost))

ResolveReconciliation(type, cost) ==
    /\ session.cp.state = "awaiting_reconciliation" /\ session.cp.pending # NoCall
    /\ session.cp.started
    /\ cost <= session.cp.reserved
    /\ Persist(Receipted(session.cp, type, cost), ReceiptEvent(session, type, cost))

AppendWorkflowEvent ==
    /\ session.cp.state \notin TerminalStates
    /\ Persist(session.cp, On("workflow", NoCall))

Finalize(final) ==
    /\ session.cp.pending = NoCall
    /\ session.cp.state # "awaiting_reconciliation"
    /\ Persist([session.cp EXCEPT !.state = final],
               [On("session_finalized", NoCall) EXCEPT !.final = final])

\* Time passes or an operator revokes: a grant stops being usable.
GrantLapses(g) ==
    /\ g \in usable
    /\ usable' = usable \ {g}
    /\ UNCHANGED <<session, pc, view, effects, refused>>

Next ==
    \/ \E c \in Calls : AwaitHuman(c)
    \/ \E c \in Calls, g \in OptGrant : StopOnBudget(c, g) \/ Dispatch(c, g)
    \/ \E w \in Workers :
        \/ Start(w) \/ EnterBackend(w) \/ FinishDeferred(w) \/ FinishUncertain(w)
        \/ Abandon(w)
        \/ \E type \in ReceiptEvents, cost \in ReceiptCosts : FinishReceipt(w, type, cost)
    \/ ReconcileInterrupted \/ MarkDeferredUncertain
    \/ \E type \in Resolved, cost \in ReceiptCosts :
        ResolveDeferred(type, cost) \/ ResolveReconciliation(type, cost)
    \/ AppendWorkflowEvent
    \/ \E final \in TerminalStates : Finalize(final)
    \/ \E g \in Grants : GrantLapses(g)

Spec == Init /\ [][Next]_vars

-----------------------------------------------------------------------------
(* Properties *)

\* No idempotency key ever enters backend.execute twice, whatever crashes,
\* concurrent workers and recoveries do between the durable start and the receipt.
EffectAtMostOnce ==
    \A i, j \in DOMAIN effects :
        i # j => KeyOf[effects[i].call] # KeyOf[effects[j].call]

\* Every effect that needs approval ran under a grant bound to that very call,
\* and no grant backed two effects.
EffectApproved ==
    /\ \A i \in DOMAIN effects :
        NeedsGrant[effects[i].call] =>
            effects[i].grant \in Grants /\ GrantFor[effects[i].grant] = effects[i].call
    /\ \A i, j \in DOMAIN effects :
        i # j /\ effects[i].grant # NoGrant => effects[i].grant # effects[j].grant

HasReceipt(s, c) ==
    \E i \in DOMAIN s.events : s.events[i].type \in Resolved /\ s.events[i].call = c

\* An effect that may have happened is never forgotten: its call either has a
\* terminal receipt in the ledger or is still the started pending call, so the
\* session can be neither finalized nor used for another dispatch.
EffectAccounted ==
    \A i \in DOMAIN effects :
        \/ HasReceipt(session, effects[i].call)
        \/ session.cp.pending = effects[i].call /\ session.cp.started

\* Spent plus reserved cost and the number of tool calls stay inside the budget
\* at every moment, the worst case of a call in flight included.
WithinBudget ==
    /\ session.cp.spent + session.cp.reserved <= MaxCostUnits
    /\ session.cp.calls <= MaxToolCalls

=============================================================================
