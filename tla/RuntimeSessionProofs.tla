------------------------- MODULE RuntimeSessionProofs ------------------------
(***************************************************************************)
(* For every set of calls, grants, keys and workers and every budget: the  *)
(* type invariant of RuntimeSession, the budget, and that an effect is      *)
(* entered at most once per idempotency key, under its own grant, and is    *)
(* never forgotten.  Nothing here depends on what CheckpointValid decides:  *)
(* a save the reducer refuses leaves the session as it was.                 *)
(***************************************************************************)
EXTENDS RuntimeSession, TLAPS

Checkpoint == [state : RuntimeStates, spent : Nat, reserved : Nat, calls : Nat,
               pending : OptCall, grant : OptGrant, started : BOOLEAN,
               keys : SUBSET Keys, used : SUBSET Grants]

\* A saved session extends the one it was derived from and ends in the new event.
LEMMA AppendedExtends ==
    ASSUME NEW s \in Session, NEW cp \in Checkpoint, NEW e \in Event
    PROVE  /\ Appended(s, cp, e) \in Session
           /\ Appended(s, cp, e).cp = cp
           /\ Len(s.events) < Len(Appended(s, cp, e).events)
           /\ \A i \in DOMAIN s.events : /\ i \in DOMAIN Appended(s, cp, e).events
                                         /\ Appended(s, cp, e).events[i] = s.events[i]
           /\ Len(Appended(s, cp, e).events) \in DOMAIN Appended(s, cp, e).events
           /\ Last(Appended(s, cp, e).events) = e
<1> DEFINE header == On("session_started", NoCall)
           base == IF s.events = <<>> THEN <<header>> ELSE s.events
<1>1. header \in Event
  BY DEF On, Event, EventTypes, OptCall, OptGrant, RuntimeStates
<1>2. base \in Seq(Event) /\ s.events \in Seq(Event)
  BY <1>1 DEF Session
<1>3. /\ base \o <<e>> \in Seq(Event)
      /\ Len(base \o <<e>>) = Len(base) + 1
      /\ (base \o <<e>>)[Len(base) + 1] = e
      /\ \A i \in 1 .. Len(base) : (base \o <<e>>)[i] = base[i]
  BY <1>2
<1>4. /\ Len(s.events) <= Len(base)
      /\ \A i \in DOMAIN s.events : i \in 1 .. Len(base) /\ base[i] = s.events[i]
  BY <1>2
<1>5. Appended(s, cp, e) = [cp |-> cp, events |-> base \o <<e>>]
  BY DEF Appended
<1> HIDE DEF base, header
<1>6. Appended(s, cp, e) \in Session
  BY <1>3, <1>5 DEF Session, Checkpoint
<1>7. QED
  BY <1>2, <1>3, <1>4, <1>5, <1>6 DEF Last

-----------------------------------------------------------------------------
(* The inductive invariant. *)

EffectKey(i) == KeyOf[effects[i].call]

\* A worker that is past its durable start holds a started session no newer than the
\* stored one, and no two workers hold sessions of the same length.
ViewsBehind ==
    /\ \A w \in Workers : pc[w] # "idle" =>
        /\ Len(view[w].events) <= Len(session.events)
        /\ Len(view[w].events) = Len(session.events) => view[w] = session
        /\ view[w].cp.pending # NoCall /\ view[w].cp.started
    /\ \A w, v \in Workers : pc[w] # "idle" /\ pc[v] # "idle" /\ w # v =>
        Len(view[w].events) # Len(view[v].events)

\* Effects ran for dispatched keys only; a pending call that was not started, or
\* whose worker has not yet entered the backend, has run no effect.
EffectsOfKeys ==
    /\ \A i \in DOMAIN effects : EffectKey(i) \in session.cp.keys
    /\ session.cp.pending # NoCall => KeyOf[session.cp.pending] \in session.cp.keys
    /\ session.cp.pending # NoCall /\ ~session.cp.started =>
        \A i \in DOMAIN effects : EffectKey(i) # KeyOf[session.cp.pending]
    /\ \A w \in Workers : pc[w] = "started" /\ view[w] = session =>
        \A i \in DOMAIN effects : EffectKey(i) # KeyOf[session.cp.pending]

\* The pending call of a session that needs approval carries its own grant.
PendingApproved ==
    /\ session.cp.pending # NoCall /\ NeedsGrant[session.cp.pending] =>
        /\ session.cp.grant \in Grants
        /\ GrantFor[session.cp.grant] = session.cp.pending
    /\ session.cp.pending # NoCall /\ ~NeedsGrant[session.cp.pending] =>
        session.cp.grant = NoGrant

\* Grants recorded with effects are bound to the effect's call.
EffectGrants ==
    \A i \in DOMAIN effects :
        IF NeedsGrant[effects[i].call]
        THEN effects[i].grant \in Grants /\ GrantFor[effects[i].grant] = effects[i].call
        ELSE effects[i].grant = NoGrant

IInv ==
    /\ TypeOK
    /\ ViewsBehind
    /\ EffectsOfKeys
    /\ PendingApproved
    /\ EffectGrants
    /\ EffectAtMostOnce
    /\ EffectAccounted
    /\ WithinBudget

LEMMA EffectTyped ==
    ASSUME TypeOK
    PROVE  /\ Len(effects) \in Nat /\ DOMAIN effects = 1 .. Len(effects)
           /\ \A i \in DOMAIN effects : /\ effects[i].call \in Calls
                                        /\ effects[i].grant \in OptGrant
<1> DEFINE Effect == [call : Calls, grant : OptGrant]
<1>1. effects \in Seq(Effect)
  BY DEF TypeOK
<1> HIDE DEF Effect
<1>2. /\ Len(effects) \in Nat /\ DOMAIN effects = 1 .. Len(effects)
      /\ \A i \in 1 .. Len(effects) : effects[i] \in Effect
  BY <1>1
<1>3. QED
  BY <1>2 DEF Effect

-----------------------------------------------------------------------------
(* Workers that keep, or give up, the session they hold. *)

WorkersStay ==
    /\ pc' \in [Workers -> {"idle", "started", "executing"}]
    /\ view' \in [Workers -> Session]
    /\ \A w \in Workers : pc'[w] = "idle" \/ (pc'[w] = pc[w] /\ view'[w] = view[w])

\* A step that leaves session and effects alone.
LEMMA StoreUntouched ==
    ASSUME IInv, WorkersStay, UNCHANGED <<session, effects>>,
           usable' \subseteq Grants, refused' \subseteq EventTypes
    PROVE  IInv'
<1>1. TypeOK'
  BY DEF IInv, TypeOK, WorkersStay
<1>2. ViewsBehind'
  BY DEF IInv, ViewsBehind, WorkersStay
<1>3. EffectsOfKeys'
  BY DEF IInv, EffectsOfKeys, WorkersStay, EffectKey
<1>4. PendingApproved' /\ EffectGrants' /\ EffectAtMostOnce' /\ WithinBudget'
  BY DEF IInv, PendingApproved, EffectGrants, EffectAtMostOnce, WithinBudget
<1>5. EffectAccounted'
  BY DEF IInv, EffectAccounted, HasReceipt
<1>6. QED
  BY <1>1, <1>2, <1>3, <1>4, <1>5 DEF IInv

\* A save that extends the ledger, whatever it does to the checkpoint, leaves
\* every session a worker already holds strictly behind and keeps all receipts.
LEMMA SaveOutdatesViews ==
    ASSUME IInv, WorkersStay, NEW cp \in Checkpoint, NEW e \in Event,
           session' = Appended(session, cp, e)
    PROVE  /\ ViewsBehind'
           /\ \A w \in Workers : pc'[w] # "idle" => view'[w] # session'
           /\ \A c \in Calls : HasReceipt(session, c) => HasReceipt(session', c)
<1>1. session \in Session
  BY DEF IInv, TypeOK
<1>2. /\ Len(session.events) < Len(session'.events)
      /\ session' \in Session
      /\ \A i \in DOMAIN session.events : i \in DOMAIN session'.events
                                        /\ session'.events[i] = session.events[i]
  BY <1>1, AppendedExtends
<1>3. \A w \in Workers : view[w] \in Session /\ Len(view[w].events) \in Nat
  BY DEF IInv, TypeOK, Session
<1>4. Len(session.events) \in Nat /\ Len(session'.events) \in Nat
  BY <1>1, <1>2 DEF Session
<1>5. \A w \in Workers : pc'[w] # "idle" =>
        /\ pc[w] # "idle" /\ view'[w] = view[w]
        /\ Len(view'[w].events) < Len(session'.events)
  BY <1>2, <1>3, <1>4 DEF IInv, ViewsBehind, WorkersStay
<1>6. ViewsBehind'
  BY <1>3, <1>4, <1>5 DEF IInv, ViewsBehind
<1>7. \A w \in Workers : pc'[w] # "idle" => view'[w] # session'
  BY <1>4, <1>5
<1>8. \A c \in Calls : HasReceipt(session, c) => HasReceipt(session', c)
  BY <1>2 DEF HasReceipt
<1>9. QED
  BY <1>6, <1>7, <1>8

\* Events that change neither the pending call nor the accounts.
SameAccount(cp, cp2) ==
    /\ cp2.spent = cp.spent /\ cp2.reserved = cp.reserved /\ cp2.calls = cp.calls
    /\ cp2.pending = cp.pending /\ cp2.grant = cp.grant /\ cp2.started = cp.started
    /\ cp2.keys = cp.keys /\ cp2.used = cp.used

LEMMA QuietSave ==
    ASSUME IInv, WorkersStay, NEW cp \in Checkpoint, NEW e \in Event,
           session' = Appended(session, cp, e), SameAccount(session.cp, cp),
           UNCHANGED effects, usable' \subseteq Grants, refused' \subseteq EventTypes
    PROVE  IInv'
<1>1. session \in Session
  BY DEF IInv, TypeOK
<1>2. session' \in Session /\ session'.cp = cp
  BY <1>1, AppendedExtends
<1>3. /\ ViewsBehind'
      /\ \A w \in Workers : pc'[w] # "idle" => view'[w] # session'
      /\ \A c \in Calls : HasReceipt(session, c) => HasReceipt(session', c)
  BY SaveOutdatesViews
<1>4. TypeOK'
  BY <1>2 DEF IInv, TypeOK, WorkersStay
<1>5. EffectsOfKeys'
  BY <1>2, <1>3 DEF IInv, EffectsOfKeys, EffectKey, SameAccount
<1>6. PendingApproved' /\ EffectGrants' /\ EffectAtMostOnce' /\ WithinBudget'
  BY <1>2 DEF IInv, PendingApproved, EffectGrants, EffectAtMostOnce, WithinBudget, SameAccount
<1>7. \A i \in DOMAIN effects : effects[i].call \in Calls
  BY EffectTyped DEF IInv
<1>8. EffectAccounted'
  BY <1>2, <1>3, <1>7 DEF IInv, EffectAccounted, SameAccount
<1>9. QED
  BY <1>3, <1>4, <1>5, <1>6, <1>8 DEF IInv

\* The admission of a call whose key and grant are unused and whose worst case fits.
LEMMA DispatchSave ==
    ASSUME IInv, WorkersStay, NEW c \in Calls, NEW g \in OptGrant, NEW e \in Event,
           NEW cp \in Checkpoint, session' = Appended(session, cp, e),
           session.cp.pending = NoCall, KeyOf[c] \notin session.cp.keys,
           IF NeedsGrant[c] THEN g \in Grants /\ GrantFor[g] = c ELSE g = NoGrant,
           cp.pending = c, cp.grant = g, cp.keys = session.cp.keys \cup {KeyOf[c]},
           cp.spent + cp.reserved <= MaxCostUnits, cp.calls <= MaxToolCalls,
           UNCHANGED <<effects, usable, refused>>
    PROVE  IInv'
<1>1. session \in Session
  BY DEF IInv, TypeOK
<1>2. session' \in Session /\ session'.cp = cp
  BY <1>1, AppendedExtends
<1>3. /\ ViewsBehind'
      /\ \A w \in Workers : pc'[w] # "idle" => view'[w] # session'
      /\ \A k \in Calls : HasReceipt(session, k) => HasReceipt(session', k)
  BY SaveOutdatesViews
<1>4. TypeOK'
  BY <1>2 DEF IInv, TypeOK, WorkersStay
<1>5. EffectsOfKeys'
  BY <1>2, <1>3 DEF IInv, EffectsOfKeys, EffectKey
<1>6. PendingApproved'
  BY <1>2, LedgerConstants DEF PendingApproved
<1>7. EffectGrants' /\ EffectAtMostOnce' /\ WithinBudget'
  BY <1>2 DEF IInv, EffectGrants, EffectAtMostOnce, WithinBudget
<1>8. \A i \in DOMAIN effects : effects[i].call \in Calls
  BY EffectTyped DEF IInv
<1>9. EffectAccounted'
  BY <1>2, <1>3, <1>8, LedgerConstants DEF IInv, EffectAccounted
<1>10. QED
  BY <1>3, <1>4, <1>5, <1>6, <1>7, <1>9 DEF IInv

\* A receipt of the started pending call: the call is cleared only by a terminal
\* receipt in the ledger, and the actual cost replaces the reservation.
LEMMA ReceiptSave ==
    ASSUME IInv, WorkersStay, NEW type \in ReceiptEvents, NEW cost \in Nat,
           session' = Appended(session, Receipted(session.cp, type, cost),
                               ReceiptEvent(session, type, cost)),
           session.cp.pending # NoCall,
           type = "tool_unknown_side_effect" => session.cp.started,
           cost <= session.cp.reserved,
           UNCHANGED <<effects, usable, refused>>
    PROVE  IInv'
<1> DEFINE cp == Receipted(session.cp, type, cost)
           e  == ReceiptEvent(session, type, cost)
<1>1. session \in Session /\ session.cp \in Checkpoint
  BY DEF IInv, TypeOK, Session, Checkpoint
<1>2. cp \in Checkpoint
  <2>1. session.cp.spent + cost \in Nat
    BY <1>1 DEF Checkpoint
  <2>2. CASE type = "tool_unknown_side_effect"
    BY <2>1, <2>2, <1>1 DEF Receipted, Checkpoint, RuntimeStates
  <2>3. CASE type # "tool_unknown_side_effect"
    BY <2>1, <2>3, <1>1 DEF Receipted, Checkpoint, RuntimeStates, OptCall, OptGrant
  <2>4. QED
    BY <2>2, <2>3
<1>3. e \in Event /\ e.type = type /\ e.call = session.cp.pending
  BY <1>1 DEF ReceiptEvent, On, Event, EventTypes, Checkpoint, RuntimeStates
<1>4. /\ cp.spent = session.cp.spent + cost /\ cp.reserved = 0
      /\ cp.calls = session.cp.calls /\ cp.keys = session.cp.keys
      /\ IF type = "tool_unknown_side_effect"
         THEN /\ cp.pending = session.cp.pending /\ cp.started = session.cp.started
              /\ cp.grant = session.cp.grant
         ELSE cp.pending = NoCall
  BY <1>1 DEF Receipted, Checkpoint
<1> HIDE DEF cp, e
<1>5. session' = Appended(session, cp, e)
  BY DEF cp, e
<1>6. /\ session' \in Session /\ session'.cp = cp
      /\ Len(session'.events) \in DOMAIN session'.events
      /\ session'.events[Len(session'.events)] = e
  BY <1>1, <1>2, <1>3, <1>5, AppendedExtends DEF Last
<1>7. /\ ViewsBehind'
      /\ \A w \in Workers : pc'[w] # "idle" => view'[w] # session'
      /\ \A k \in Calls : HasReceipt(session, k) => HasReceipt(session', k)
  BY <1>2, <1>3, <1>5, SaveOutdatesViews
<1>8. TypeOK'
  BY <1>6 DEF IInv, TypeOK, WorkersStay
<1>9. EffectsOfKeys'
  BY <1>4, <1>6, <1>7 DEF IInv, EffectsOfKeys, EffectKey
<1>10. PendingApproved' /\ EffectGrants' /\ EffectAtMostOnce'
  BY <1>4, <1>6 DEF IInv, PendingApproved, EffectGrants, EffectAtMostOnce
<1>11. WithinBudget'
  BY <1>1, <1>4, <1>6, LedgerConstants DEF IInv, WithinBudget, Checkpoint
<1>12. \A i \in DOMAIN effects : effects[i].call \in Calls
  BY EffectTyped DEF IInv
<1>13. type # "tool_unknown_side_effect" => HasReceipt(session', session.cp.pending)
  BY <1>3, <1>6 DEF HasReceipt, ReceiptEvents
<1>14. EffectAccounted'
  BY <1>4, <1>6, <1>7, <1>12, <1>13 DEF IInv, EffectAccounted
<1>15. QED
  BY <1>7, <1>8, <1>9, <1>10, <1>11, <1>14 DEF IInv

\* The durable start: from here on only this worker may enter the backend.
LEMMA StartPreserves ==
    ASSUME IInv, NEW w \in Workers, Start(w)
    PROVE  IInv'
<1> DEFINE cp == [session.cp EXCEPT !.started = TRUE]
           e  == On("tool_execution_started", session.cp.pending)
           next == Appended(session, cp, e)
<1>1. session \in Session /\ session.cp \in Checkpoint
  BY DEF IInv, TypeOK, Session, Checkpoint
<1>2. cp \in Checkpoint /\ e \in Event
  BY <1>1 DEF Checkpoint, On, Event, EventTypes, OptGrant, RuntimeStates
<1>3. /\ cp.spent = session.cp.spent /\ cp.reserved = session.cp.reserved
      /\ cp.calls = session.cp.calls /\ cp.pending = session.cp.pending
      /\ cp.grant = session.cp.grant /\ cp.keys = session.cp.keys /\ cp.started
  BY <1>1 DEF Checkpoint
<1> HIDE DEF cp, e
<1>4. /\ next \in Session /\ next.cp = cp
      /\ Len(session.events) < Len(next.events)
      /\ \A i \in DOMAIN session.events : i \in DOMAIN next.events
                                        /\ next.events[i] = session.events[i]
      /\ Last(next.events) = e
  BY <1>1, <1>2, AppendedExtends
<1>5. /\ pc[w] = "idle" /\ session.cp.pending # NoCall /\ ~session.cp.started
      /\ UNCHANGED <<usable, effects>>
  BY DEF Start
<1>6. CASE CheckpointValid(next)
  <2>1. /\ session' = next /\ refused' = refused
        /\ pc' = [pc EXCEPT ![w] = "started"]
        /\ view' = [view EXCEPT ![w] = next]
    BY <1>6 DEF Start, Saved, cp, e
  <2> HIDE DEF next
  <2>2. \A v \in Workers : view[v] \in Session /\ Len(view[v].events) \in Nat
    BY DEF IInv, TypeOK, Session
  <2>3. Len(session.events) \in Nat /\ Len(next.events) \in Nat
    BY <1>1, <1>4 DEF Session
  <2>4. TypeOK'
    BY <2>1, <1>4, <1>5 DEF IInv, TypeOK
  <2>5. \A v \in Workers \ {w} : pc'[v] = pc[v] /\ view'[v] = view[v]
    BY <2>1 DEF IInv, TypeOK
  <2>6. pc'[w] = "started" /\ view'[w] = next
    BY <2>1 DEF IInv, TypeOK
  <2>7. \A v \in Workers \ {w} : pc'[v] # "idle" =>
            Len(view'[v].events) < Len(next.events)
    BY <2>2, <2>3, <2>5, <1>4 DEF IInv, ViewsBehind
  <2>8. ViewsBehind'
    BY <2>1, <2>2, <2>3, <2>5, <2>6, <2>7, <1>3, <1>4, <1>5 DEF IInv, ViewsBehind
  <2>9. EffectsOfKeys'
    BY <2>1, <2>3, <2>5, <2>6, <2>7, <1>3, <1>4, <1>5 DEF IInv, EffectsOfKeys, EffectKey
  <2>10. PendingApproved' /\ EffectGrants' /\ EffectAtMostOnce' /\ WithinBudget'
    BY <2>1, <1>3, <1>4, <1>5
       DEF IInv, PendingApproved, EffectGrants, EffectAtMostOnce, WithinBudget
  <2>11. EffectAccounted'
    BY <2>1, <1>3, <1>4, <1>5 DEF IInv, EffectAccounted, HasReceipt
  <2>12. QED
    BY <2>4, <2>8, <2>9, <2>10, <2>11 DEF IInv
<1>7. CASE ~CheckpointValid(next)
  <2>1. /\ UNCHANGED <<session, pc, view>>
        /\ refused' = refused \cup {Last(next.events).type}
    BY <1>7 DEF Start, Saved, cp, e
  <2>2. refused' \subseteq EventTypes
    BY <2>1, <1>2, <1>4 DEF IInv, TypeOK, Event
  <2>3. WorkersStay /\ usable' \subseteq Grants
    BY <2>1, <1>5 DEF IInv, TypeOK, WorkersStay
  <2>4. QED
    BY <2>1, <2>2, <2>3, <1>5, StoreUntouched
<1>8. QED
  BY <1>6, <1>7

\* Entering the backend: the worker's session is current and just started, so no
\* effect has run for the pending key.
LEMMA EnterPreserves ==
    ASSUME IInv, NEW w \in Workers, EnterBackend(w)
    PROVE  IInv'
<1> DEFINE new == [call |-> session.cp.pending, grant |-> session.cp.grant]
<1>1. /\ pc[w] = "started" /\ view[w] = session
      /\ session.cp.pending # NoCall /\ session.cp.started
      /\ effects' = Append(effects, new)
      /\ pc' = [pc EXCEPT ![w] = "executing"]
      /\ UNCHANGED <<session, usable, view, refused>>
  BY DEF EnterBackend
<1>2. session.cp.pending \in Calls /\ session.cp.grant \in OptGrant
  BY <1>1 DEF IInv, TypeOK, Session, OptCall
<1>3. effects \in Seq([call : Calls, grant : OptGrant]) /\ new \in [call : Calls, grant : OptGrant]
  BY <1>2 DEF IInv, TypeOK
<1>4. /\ effects' \in Seq([call : Calls, grant : OptGrant])
      /\ Len(effects') = Len(effects) + 1
      /\ DOMAIN effects' = 1 .. Len(effects) + 1 /\ DOMAIN effects = 1 .. Len(effects)
      /\ effects'[Len(effects) + 1] = new
      /\ \A i \in DOMAIN effects : effects'[i] = effects[i]
      /\ Len(effects) \in Nat
  BY <1>1, <1>3
<1>5. /\ \A i \in DOMAIN effects' : i \in DOMAIN effects \/ i = Len(effects) + 1
      /\ Len(effects) + 1 \notin DOMAIN effects
  BY <1>4
<1>6. \A i \in DOMAIN effects : EffectKey(i) # KeyOf[session.cp.pending]
  BY <1>1 DEF IInv, EffectsOfKeys
<1>7. TypeOK'
  BY <1>1, <1>4 DEF IInv, TypeOK
<1>8. \A v \in Workers : pc'[v] = IF v = w THEN "executing" ELSE pc[v]
  BY <1>1 DEF IInv, TypeOK
<1>9. ViewsBehind'
  BY <1>1, <1>8 DEF IInv, ViewsBehind
<1>10. \A v \in Workers : pc'[v] = "started" => view[v] # session
  BY <1>1, <1>8 DEF IInv, ViewsBehind
<1>11. EffectsOfKeys'
  <2>1. \A i \in DOMAIN effects' : EffectKey(i)' \in session.cp.keys
    BY <1>1, <1>4, <1>5 DEF IInv, EffectsOfKeys, EffectKey
  <2>2. QED
    BY <2>1, <1>1, <1>10 DEF IInv, EffectsOfKeys
<1>12. EffectGrants'
  BY <1>1, <1>4, <1>5 DEF IInv, EffectGrants, PendingApproved
<1>13. EffectAtMostOnce'
  BY <1>1, <1>4, <1>5, <1>6 DEF IInv, EffectAtMostOnce, EffectKey
<1>14. EffectAccounted'
  BY <1>1, <1>4, <1>5 DEF IInv, EffectAccounted, HasReceipt
<1>15. PendingApproved' /\ WithinBudget'
  BY <1>1 DEF IInv, PendingApproved, WithinBudget
<1>16. QED
  BY <1>7, <1>9, <1>11, <1>12, <1>13, <1>14, <1>15 DEF IInv

-----------------------------------------------------------------------------
(* Every action. *)

LEMMA InitIInv == Init => IInv
<1> SUFFICES ASSUME Init PROVE IInv
  OBVIOUS
<1> USE DEF Init
<1>1. NewSession \in Session
  BY DEF NewSession, Session, Blank, RuntimeStates, OptCall, OptGrant, TerminalStates
<1>2. /\ effects = <<>> /\ DOMAIN effects = {}
      /\ effects \in Seq([call : Calls, grant : OptGrant])
  OBVIOUS
<1>3. TypeOK
  BY <1>1, <1>2 DEF TypeOK
<1>4. ViewsBehind
  BY DEF ViewsBehind
<1>5. EffectsOfKeys /\ PendingApproved /\ EffectGrants /\ EffectAtMostOnce /\ EffectAccounted
  BY <1>2 DEF EffectsOfKeys, PendingApproved, EffectGrants, EffectAtMostOnce,
              EffectAccounted, NewSession, Blank
<1>6. WithinBudget
  BY LedgerConstants DEF WithinBudget, NewSession, Blank
<1>7. QED
  BY <1>3, <1>4, <1>5, <1>6 DEF IInv

\* A save either extends the stored session or is refused and leaves it.
LEMMA SavedCases ==
    ASSUME IInv, NEW s, NEW cp \in Checkpoint, NEW e \in Event,
           s = session, Saved(s, Appended(s, cp, e))
    PROVE  \/ session' = Appended(session, cp, e) /\ UNCHANGED refused
           \/ UNCHANGED session /\ refused' \subseteq EventTypes
<1>1. Last(Appended(session, cp, e).events) = e /\ e.type \in EventTypes
  BY AppendedExtends DEF IInv, TypeOK, Event
<1>2. refused \subseteq EventTypes
  BY DEF IInv, TypeOK
<1>3. QED
  BY <1>1, <1>2 DEF Saved

LEMMA PersistCases ==
    ASSUME IInv, NEW cp \in Checkpoint, NEW e \in Event, Persist(cp, e)
    PROVE  /\ WorkersStay /\ UNCHANGED <<usable, effects>> /\ usable' \subseteq Grants
           /\ \/ session' = Appended(session, cp, e) /\ UNCHANGED refused
              \/ UNCHANGED session /\ refused' \subseteq EventTypes
<1>1. Saved(session, Appended(session, cp, e)) /\ UNCHANGED <<usable, pc, view, effects>>
  BY DEF Persist
<1>2. WorkersStay /\ usable' \subseteq Grants
  BY <1>1 DEF IInv, TypeOK, WorkersStay
<1>3. QED
  BY <1>1, <1>2, SavedCases

LEMMA QuietPersist ==
    ASSUME IInv, NEW cp \in Checkpoint, NEW e \in Event,
           SameAccount(session.cp, cp), Persist(cp, e)
    PROVE  IInv'
<1>1. refused \subseteq EventTypes
  BY DEF IInv, TypeOK
<1>2. QED
  BY <1>1, PersistCases, StoreUntouched, QuietSave

LEMMA ReceiptPersist ==
    ASSUME IInv, NEW type \in Resolved, NEW cost \in Nat,
           session.cp.pending # NoCall, cost <= session.cp.reserved,
           Persist(Receipted(session.cp, type, cost), ReceiptEvent(session, type, cost))
    PROVE  IInv'
<1> DEFINE cp == Receipted(session.cp, type, cost)
           e  == ReceiptEvent(session, type, cost)
<1>1. type \in ReceiptEvents /\ type # "tool_unknown_side_effect"
  BY DEF ReceiptEvents, Resolved
<1>2. session.cp \in Checkpoint
  BY DEF IInv, TypeOK, Session, Checkpoint
<1>3. session.cp.spent + cost \in Nat
  BY <1>2 DEF Checkpoint
<1>4. cp \in Checkpoint
  BY <1>1, <1>2, <1>3 DEF Receipted, Checkpoint, RuntimeStates, OptCall, OptGrant
<1>5. e \in Event
  BY <1>1, <1>2 DEF ReceiptEvent, On, Event, EventTypes, Checkpoint, RuntimeStates
<1> HIDE DEF cp, e
<1>6. Persist(cp, e)
  BY DEF cp, e
<1>7. /\ WorkersStay /\ UNCHANGED <<usable, effects>> /\ usable' \subseteq Grants
      /\ \/ session' = Appended(session, cp, e) /\ UNCHANGED refused
         \/ UNCHANGED session /\ refused' \subseteq EventTypes
  BY <1>4, <1>5, <1>6, PersistCases
<1>8. CASE session' = Appended(session, cp, e) /\ UNCHANGED refused
  BY <1>1, <1>7, <1>8, ReceiptSave DEF cp, e
<1>9. CASE UNCHANGED session /\ refused' \subseteq EventTypes
  BY <1>7, <1>9, StoreUntouched
<1>10. QED
  BY <1>7, <1>8, <1>9

\* A worker that returns from the backend saves only onto the session it entered with.
LEMMA FinishCases ==
    ASSUME IInv, NEW w \in Workers, NEW cp \in Checkpoint, NEW e \in Event,
           Finish(w, cp, e)
    PROVE  /\ view[w] = session /\ session.cp.pending # NoCall /\ session.cp.started
           /\ WorkersStay /\ UNCHANGED <<usable, effects>> /\ usable' \subseteq Grants
           /\ \/ session' = Appended(session, cp, e) /\ UNCHANGED refused
              \/ UNCHANGED session /\ refused' \subseteq EventTypes
<1>1. /\ pc[w] = "executing" /\ Saved(view[w], Appended(view[w], cp, e))
      /\ pc' = [pc EXCEPT ![w] = "idle"] /\ view' = [view EXCEPT ![w] = NewSession]
      /\ UNCHANGED <<usable, effects>>
  BY DEF Finish
<1>2. view[w] = session /\ session.cp.pending # NoCall /\ session.cp.started
  BY <1>1 DEF IInv, ViewsBehind, Saved
<1>3. NewSession \in Session
  BY DEF NewSession, Session, Blank, RuntimeStates, OptCall, OptGrant, TerminalStates
<1>4. WorkersStay /\ usable' \subseteq Grants
  BY <1>1, <1>3 DEF IInv, TypeOK, WorkersStay
<1>5. QED
  BY <1>1, <1>2, <1>4, SavedCases

LEMMA NextPreserves == IInv /\ [Next]_vars => IInv'
<1> SUFFICES ASSUME IInv, [Next]_vars PROVE IInv'
  OBVIOUS
<1>1. session \in Session /\ session.cp \in Checkpoint
  BY DEF IInv, TypeOK, Session, Checkpoint
<1>2. \A type \in EventTypes, c \in OptCall : On(type, c) \in Event
  BY DEF On, Event, OptGrant, RuntimeStates
<1>3. session.cp.pending \in OptCall
  BY <1>1 DEF Checkpoint
<1>4. refused \subseteq EventTypes /\ usable \subseteq Grants
  BY DEF IInv, TypeOK
<1>5. \A st \in RuntimeStates : /\ [session.cp EXCEPT !.state = st] \in Checkpoint
                               /\ SameAccount(session.cp, [session.cp EXCEPT !.state = st])
  BY <1>1 DEF Checkpoint, SameAccount
<1>6. ASSUME NEW c \in Calls, AwaitHuman(c) PROVE IInv'
  BY <1>2, <1>5, <1>6, QuietPersist DEF AwaitHuman, RuntimeStates, EventTypes, OptCall
<1>7. ASSUME NEW c \in Calls, NEW g \in OptGrant, StopOnBudget(c, g) PROVE IInv'
  <2> DEFINE type == IF OverCalls(session) THEN "budget_tool_calls_exhausted"
                                           ELSE "budget_cost_exhausted"
  <2>1. type \in EventTypes /\ c \in OptCall /\ "stopped" \in RuntimeStates
    BY DEF EventTypes, BudgetStops, OptCall, RuntimeStates, TerminalStates
  <2>2. Persist([session.cp EXCEPT !.state = "stopped"], On(type, c))
    BY <1>7 DEF StopOnBudget
  <2> HIDE DEF type
  <2>3. QED
    BY <2>1, <2>2, <1>2, <1>5, QuietPersist
<1>8. ASSUME NEW c \in Calls, NEW g \in OptGrant, Dispatch(c, g) PROVE IInv'
  <2> DEFINE cp == Dispatched(session.cp, c, g)
             e == DispatchEvent(c, g)
  <2>1. KeyOf[c] \in Keys /\ WorstCost[c] \in Nat /\ MaxCostUnits \in Nat /\ MaxToolCalls \in Nat
    BY LedgerConstants
  <2>2. /\ session.cp.reserved + WorstCost[c] \in Nat /\ session.cp.calls + 1 \in Nat
        /\ session.cp.keys \cup {KeyOf[c]} \in SUBSET Keys
        /\ session.cp.used \cup ({g} \ {NoGrant}) \in SUBSET Grants
    BY <1>1, <2>1 DEF Checkpoint, OptGrant
  <2>3. cp \in Checkpoint
    BY <1>1, <2>2 DEF Dispatched, Checkpoint, RuntimeStates, OptCall
  <2>4. e \in Event
    BY <2>1 DEF DispatchEvent, On, Event, EventTypes, OptCall, RuntimeStates
  <2>5. /\ cp.pending = c /\ cp.grant = g /\ cp.keys = session.cp.keys \cup {KeyOf[c]}
        /\ cp.spent = session.cp.spent /\ cp.reserved = session.cp.reserved + WorstCost[c]
        /\ cp.calls = session.cp.calls + 1
    BY <1>1 DEF Dispatched, Checkpoint
  <2>6. /\ session.cp.pending = NoCall /\ KeyOf[c] \notin session.cp.keys
        /\ GrantAdmits(c, g) /\ ~OverCalls(session) /\ ~OverCost(session, c)
        /\ Persist(cp, e)
    BY <1>8 DEF Dispatch, MayDispatch
  <2> HIDE DEF cp, e
  <2>7. cp.spent + cp.reserved <= MaxCostUnits /\ cp.calls <= MaxToolCalls
    BY <1>1, <2>1, <2>5, <2>6 DEF Checkpoint, OverCalls, OverCost
  <2>8. IF NeedsGrant[c] THEN g \in Grants /\ GrantFor[g] = c ELSE g = NoGrant
    BY <2>6, <1>4 DEF GrantAdmits
  <2>9. QED
    BY <2>3, <2>4, <2>5, <2>6, <2>7, <2>8, PersistCases, StoreUntouched, DispatchSave
<1>9. ASSUME NEW w \in Workers, Start(w) PROVE IInv'
  BY <1>9, StartPreserves
<1>10. ASSUME NEW w \in Workers, EnterBackend(w) PROVE IInv'
  BY <1>10, EnterPreserves
<1>11. ASSUME NEW w \in Workers, FinishDeferred(w) PROVE IInv'
  <2>1. view[w].cp \in Checkpoint /\ view[w].cp.pending \in OptCall
    BY DEF IInv, TypeOK, Session, Checkpoint
  <2>2. On("tool_execution_deferred", view[w].cp.pending) \in Event
    BY <2>1, <1>2 DEF EventTypes
  <2>3. SameAccount(session.cp, session.cp)
    BY DEF SameAccount
  <2>4. QED
    BY <1>4, <1>11, <2>1, <2>2, <2>3, FinishCases, StoreUntouched, QuietSave DEF FinishDeferred
<1>12. ASSUME NEW w \in Workers, FinishUncertain(w) PROVE IInv'
  <2>1. view[w].cp \in Checkpoint /\ view[w].cp.pending \in OptCall
    BY DEF IInv, TypeOK, Session, Checkpoint
  <2>2. PICK type \in {"tool_backend_exception", "tool_receipt_rejected"} :
            Finish(w, Uncertain(view[w].cp), On(type, view[w].cp.pending))
    BY <1>12 DEF FinishUncertain
  <2>3. On(type, view[w].cp.pending) \in Event
    BY <2>1, <1>2 DEF EventTypes, ReconciliationEvents
  <2>4. Uncertain(view[w].cp) \in Checkpoint
    BY <2>1 DEF Uncertain, Checkpoint, RuntimeStates
  <2>5. SameAccount(session.cp, Uncertain(session.cp))
    BY <1>5 DEF Uncertain, RuntimeStates
  <2>6. QED
    BY <1>4, <2>2, <2>3, <2>4, <2>5, FinishCases, StoreUntouched, QuietSave
<1>13. ASSUME NEW w \in Workers, Abandon(w) PROVE IInv'
  <2>1. NewSession \in Session
    BY DEF NewSession, Session, Blank, RuntimeStates, OptCall, OptGrant, TerminalStates
  <2>2. WorkersStay /\ UNCHANGED <<session, usable, effects, refused>>
    BY <1>13, <2>1 DEF Abandon, IInv, TypeOK, WorkersStay
  <2>3. QED
    BY <1>4, <2>2, StoreUntouched
<1>14. ASSUME NEW w \in Workers, NEW type \in ReceiptEvents, NEW cost \in ReceiptCosts,
              FinishReceipt(w, type, cost)
       PROVE  IInv'
  <2>1. view[w] \in Session /\ cost \in Nat
    BY SessionConstants DEF IInv, TypeOK
  <2>2. view[w].cp \in Checkpoint /\ view[w].cp.spent + cost \in Nat
    BY <2>1 DEF Session, Checkpoint
  <2> DEFINE cp == Receipted(view[w].cp, type, cost)
             e  == ReceiptEvent(view[w], type, cost)
  <2>3. cp \in Checkpoint
    <3>1. CASE type = "tool_unknown_side_effect"
      BY <2>2, <3>1 DEF Receipted, Checkpoint, RuntimeStates
    <3>2. CASE type # "tool_unknown_side_effect"
      BY <2>2, <3>2 DEF Receipted, Checkpoint, RuntimeStates, OptCall, OptGrant
    <3>3. QED
      BY <3>1, <3>2
  <2>4. e \in Event
    BY <2>1, <2>2 DEF ReceiptEvent, On, Event, EventTypes, Checkpoint, RuntimeStates
  <2>5. Finish(w, cp, e) /\ cost <= view[w].cp.reserved
    BY <1>14 DEF FinishReceipt
  <2> HIDE DEF cp, e
  <2>6. /\ view[w] = session /\ session.cp.pending # NoCall /\ session.cp.started
        /\ WorkersStay /\ UNCHANGED <<usable, effects>> /\ usable' \subseteq Grants
        /\ \/ session' = Appended(session, cp, e) /\ UNCHANGED refused
           \/ UNCHANGED session /\ refused' \subseteq EventTypes
    BY <2>3, <2>4, <2>5, FinishCases
  <2>7. CASE session' = Appended(session, cp, e) /\ UNCHANGED refused
    BY <2>1, <2>5, <2>6, <2>7, ReceiptSave DEF cp, e
  <2>8. CASE UNCHANGED session /\ refused' \subseteq EventTypes
    BY <2>6, <2>8, StoreUntouched
  <2>9. QED
    BY <2>6, <2>7, <2>8
<1>15. ASSUME ReconcileInterrupted PROVE IInv'
  <2>1. On("tool_execution_interrupted", session.cp.pending) \in Event
    BY <1>2, <1>3 DEF EventTypes, ReconciliationEvents
  <2>2. QED
    BY <1>5, <1>15, <2>1, QuietPersist DEF ReconcileInterrupted, Uncertain, RuntimeStates
<1>16. ASSUME MarkDeferredUncertain PROVE IInv'
  <2>1. On("tool_deferred_uncertain", session.cp.pending) \in Event
    BY <1>2, <1>3 DEF EventTypes
  <2>2. QED
    BY <1>5, <1>16, <2>1, QuietPersist DEF MarkDeferredUncertain, Uncertain, RuntimeStates
<1>17. ASSUME NEW type \in Resolved, NEW cost \in ReceiptCosts,
              ResolveDeferred(type, cost) \/ ResolveReconciliation(type, cost)
       PROVE  IInv'
  <2>1. cost \in Nat
    BY SessionConstants
  <2>2. QED
    BY <1>17, <2>1, ReceiptPersist DEF ResolveDeferred, ResolveReconciliation, DeferredPending
<1>18. ASSUME AppendWorkflowEvent PROVE IInv'
  <2>1. On("workflow", NoCall) \in Event /\ SameAccount(session.cp, session.cp)
    BY <1>2 DEF EventTypes, OptCall, SameAccount
  <2>2. QED
    BY <1>1, <1>18, <2>1, QuietPersist DEF AppendWorkflowEvent
<1>19. ASSUME NEW final \in TerminalStates, Finalize(final) PROVE IInv'
  <2>1. final \in RuntimeStates
    BY DEF RuntimeStates
  <2>2. [On("session_finalized", NoCall) EXCEPT !.final = final] \in Event
    BY <2>1 DEF On, Event, EventTypes, OptCall, OptGrant, RuntimeStates
  <2>3. QED
    BY <1>5, <1>19, <2>1, <2>2, QuietPersist DEF Finalize
<1>20. ASSUME NEW g \in Grants, GrantLapses(g) PROVE IInv'
  <2>1. WorkersStay /\ UNCHANGED <<session, effects, refused>> /\ usable' \subseteq Grants
    BY <1>4, <1>20 DEF GrantLapses, IInv, TypeOK, WorkersStay
  <2>2. QED
    BY <1>4, <2>1, StoreUntouched
<1>21. CASE UNCHANGED vars
  BY <1>4, <1>21, StoreUntouched DEF vars, WorkersStay, IInv, TypeOK
<1>22. QED
  BY <1>6, <1>7, <1>8, <1>9, <1>10, <1>11, <1>12, <1>13, <1>14, <1>15, <1>16, <1>17,
     <1>18, <1>19, <1>20, <1>21 DEF Next

\* The strengthened invariant holds in every state the session store can reach.
THEOREM SessionInvariant == Spec => []IInv
<1>1. QED
  BY InitIInv, NextPreserves, PTL DEF Spec

\* Every value the store, the workers and the ghosts take has its type.
THEOREM SessionTypes == Spec => []TypeOK
<1>1. IInv => TypeOK
  BY DEF IInv
<1>2. QED
  BY <1>1, SessionInvariant, PTL

\* execute_persisted_tool's promise: for any number of workers, crashes and
\* recoveries, backend.execute is entered at most once per idempotency key.
THEOREM SessionEffectAtMostOnce == Spec => []EffectAtMostOnce
<1>1. IInv => EffectAtMostOnce
  BY DEF IInv
<1>2. QED
  BY <1>1, SessionInvariant, PTL

\* An effect that needs approval runs under a grant bound to its call, and no
\* grant backs two effects.
THEOREM SessionEffectApproved == Spec => []EffectApproved
<1>1. IInv => EffectApproved
  <2> SUFFICES ASSUME IInv PROVE EffectApproved
    OBVIOUS
  <2>1. \A i \in DOMAIN effects : effects[i].call \in Calls
    BY EffectTyped DEF IInv
  <2>2. QED
    BY <2>1 DEF IInv, EffectGrants, EffectAtMostOnce, EffectApproved
<1>2. QED
  BY <1>1, SessionInvariant, PTL

\* An effect that may have happened is receipted or still pending and started.
THEOREM SessionEffectAccounted == Spec => []EffectAccounted
<1>1. IInv => EffectAccounted
  BY DEF IInv
<1>2. QED
  BY <1>1, SessionInvariant, PTL

\* No interleaving overspends the cost budget or the tool-call budget.
THEOREM SessionWithinBudget == Spec => []WithinBudget
<1>1. IInv => WithinBudget
  BY DEF IInv
<1>2. QED
  BY <1>1, SessionInvariant, PTL

=============================================================================
