----------------------------- MODULE ToolEffects ------------------------------
(***************************************************************************)
(* What the tool ledger of a Run promises, without saying how: external    *)
(* effects happen one at a time, an idempotency key is used for at most    *)
(* one of them, an effect is settled with one result before the next one   *)
(* begins, and the Run is told the settled result and nothing else.        *)
(***************************************************************************)
EXTENDS Sequences

CONSTANTS Keys, Results, NoKey

VARIABLES
    entered,    \* the keys of all effects begun, in order
    open,       \* the key of the effect whose result is not settled yet
    settled,    \* the settled effects: [key, result]
    told        \* the settled results the Run's own ledger holds

evars == <<entered, open, settled, told>>

Init ==
    /\ entered = <<>>
    /\ open = NoKey
    /\ settled = {}
    /\ told = {}

Used(k) == \E n \in DOMAIN entered : entered[n] = k

Begin(k) ==
    /\ open = NoKey
    /\ ~Used(k)
    /\ entered' = Append(entered, k)
    /\ open' = k
    /\ UNCHANGED <<settled, told>>

Settle(r) ==
    /\ open # NoKey
    /\ settled' = settled \cup {[key |-> open, result |-> r]}
    /\ open' = NoKey
    /\ UNCHANGED <<entered, told>>

Tell(s) ==
    /\ s \in settled \ told
    /\ told' = told \cup {s}
    /\ UNCHANGED <<entered, open, settled>>

Next ==
    \/ \E k \in Keys : Begin(k)
    \/ \E r \in Results : Settle(r)
    \/ \E s \in settled : Tell(s)

Spec == Init /\ [][Next]_evars

-----------------------------------------------------------------------------
(* What the contract gives its caller *)

TypeOK ==
    /\ entered \in Seq(Keys)
    /\ open \in Keys \cup {NoKey}
    /\ settled \subseteq [key : Keys, result : Results]
    /\ told \subseteq settled

\* An idempotency key buys at most one external effect, for the whole life of the
\* Run (claim_tool_idempotency and the session's ledger together).
AtMostOnce ==
    \A m, n \in DOMAIN entered : entered[m] = entered[n] => m = n

\* One answer per key: what the Run is told of a key never depends on when it is
\* told, and nothing is told of an effect that did not happen or is still open.
OneAnswer ==
    /\ \A s, t \in settled : s.key = t.key => s = t
    /\ \A s \in settled : Used(s.key) /\ (open # NoKey => s.key # open)
=============================================================================
