------------------------ MODULE ThreadsPublicationProofs ------------------------
(***************************************************************************)
(* For every number of items, calls, Runs and faults: the type invariant   *)
(* of ThreadsPublication, that an item of a draft revision is public at    *)
(* most once, that the ledger and the Runs say what is public, and that an *)
(* erased connection keeps no rows.                                        *)
(***************************************************************************)
EXTENDS ThreadsPublication, FiniteSetTheorems, SequenceTheorems, WellFoundedInduction, TLAPS

-----------------------------------------------------------------------------
(* The candidates that remain. *)

\* Numbers have a least one.
LEMMA Least == ASSUME NEW S, S \subseteq Nat, S # {} PROVE \E m \in S : \A k \in S : m <= k
<1> DEFINE R == OpToRel(<, Nat)
<1>1. \A k, m \in Nat : <<k, m>> \in R <=> k < m
  BY DEF OpToRel
<1>2. IsWellFoundedOn(R, Nat)
  BY NatLessThanWellFounded
<1> HIDE DEF R
<1>3. PICK m \in S : \A k \in S : ~(<<k, m>> \in R)
  BY <1>2, WFMin
<1>4. ASSUME NEW k \in S PROVE m <= k
  <2>1. k \in Nat /\ m \in Nat /\ ~(<<k, m>> \in R)
    BY <1>3
  <2>2. ~(k < m)
    BY <1>1, <2>1
  <2> QED
    BY <2>1, <2>2
<1> QED
  BY <1>4

\* A finite set of positions has an n-th element for every n up to its size.
LEMMA Nth ==
    ASSUME NEW len \in Nat, NEW S, S \subseteq 1..len, NEW n \in 1..Cardinality(S)
    PROVE  \E k \in S : Cardinality(S \cap 1..k) = n
<1> DEFINE C(k) == Cardinality(S \cap 1..k)
           T == {k \in Nat : n <= C(k)}
<1>1. ASSUME NEW k \in Nat PROVE IsFiniteSet(S \cap 1..k) /\ C(k) \in Nat
  <2>1. IsFiniteSet(1..k) /\ S \cap 1..k \subseteq 1..k
    BY FS_Interval
  <2> QED
    BY <2>1, FS_Subset, FS_CardinalityType
<1>2. S \cap 1..len = S
  OBVIOUS
<1>3. len \in T
  BY <1>1, <1>2
<1>4. PICK m \in T : \A k \in T : m <= k
  BY <1>3, Least
<1>5. C(0) = 0
  <2>1. S \cap 1..0 = {}
    OBVIOUS
  <2> QED
    BY <2>1, FS_EmptySet
<1>6. m # 0 /\ m - 1 \in Nat /\ C(m - 1) < n
  BY <1>1, <1>4, <1>5
<1>7. CASE m \in S
  <2>1. S \cap 1..m = (S \cap 1..(m - 1)) \cup {m} /\ m \notin S \cap 1..(m - 1)
    BY <1>4, <1>7
  <2>2. C(m) = C(m - 1) + 1
    BY <1>1, <1>6, <2>1, FS_AddElement
  <2> QED
    <3>1. m \in Nat /\ n <= C(m) /\ C(m - 1) \in Nat /\ C(m - 1) < n
      BY <1>1, <1>4, <1>6
    <3> HIDE DEF C
    <3>2. C(m) = n
      BY <2>2, <3>1
    <3> QED
      BY <1>7, <3>2 DEF C
<1>8. CASE m \notin S
  <2>1. S \cap 1..m = S \cap 1..(m - 1)
    BY <1>4, <1>8
  <2>2. C(m) = C(m - 1) /\ m \in Nat /\ n <= C(m)
    BY <1>4, <2>1
  <2>3. C(m - 1) \in Nat /\ C(m - 1) < n
    BY <1>1, <1>6
  <2> HIDE DEF C
  <2> QED
    BY <2>2, <2>3
<1> QED
  BY <1>7, <1>8

LEMMA WithoutType ==
    ASSUME NEW X, NEW s \in Seq(X), NEW S
    PROVE  Without(s, S) \in Seq(X) /\ Without(<<>>, S) = <<>>
<1>1. Without(s, S) \in Seq(X)
  <2> DEFINE keep == {k \in DOMAIN s : s[k] \notin S}
             at(n) == CHOOSE k \in keep : Cardinality(keep \cap 1..k) = n
  <2>1. Len(s) \in Nat /\ keep \subseteq 1..Len(s) /\ \A k \in keep : s[k] \in X
    OBVIOUS
  <2>2. Cardinality(keep) \in Nat
    <3>1. IsFiniteSet(1..Len(s))
      BY <2>1, FS_Interval
    <3> QED
      BY <2>1, <3>1, FS_Subset, FS_CardinalityType
  <2>3. ASSUME NEW n \in 1..Cardinality(keep) PROVE at(n) \in keep
    <3> HIDE DEF keep
    <3>1. \E k \in keep : Cardinality(keep \cap 1..k) = n
      BY <2>1, Nth
    <3> QED
      BY <3>1
  <2> HIDE DEF at, keep
  <2>4. [n \in 1..Cardinality(keep) |-> s[at(n)]] \in Seq(X)
    <3>1. \A n \in 1..Cardinality(keep) : s[at(n)] \in X
      BY <2>1, <2>3
    <3>2. [n \in 1..Cardinality(keep) |-> s[at(n)]] \in [1..Cardinality(keep) -> X]
      BY <3>1
    <3> QED
      BY <2>2, <3>2, IsASeq
  <2> QED
    BY <2>4 DEF Without, at, keep
<1>2. Without(<<>>, S) = <<>>
  <2>1. {k \in DOMAIN <<>> : <<>>[k] \notin S} = {}
    OBVIOUS
  <2>2. Cardinality({}) = 0
    BY FS_EmptySet
  <2> QED
    BY <2>1, <2>2 DEF Without
<1> QED
  BY <1>1, <1>2

-----------------------------------------------------------------------------
(* The inductive invariant. *)

\* Where an invocation holds the fence and dispatches the item of its op.
Posting == {"creating", "posting", "posted", "reading"}

\* The owner replaced or erased revision r of the draft: no call can use it again.
Passed(r) == draft.revision > r \/ (draft.revision = r /\ draft.state = "none")

\* One invocation holds the fence, and an erasure waits for it.
Places ==
    /\ \A v \in Invocations :
         /\ th[v].pc \in {"idle", "begin", "finish", "refused"} \cup Posting
         /\ th[v].pc # "idle" => call[v].state = "executing"
         /\ th[v].pc \in Posting => ~tombstone
    /\ \A u, v \in Invocations : th[u].pc \in Posting /\ th[v].pc \in Posting => u = v
    /\ th[Poll].pc \in {"resolve", "mark"} => th[Poll].op \in Operations
    /\ th[Author].pc = "replace" => th[Author].seen.state \in {"draft", "approved", "cancelled"}

\* What a row says of the post; a post is remembered by its row until the
\* revision is passed.
Entry(o) ==
    /\ posted[o] <= 1
    /\ row[o].state # "none" => row[o].revision = call[o[1]].revision /\ call[o[1]].state # "none"
    /\ row[o].state = "failed" => posted[o] = 0
    /\ row[o].state = "published" => posted[o] = 1
    /\ row[o].id => posted[o] = 1
    /\ posted[o] > 0 /\ row[o].state # "none" =>
         row[o].state = "uncertain" \/ row[o].id \/ row[o].step = "publish"
    /\ posted[o] > 0 => /\ call[o[1]].state # "none"
                        /\ row[o].state # "none" \/ Passed(call[o[1]].revision)
Ledger == \A o \in Operations : Entry(o)

\* Calls of one revision have different items public.
Apart(u, v, i) == u # v /\ posted[<<u, i>>] > 0 => call[u].revision # call[v].revision
Distinct == \A u, v \in Invocations, i \in Items : posted[<<v, i>>] > 0 => Apart(u, v, i)

\* The item in flight: nobody else has it public.
Flight(v) ==
    LET o == th[v].op IN
    /\ o \in Operations /\ o[1] = v
    /\ row[o].state = IF th[v].pc = "creating" THEN "prepared" ELSE "publishing"
    /\ th[v].pc # "reading" => row[o].id = FALSE
    /\ th[v].pc \in {"posting", "posted"} => row[o].step = "publish"
    /\ th[v].pc = "reading" => row[o].id
    /\ posted[o] = IF th[v].pc \in {"creating", "posting"} THEN 0 ELSE 1
    /\ \A u \in Invocations : Apart(u, v, o[2])
Flights == \A v \in Invocations : th[v].pc \in Posting => Flight(v)

\* A reader has a row of a post that is public, and nobody posts it again.
Reads(w) ==
    LET o == th[w].op IN
    /\ o \in Operations
    /\ th[w].seen.state \in Open /\ th[w].seen.id
    /\ th[w].seen.revision = call[o[1]].revision /\ call[o[1]].state # "none"
    /\ posted[o] = 1
    /\ th[o[1]].pc \in Posting => th[o[1]].op # o
Readers == \A w \in Threads \ Invocations : th[w].pc = "reading" => Reads(w)

Calls == \A v \in Invocations :
    /\ call[v].state # "none" => call[v].revision <= draft.revision
    /\ call[v].result = "succeeded" => \A i \in call[v].items : posted[<<v, i>>] = 1

IInv == /\ TypeOK /\ Places /\ Ledger /\ Distinct /\ Flights /\ Readers /\ Calls
        /\ ErasedStaysErased

-----------------------------------------------------------------------------
(* Steps that write no row. *)

LEMMA IdleThread == Idle \in Thread /\ Idle.pc = "idle" /\ Idle.todo = <<>>
<1>1. <<>> \in Seq(Operations)
  OBVIOUS
<1> QED
  BY <1>1, ThreadsConstants DEF Idle, Thread, NoRow, Row

LEMMA AccountType ==
    ASSUME IInv, NEW status \in {"none", "active", "reauth", "revoked"}, NEW token \in BOOLEAN
    PROVE  /\ Account(status, token) =>
                account' \in [status : {"none", "active", "reauth", "revoked"}, token : BOOLEAN]
           /\ account.token \in BOOLEAN
           /\ account.status \in {"none", "active", "reauth", "revoked"}
BY DEF Account, IInv, TypeOK

LEMMA TroubleType ==
    ASSUME IInv PROVE /\ Trouble => troubles' \in 0..MaxTroubles
                      /\ UNCHANGED troubles => troubles' \in 0..MaxTroubles
BY ThreadsConstants DEF Trouble, IInv, TypeOK

LEMMA InitInv == Init => IInv
<1> SUFFICES ASSUME Init PROVE IInv
  OBVIOUS
<1>1. <<>> \in Seq(Operations)
  OBVIOUS
<1>2. TypeOK
  <2>1. NoRow \in Row /\ NoCall \in Call /\ Idle \in Thread
    BY <1>1, ThreadsConstants DEF Idle, NoRow, NoCall, Row, Call, Thread
  <2> QED
    <3>1. draft \in [revision : 1..MaxRevision, state : {"none", "draft", "approved", "cancelled"}]
          /\ troubles \in 0..MaxTroubles
      BY ThreadsConstants DEF Init
    <3>2. account \in [status : {"none", "active", "reauth", "revoked"}, token : BOOLEAN]
          /\ runOf \in [Invocations -> Runs] /\ tombstone \in BOOLEAN
      BY ThreadsConstants DEF Init
    <3>3. /\ row \in [Operations -> Row] /\ call \in [Invocations -> Call]
          /\ th \in [Threads -> Thread] /\ posted \in [Operations -> Nat]
          /\ waiting \in Seq(Operations)
      BY <1>1, <2>1 DEF Init
    <3> QED
      BY <3>1, <3>2, <3>3 DEF TypeOK
<1>3. Places
  BY ThreadsConstants DEF Init, Places, Idle, Posting, Threads
<1>4. Ledger /\ Distinct
  BY DEF Init, Ledger, Entry, Distinct, NoRow, Operations
<1>5. Flights /\ Readers /\ Calls
  BY ThreadsConstants DEF Init, Flights, Readers, Calls, Idle, NoCall, Posting, Threads
<1>6. ErasedStaysErased
  BY DEF Init, ErasedStaysErased
<1> QED
  BY <1>2, <1>3, <1>4, <1>5, <1>6 DEF IInv

\* What is public stays, nobody begins an item, and revisions only pass.
LEMMA Quiet ==
    ASSUME IInv, TypeOK', Places', UNCHANGED <<row, posted>>,
           \A v \in Invocations : th'[v].pc \in Posting => th'[v] = th[v],
           \A w \in Threads \ Invocations : th'[w].pc = "reading" => th'[w] = th[w] \/ Reads(w)',
           \A r \in Nat : Passed(r) => Passed(r)',
           draft.revision <= draft'.revision,
           \A v \in Invocations :
              /\ call[v].state # "none" =>
                   call'[v].state # "none" /\ call'[v].revision = call[v].revision
              /\ call'[v].state # "none" => call'[v].revision <= draft'.revision
              /\ call'[v].result = "succeeded" => \A i \in call'[v].items :
                   row[<<v, i>>].state = "published" \/ posted[<<v, i>>] = 1,
           tombstone' => tombstone /\ (waiting = <<>> => waiting' = <<>>)
    PROVE  IInv'
<1>1. ASSUME NEW o \in Operations PROVE Entry(o)'
  <2>1. o[1] \in Invocations /\ call[o[1]].revision \in Nat /\ Entry(o)
    BY DEF IInv, TypeOK, Call, Operations, Ledger
  <2> QED
    BY <2>1 DEF Entry
<1>2. \A v \in Invocations, i \in Items : posted[<<v, i>>] > 0 => call'[v].revision = call[v].revision
  <2>1. \A v \in Invocations, i \in Items : posted[<<v, i>>] > 0 => call[v].state # "none"
    BY DEF IInv, Ledger, Entry, Operations
  <2> QED
    BY <2>1
<1>3. Distinct'
  BY <1>2 DEF IInv, Distinct, Apart
<1>4. ASSUME NEW v \in Invocations, th'[v].pc \in Posting PROVE Flight(v)'
  <2>1. /\ Flight(v) /\ th'[v] = th[v] /\ call'[v].revision = call[v].revision
        /\ th[v].op[2] \in Items
    BY <1>4 DEF IInv, Flights, Flight, Places, Posting, Operations
  <2>2. ASSUME NEW u \in Invocations PROVE Apart(u, v, th[v].op[2])'
    BY <1>2, <2>1 DEF Flight, Apart
  <2> QED
    BY <2>1, <2>2 DEF Flight
<1>5. ASSUME NEW w \in Threads \ Invocations, th'[w].pc = "reading" PROVE Reads(w)'
  <2>1. CASE th'[w] = th[w]
    <3>1. Reads(w) /\ th[w].op[1] \in Invocations
      BY <1>5, <2>1 DEF IInv, Readers, Reads, Operations
    <3> QED
      BY <2>1, <3>1 DEF Reads
  <2> QED
    BY <1>5, <2>1
<1>6. Calls'
  <2>1. \A v \in Invocations, i \in Items :
            row[<<v, i>>].state = "published" => posted[<<v, i>>] = 1
    BY DEF IInv, Ledger, Entry, Operations
  <2>2. \A v \in Invocations : call'[v].items \subseteq Items
    BY DEF TypeOK, Call
  <2> QED
    BY <2>1, <2>2 DEF Calls
<1>7. ErasedStaysErased'
  BY DEF IInv, ErasedStaysErased
<1> QED
  BY <1>1, <1>3, <1>4, <1>5, <1>6, <1>7 DEF IInv, Ledger, Flights, Readers

LEMMA StutterPreserves == ASSUME IInv, UNCHANGED vars PROVE IInv'
<1>1. TypeOK' /\ Places'
  BY DEF vars, IInv, TypeOK, Places
<1>2. \A v \in Invocations : call[v].result = "succeeded" => \A i \in call[v].items : posted[<<v, i>>] = 1
  BY DEF IInv, Calls
<1> QED
  BY <1>1, <1>2, Quiet DEF vars, IInv, TypeOK, Calls, Passed

\* The poll, a lookup, a refresh or the author takes a step.
LEMMA Turns ==
    ASSUME IInv, NEW w \in Threads \ Invocations, NEW t \in Thread, th' = [th EXCEPT ![w] = t],
           w = Poll /\ t.pc \in {"resolve", "mark"} => t.op \in Operations,
           w = Author /\ t.pc = "replace" => t.seen.state \in {"draft", "approved", "cancelled"},
           t.pc = "reading" => Reads(w)',
           account' \in [status : {"none", "active", "reauth", "revoked"}, token : BOOLEAN],
           waiting' \in Seq(Operations), waiting = <<>> => waiting' = <<>>,
           troubles' \in 0..MaxTroubles, UNCHANGED <<tombstone, draft, row, call, runOf, posted>>
    PROVE  IInv'
<1>1. /\ th' \in [Threads -> Thread] /\ th'[w] = t /\ \A x \in Threads \ {w} : th'[x] = th[x]
      /\ Invocations \subseteq Threads \ {w} /\ Poll \in Threads /\ Author \in Threads
  BY DEF IInv, TypeOK, Threads
<1>2. TypeOK'
  BY <1>1 DEF IInv, TypeOK
<1>3. Places'
  BY <1>1 DEF IInv, Places
<1>4. \A v \in Invocations : call[v].result = "succeeded" => \A i \in call[v].items : posted[<<v, i>>] = 1
  BY DEF IInv, Calls
<1> QED
  BY <1>1, <1>2, <1>3, <1>4, Quiet DEF IInv, TypeOK, Calls, Passed

\* An invocation moves without dispatching.
LEMMA InvocationTurns ==
    ASSUME IInv, NEW v \in Invocations, NEW t \in Thread, th' = [th EXCEPT ![v] = t],
           t.pc \in {"idle", "begin", "refused"},
           NEW c \in Call, call' = [call EXCEPT ![v] = c], t.pc # "idle" => c.state = "executing",
           call[v].state # "none", c.state # "none", c.revision = call[v].revision,
           c.result = "succeeded" => \A i \in c.items :
              row[<<v, i>>].state = "published" \/ posted[<<v, i>>] = 1,
           UNCHANGED <<account, tombstone, draft, row, waiting, runOf, posted, troubles>>
    PROVE  IInv'
<1>1. /\ th' \in [Threads -> Thread] /\ th'[v] = t /\ \A x \in Threads \ {v} : th'[x] = th[x]
      /\ v \in Threads /\ Poll \in Threads \ {v} /\ Author \in Threads \ {v}
      /\ Invocations \subseteq Threads
  BY ThreadsConstants DEF IInv, TypeOK, Threads
<1>2. /\ call' \in [Invocations -> Call] /\ call'[v] = c
      /\ \A u \in Invocations \ {v} : call'[u] = call[u]
  BY DEF IInv, TypeOK
<1>3. TypeOK'
  BY <1>1, <1>2 DEF IInv, TypeOK
<1>4. Places'
  BY <1>1, <1>2 DEF IInv, Places, Posting
<1>5. \A u \in Invocations : /\ call[u].state # "none" => call[u].revision <= draft.revision
                             /\ call[u].result = "succeeded" => \A i \in call[u].items : posted[<<u, i>>] = 1
  BY DEF IInv, Calls
<1>6. \A u \in Invocations : th'[u].pc \in Posting => th'[u] = th[u]
  BY <1>1 DEF Posting
<1>7. \A w \in Threads \ Invocations : th'[w] = th[w]
  BY <1>1
<1>8. draft.revision <= draft'.revision /\ \A r \in Nat : Passed(r) => Passed(r)'
  BY DEF IInv, TypeOK, Passed
<1> QED
  BY <1>2, <1>3, <1>4, <1>5, <1>6, <1>7, <1>8, Quiet

\* The account and the draft move beside everything else.
LEMMA WorldMoves ==
    ASSUME IInv, UNCHANGED <<row, waiting, call, runOf, th, posted>>,
           account' \in [status : {"none", "active", "reauth", "revoked"}, token : BOOLEAN],
           draft' \in [revision : 1..MaxRevision, state : {"none", "draft", "approved", "cancelled"}],
           draft' = draft \/ draft.revision < draft'.revision,
           tombstone' \in BOOLEAN, tombstone' => tombstone, troubles' \in 0..MaxTroubles
    PROVE  IInv'
<1>1. TypeOK'
  BY DEF IInv, TypeOK
<1>2. Places'
  BY DEF IInv, Places
<1>3. draft.revision <= draft'.revision /\ \A r \in Nat : Passed(r) => Passed(r)'
  BY DEF IInv, TypeOK, Passed
<1>4. \A v \in Invocations : /\ call[v].state # "none" => call[v].revision <= draft'.revision
                             /\ call[v].result = "succeeded" => \A i \in call[v].items : posted[<<v, i>>] = 1
  BY <1>3 DEF IInv, TypeOK, Call, Calls
<1> QED
  BY <1>1, <1>2, <1>3, <1>4, Quiet

-----------------------------------------------------------------------------
(* Calls, readers, the account and the draft. *)

LEMMA ApprovePreserves == ASSUME IInv, NEW v \in Invocations, Approve(v) PROVE IInv'
<1>1. PICK S \in Selections :
        call' = [call EXCEPT ![v] = [state |-> "approved", items |-> S,
                                     revision |-> draft.revision, result |-> None]]
  BY DEF Approve
<1>2. /\ call' \in [Invocations -> Call] /\ call'[v].result # "succeeded"
      /\ call'[v].revision = draft.revision /\ call'[v].state # "none" /\ call[v].state = "none"
      /\ \A u \in Invocations \ {v} : call'[u] = call[u]
  BY <1>1, ThreadsConstants DEF Approve, IInv, TypeOK, Call
<1>3. TypeOK'
  BY <1>2 DEF Approve, world, IInv, TypeOK
<1>4. Places'
  BY <1>2 DEF Approve, world, IInv, Places
<1>5. \A u \in Invocations : /\ call[u].state # "none" => call[u].revision <= draft.revision
                             /\ call[u].result = "succeeded" => \A i \in call[u].items : posted[<<u, i>>] = 1
  BY DEF IInv, Calls
<1>6. UNCHANGED <<row, waiting, th, posted, tombstone, draft>>
  BY DEF Approve, world
<1>7. draft.revision <= draft'.revision /\ \A r \in Nat : Passed(r) => Passed(r)'
  BY <1>6 DEF IInv, TypeOK, Passed
<1>8. draft.revision <= draft.revision
  BY DEF IInv, TypeOK
<1> QED
  BY <1>2, <1>3, <1>4, <1>5, <1>6, <1>7, <1>8, Quiet

LEMMA DispatchPreserves == ASSUME IInv, NEW v \in Invocations, Dispatch(v) PROVE IInv'
<1>1. /\ v \in Threads /\ call[v] \in Call /\ th[v] \in Thread /\ call[v].state = "approved"
      /\ UNCHANGED <<account, tombstone, draft, row, waiting, runOf, posted, troubles>>
  BY DEF Dispatch, world, IInv, TypeOK, Threads
<1>2. call[v].result = "succeeded" => \A i \in call[v].items : posted[<<v, i>>] = 1
  BY DEF IInv, Calls
<1>3. CASE /\ call' = [call EXCEPT ![v].state = "executing"]
           /\ th' = [th EXCEPT ![v].pc = "begin", ![v].left = call[v].items]
  <2> DEFINE t == [th[v] EXCEPT !.pc = "begin", !.left = call[v].items]
             c == [call[v] EXCEPT !.state = "executing"]
  <2>1. t \in Thread /\ t.pc = "begin" /\ th' = [th EXCEPT ![v] = t]
    BY <1>1, <1>3 DEF IInv, TypeOK, Thread, Call
  <2>2. /\ c \in Call /\ c.state = "executing" /\ c.revision = call[v].revision
        /\ c.result = call[v].result /\ c.items = call[v].items /\ call' = [call EXCEPT ![v] = c]
    BY <1>1, <1>3 DEF Call
  <2> HIDE DEF t, c
  <2> QED
    BY <1>1, <1>2, <2>1, <2>2, InvocationTurns
<1>4. CASE call' = [call EXCEPT ![v].state = "told", ![v].result = "failed"] /\ UNCHANGED th
  <2> DEFINE c == [call[v] EXCEPT !.state = "told", !.result = "failed"]
  <2>1. c \in Call /\ c.state = "told" /\ c.revision = call[v].revision /\ c.result = "failed"
        /\ call' = [call EXCEPT ![v] = c]
    BY <1>1, <1>4 DEF Call, IInv, TypeOK
  <2>2. th[v].pc = "idle" /\ th' = [th EXCEPT ![v] = th[v]]
    BY <1>1, <1>4 DEF IInv, TypeOK, Places
  <2> HIDE DEF c
  <2> QED
    BY <1>1, <2>1, <2>2, InvocationTurns
<1> QED
  BY <1>3, <1>4 DEF Dispatch

LEMMA FinishPreserves == ASSUME IInv, NEW v \in Invocations, Finish(v) PROVE IInv'
<1>1. /\ v \in Threads /\ call[v] \in Call /\ th' = [th EXCEPT ![v] = Idle]
      /\ Idle \in Thread /\ Idle.pc = "idle" /\ call[v].state = "executing"
      /\ UNCHANGED <<account, tombstone, draft, row, waiting, runOf, posted, troubles>>
  BY IdleThread DEF Finish, At, world, IInv, TypeOK, Threads, Places
<1>2. call[v].result = "succeeded" => \A i \in call[v].items : posted[<<v, i>>] = 1
  BY DEF IInv, Calls
<1>3. Returned(v) \in {"failed", "unknown", "succeeded"}
      /\ (Returned(v) = "succeeded" => \A i \in call[v].items : row[<<v, i>>].state = "published")
  BY DEF Returned
<1>4. CASE Returned(v) = "unknown"
  <2> DEFINE c == [call[v] EXCEPT !.state = "awaiting"]
  <2>1. /\ c \in Call /\ c.state = "awaiting" /\ c.revision = call[v].revision
        /\ c.result = call[v].result /\ c.items = call[v].items /\ call' = [call EXCEPT ![v] = c]
    BY <1>1, <1>4 DEF Call, Finish
  <2> HIDE DEF c
  <2> QED
    BY <1>1, <1>2, <2>1, InvocationTurns
<1>5. CASE Returned(v) # "unknown"
  <2> DEFINE c == [call[v] EXCEPT !.state = "told", !.result = Returned(v)]
  <2>1. /\ c \in Call /\ c.state = "told" /\ c.revision = call[v].revision
        /\ c.result = Returned(v) /\ c.items = call[v].items /\ call' = [call EXCEPT ![v] = c]
    BY <1>1, <1>3, <1>5 DEF Call, Finish
  <2> HIDE DEF c
  <2> QED
    BY <1>1, <1>3, <2>1, InvocationTurns
<1> QED
  BY <1>4, <1>5

\* A reader that has just read an open row of a known post.
LEMMA AsksReads ==
    ASSUME IInv, NEW w \in Threads \ Invocations, NEW o \in Operations, Known(o),
           th'[w].op = o, th'[w].seen = row[o],
           \A v \in Invocations : th'[v] = th[v], UNCHANGED <<row, call, posted>>
    PROVE  Reads(w)'
<1>1. Entry(o) /\ row[o].state \in {"uncertain", "published"} /\ row[o].id /\ o[1] \in Invocations
  BY DEF IInv, Ledger, Known, Open, Operations
<1>2. th[o[1]].pc \in Posting => th[o[1]].op # o
  <2>1. ASSUME th[o[1]].pc \in Posting, th[o[1]].op = o PROVE FALSE
    BY <1>1, <2>1 DEF IInv, Flights, Flight
  <2> QED
    BY <2>1
<1> QED
  BY <1>1, <1>2 DEF Reads, Entry, Open

LEMMA MissesPreserves ==
    ASSUME IInv, NEW w \in Threads \ Invocations, NEW next \in {"idle", "list"}, Misses(w, next)
    PROVE  IInv'
<1> DEFINE t == [Idle EXCEPT !.pc = next, !.todo = th[w].todo]
<1>1. t \in Thread /\ t.pc = next
  BY IdleThread DEF Idle, IInv, TypeOK, Thread
<1>2. th' = [th EXCEPT ![w] = t]
  BY DEF Misses
<1> HIDE DEF t
<1>3. account' \in [status : {"none", "active", "reauth", "revoked"}, token : BOOLEAN]
      /\ troubles' \in 0..MaxTroubles /\ waiting' \in Seq(Operations)
      /\ UNCHANGED <<waiting, tombstone, draft, row, call, runOf, posted>>
  BY ThreadsConstants DEF Misses, Trouble, IInv, TypeOK
<1> QED
  BY <1>1, <1>2, <1>3, Turns

LEMMA PollBeginsPreserves == ASSUME IInv, PollBegins PROVE IInv'
<1> DEFINE t == [Idle EXCEPT !.pc = "list", !.todo = waiting]
<1>1. t \in Thread /\ t.pc = "list"
  BY IdleThread DEF Idle, IInv, TypeOK, Thread
<1>2. th' = [th EXCEPT ![Poll] = t] /\ Poll \in Threads \ Invocations
  BY ThreadsConstants DEF PollBegins, Threads
<1> HIDE DEF t
<1> QED
  BY <1>1, <1>2, Turns DEF PollBegins, world, IInv, TypeOK

LEMMA PollEndsPreserves == ASSUME IInv, PollEnds PROVE IInv'
<1>1. th' = [th EXCEPT ![Poll] = Idle] /\ Poll \in Threads \ Invocations
  BY ThreadsConstants DEF PollEnds, Threads
<1> QED
  BY <1>1, IdleThread, Turns DEF PollEnds, world, IInv, TypeOK

LEMMA PollMarksPreserves == ASSUME IInv, PollMarks PROVE IInv'
<1>1. th' = [th EXCEPT ![Poll] = Idle] /\ Poll \in Threads \ Invocations
  BY ThreadsConstants DEF PollMarks, Threads
<1>2. waiting' \in Seq(Operations) /\ (waiting = <<>> => waiting' = <<>>)
  BY WithoutType DEF PollMarks, IInv, TypeOK
<1> QED
  BY <1>1, <1>2, IdleThread, Turns DEF PollMarks, world, IInv, TypeOK

LEMMA PollTakesPreserves == ASSUME IInv, PollTakes PROVE IInv'
<1> DEFINE o == Head(th[Poll].todo)
           rest == Tail(th[Poll].todo)
<1>1. /\ Poll \in Threads \ Invocations /\ th[Poll] \in Thread /\ th[Poll].pc = "list"
      /\ o \in Operations /\ rest \in Seq(Operations)
  BY ThreadsConstants DEF PollTakes, At, IInv, TypeOK, Thread, Threads
<1>2. /\ waiting' \in Seq(Operations) /\ (waiting = <<>> => waiting' = <<>>)
      /\ UNCHANGED <<account, tombstone, draft, row, call, runOf, posted, troubles>>
      /\ account' \in [status : {"none", "active", "reauth", "revoked"}, token : BOOLEAN]
      /\ troubles' \in 0..MaxTroubles
  BY <1>1, WithoutType DEF PollTakes, world, IInv, TypeOK
<1> HIDE DEF o, rest
<1>3. CASE th' = [th EXCEPT ![Poll].todo = rest]
  <2> DEFINE t == [th[Poll] EXCEPT !.todo = rest]
  <2>1. t \in Thread /\ t.pc = "list" /\ th' = [th EXCEPT ![Poll] = t]
    BY <1>1, <1>3 DEF Thread
  <2> HIDE DEF t
  <2> QED
    BY <1>1, <1>2, <2>1, Turns
<1>4. CASE th' = [th EXCEPT ![Poll] = Idle]
  BY <1>1, <1>2, <1>4, IdleThread, Turns
<1>5. CASE th' = [th EXCEPT ![Poll].pc = "resolve", ![Poll].op = o]
  <2> DEFINE t == [th[Poll] EXCEPT !.pc = "resolve", !.op = o]
  <2>1. t \in Thread /\ t.pc = "resolve" /\ t.op = o /\ th' = [th EXCEPT ![Poll] = t]
    BY <1>1, <1>5 DEF Thread
  <2> HIDE DEF t
  <2> QED
    BY <1>1, <1>2, <2>1, Turns
<1>6. CASE Known(o) /\ Asks(Poll, o, rest)
  <2> DEFINE t == [pc |-> "reading", op |-> o, left |-> {}, todo |-> rest, seen |-> row[o]]
  <2>1. t \in Thread /\ t.pc = "reading" /\ t.op = o /\ t.seen = row[o]
    BY <1>1 DEF IInv, TypeOK, Thread
  <2>2. th' = [th EXCEPT ![Poll] = t]
    BY <1>6 DEF Asks
  <2> HIDE DEF t
  <2>3. th'[Poll] = t /\ \A v \in Invocations : th'[v] = th[v]
    BY <1>1, <2>2 DEF IInv, TypeOK, Threads
  <2>4. Reads(Poll)'
    BY <1>1, <1>2, <1>6, <2>1, <2>3, AsksReads
  <2> QED
    BY <1>1, <1>2, <2>1, <2>2, <2>4, Turns
<1> QED
  BY <1>3, <1>4, <1>5, <1>6 DEF PollTakes, o, rest

LEMMA LookupAsksPreserves == ASSUME IInv, NEW o \in Operations, LookupAsks(o) PROVE IInv'
<1> DEFINE t == [pc |-> "reading", op |-> o, left |-> {}, todo |-> <<>>, seen |-> row[o]]
<1>0. <<>> \in Seq(Operations)
  OBVIOUS
<1>1. t \in Thread /\ t.pc = "reading" /\ t.op = o /\ t.seen = row[o]
  BY <1>0 DEF IInv, TypeOK, Thread
<1>2. th' = [th EXCEPT ![Lookup] = t] /\ Lookup \in Threads \ Invocations /\ Lookup # Poll
  BY ThreadsConstants DEF LookupAsks, Asks, Threads
<1> HIDE DEF t
<1>3. th'[Lookup] = t /\ \A v \in Invocations : th'[v] = th[v]
  BY <1>2 DEF IInv, TypeOK, Threads
<1>4. /\ UNCHANGED <<account, tombstone, draft, row, call, runOf, posted, waiting>>
      /\ troubles' \in 0..MaxTroubles
  BY ThreadsConstants DEF LookupAsks, world, Trouble, IInv, TypeOK
<1>5. Reads(Lookup)'
  BY <1>1, <1>2, <1>3, <1>4, AsksReads DEF LookupAsks
<1> QED
  BY <1>1, <1>2, <1>4, <1>5, Turns DEF IInv, TypeOK

LEMMA ProfilePreserves == ASSUME IInv, ProfileAsks \/ ProfileAnswered PROVE IInv'
<1>1. Profile \in Threads \ Invocations /\ Profile # Poll /\ th[Profile] \in Thread
  BY ThreadsConstants DEF Threads, IInv, TypeOK
<1>2. PICK place \in {"asking", "idle"} : th' = [th EXCEPT ![Profile].pc = place]
  BY DEF ProfileAsks, ProfileAnswered, Goto
<1> DEFINE t == [th[Profile] EXCEPT !.pc = place]
<1>3. t \in Thread /\ t.pc = place /\ th' = [th EXCEPT ![Profile] = t]
  BY <1>1, <1>2 DEF Thread
<1> HIDE DEF t
<1>4. /\ account' \in [status : {"none", "active", "reauth", "revoked"}, token : BOOLEAN]
      /\ troubles' \in 0..MaxTroubles
      /\ UNCHANGED <<waiting, tombstone, draft, row, call, runOf, posted>>
  <2>1. CASE ProfileAsks
    BY <2>1, TroubleType DEF ProfileAsks, world, IInv, TypeOK
  <2>2. CASE ProfileAnswered
    BY <2>2, TroubleType, AccountType DEF ProfileAnswered, IInv, TypeOK
  <2> QED
    BY <2>1, <2>2
<1> QED
  BY <1>1, <1>3, <1>4, Turns DEF IInv, TypeOK

LEMMA AuthorChecksPreserves == ASSUME IInv, AuthorChecks PROVE IInv'
<1>1. Author \in Threads \ Invocations /\ Author # Poll /\ th[Author] \in Thread
  BY ThreadsConstants DEF Threads, IInv, TypeOK
<1>2. PICK state \in {"draft", "approved", "cancelled"} :
        th' = [th EXCEPT ![Author].pc = "replace",
                 ![Author].seen = [NoRow EXCEPT !.state = state, !.revision = draft.revision]]
  BY DEF AuthorChecks
<1> DEFINE r == [NoRow EXCEPT !.state = state, !.revision = draft.revision]
           t == [th[Author] EXCEPT !.pc = "replace", !.seen = r]
<1>3. r \in Row /\ r.state = state
  <2>1. draft.revision \in 0..MaxRevision
    BY DEF IInv, TypeOK
  <2> QED
    BY <2>1 DEF Row, NoRow
<1>4. th' = [th EXCEPT ![Author] = t]
  BY <1>1, <1>2
<1> HIDE DEF r
<1>5. t \in Thread /\ t.pc = "replace" /\ t.seen = r
  BY <1>1, <1>3 DEF Thread
<1> HIDE DEF t
<1>6. /\ troubles' \in 0..MaxTroubles
      /\ UNCHANGED <<account, waiting, tombstone, draft, row, call, runOf, posted>>
  BY ThreadsConstants DEF AuthorChecks, world, Trouble, IInv, TypeOK
<1> QED
  BY <1>1, <1>3, <1>4, <1>5, <1>6, Turns DEF IInv, TypeOK

LEMMA RevokePreserves == ASSUME IInv, Revoke PROVE IInv'
BY WorldMoves, AccountType, TroubleType DEF Revoke, IInv, TypeOK

LEMMA ConnectPreserves == ASSUME IInv, Connect PROVE IInv'
<1>1. account' \in [status : {"none", "active", "reauth", "revoked"}, token : BOOLEAN]
  BY DEF Connect, Account
<1>2. tombstone' \in BOOLEAN /\ (tombstone' => tombstone) /\ troubles' \in 0..MaxTroubles
  <2>1. tombstone \in BOOLEAN
    BY DEF IInv, TypeOK
  <2>2. CASE tombstone' = FALSE /\ UNCHANGED troubles
    BY <2>2, TroubleType
  <2>3. CASE UNCHANGED tombstone /\ Trouble
    BY <2>1, <2>3, TroubleType
  <2> QED
    BY <2>2, <2>3 DEF Connect
<1>3. /\ UNCHANGED <<row, waiting, call, runOf, th, posted, draft>>
      /\ draft \in [revision : 1..MaxRevision, state : {"none", "draft", "approved", "cancelled"}]
  BY DEF Connect, IInv, TypeOK
<1> QED
  BY <1>1, <1>2, <1>3, WorldMoves

LEMMA DraftCreatePreserves == ASSUME IInv, DraftCreate PROVE IInv'
BY WorldMoves, ThreadsConstants DEF DraftCreate, IInv, TypeOK

LEMMA AuthorReplacesPreserves == ASSUME IInv, AuthorReplaces PROVE IInv'
<1>1. /\ Author \in Threads \ Invocations /\ Author # Poll /\ th' = [th EXCEPT ![Author] = Idle]
      /\ th[Author].seen.state \in {"draft", "approved", "cancelled"}
      /\ UNCHANGED <<account, tombstone, row, waiting, call, runOf, posted, troubles>>
  BY ThreadsConstants DEF Threads, AuthorReplaces, At, IInv, Places
<1>2. /\ draft' \in [revision : 1..MaxRevision, state : {"none", "draft", "approved", "cancelled"}]
      /\ draft' = draft \/ draft.revision < draft'.revision
  BY <1>1, ThreadsConstants DEF AuthorReplaces, IInv, TypeOK
<1>3. /\ th' \in [Threads -> Thread] /\ th'[Author] = Idle
      /\ \A x \in Threads \ {Author} : th'[x] = th[x]
      /\ Invocations \subseteq Threads \ {Author}
      /\ Poll \in Threads
  BY <1>1, IdleThread DEF IInv, TypeOK, Threads
<1>4. TypeOK'
  BY <1>1, <1>2, <1>3 DEF IInv, TypeOK
<1>5. Places'
  BY <1>1, <1>3, IdleThread DEF IInv, Places
<1>6. draft.revision <= draft'.revision /\ \A r \in Nat : Passed(r) => Passed(r)'
  BY <1>2 DEF IInv, TypeOK, Passed
<1>7. \A v \in Invocations : /\ call[v].state # "none" => call[v].revision <= draft'.revision
                             /\ call[v].result = "succeeded" => \A i \in call[v].items : posted[<<v, i>>] = 1
  BY <1>2 DEF IInv, TypeOK, Call, Calls
<1>8. \A v \in Invocations : th'[v] = th[v]
  BY <1>3
<1>9. \A w \in Threads \ Invocations : th'[w].pc = "reading" => th'[w] = th[w]
  BY <1>3, IdleThread
<1> QED
  BY <1>1, <1>4, <1>5, <1>6, <1>7, <1>8, <1>9, Quiet

LEMMA PollResolvesPreserves == ASSUME IInv, PollResolves PROVE IInv'
<1> DEFINE v == th[Poll].op[1]
<1>1. /\ Poll \in Threads \ Invocations /\ th[Poll] \in Thread /\ th[Poll].op \in Operations
      /\ v \in Invocations /\ call[v] \in Call
      /\ UNCHANGED <<account, tombstone, draft, row, waiting, runOf, posted, troubles>>
  BY ThreadsConstants DEF PollResolves, At, world, IInv, TypeOK, Places, Threads, Operations
<1>2. CASE call[v].state = "awaiting"
  <2> DEFINE whole == \A i \in call[v].items : row[<<v, i>>].state = "published"
             c == [call[v] EXCEPT !.state = "told", !.result = IF whole THEN "succeeded" ELSE "failed"]
             t == [th[Poll] EXCEPT !.pc = "mark"]
  <2>1. /\ c \in Call /\ c.state = "told" /\ c.revision = call[v].revision /\ c.items = call[v].items
        /\ c.result = "succeeded" => whole
    BY <1>1 DEF Call
  <2>2. call' = [call EXCEPT ![v] = c]
    BY <1>2 DEF PollResolves, IInv, TypeOK
  <2>3. t \in Thread /\ t.pc = "mark" /\ t.op \in Operations /\ th' = [th EXCEPT ![Poll] = t]
    BY <1>1, <1>2 DEF PollResolves, Goto, Thread
  <2> HIDE DEF v, c, t
  <2>4. /\ call' \in [Invocations -> Call] /\ call'[v] = c
        /\ \A u \in Invocations \ {v} : call'[u] = call[u]
    BY <1>1, <2>1, <2>2 DEF IInv, TypeOK
  <2>5. /\ th' \in [Threads -> Thread] /\ th'[Poll] = t /\ \A x \in Threads \ {Poll} : th'[x] = th[x]
        /\ Invocations \subseteq Threads \ {Poll} /\ Author \in Threads \ {Poll}
    BY <1>1, <2>3, ThreadsConstants DEF IInv, TypeOK, Threads
  <2>6. TypeOK'
    BY <1>1, <2>4, <2>5 DEF IInv, TypeOK
  <2>7. \A u \in Invocations : th[u].pc # "idle" => u # v
    BY <1>2 DEF IInv, Places
  <2>8. Places'
    BY <1>1, <2>3, <2>4, <2>5, <2>7 DEF IInv, Places
  <2>9. \A u \in Invocations : /\ call[u].state # "none" => call[u].revision <= draft.revision
                               /\ call[u].result = "succeeded" => \A i \in call[u].items : posted[<<u, i>>] = 1
    BY DEF IInv, Calls
  <2>10. draft.revision <= draft'.revision /\ \A r \in Nat : Passed(r) => Passed(r)'
    BY <1>1 DEF IInv, TypeOK, Passed
  <2>11. \A u \in Invocations : th'[u] = th[u]
    BY <2>5
  <2>12. \A w \in Threads \ Invocations : th'[w].pc = "reading" => th'[w] = th[w]
    BY <2>3, <2>5
  <2>13. \A u \in Invocations :
              /\ call[u].state # "none" =>
                   call'[u].state # "none" /\ call'[u].revision = call[u].revision
              /\ call'[u].state # "none" => call'[u].revision <= draft'.revision
              /\ call'[u].result = "succeeded" => \A i \in call'[u].items :
                   row[<<u, i>>].state = "published" \/ posted[<<u, i>>] = 1
    BY <1>1, <1>2, <2>1, <2>4, <2>9
  <2> QED
    BY <1>1, <2>6, <2>8, <2>10, <2>11, <2>12, <2>13, Quiet
<1>3. CASE call[v].state # "awaiting"
  <2>1. th' = [th EXCEPT ![Poll] = Idle] /\ call' = call
    BY <1>3 DEF PollResolves
  <2> QED
    BY <1>1, <2>1, IdleThread, Turns DEF IInv, TypeOK
<1> QED
  BY <1>2, <1>3

LEMMA CrashPreserves == ASSUME IInv, Crash PROVE IInv'
<1>1. /\ \A w \in Threads : th'[w] = Idle
      /\ th' \in [Threads -> Thread] /\ troubles' \in 0..MaxTroubles
      /\ UNCHANGED <<account, tombstone, draft, row, waiting, runOf, posted>>
  BY IdleThread, TroubleType DEF Crash, world
<1>2. /\ call' \in [Invocations -> Call]
      /\ \A v \in Invocations : /\ call'[v].state = "none" <=> call[v].state = "none"
                                /\ call'[v].revision = call[v].revision
                                /\ call'[v].items = call[v].items /\ call'[v].result = call[v].result
  BY DEF Crash, IInv, TypeOK, Call
<1>3. TypeOK'
  BY <1>1, <1>2 DEF IInv, TypeOK
<1>4. Places'
  <2>1. \A w \in Threads : th'[w].pc = "idle"
    BY <1>1, IdleThread
  <2>2. Poll \in Threads /\ Author \in Threads /\ Invocations \subseteq Threads
    BY DEF Threads
  <2> QED
    BY <2>1, <2>2 DEF Places, Posting
<1>5. \A v \in Invocations : /\ call[v].state # "none" => call[v].revision <= draft.revision
                             /\ call[v].result = "succeeded" => \A i \in call[v].items : posted[<<v, i>>] = 1
  BY DEF IInv, Calls
<1>6. draft.revision <= draft'.revision /\ \A r \in Nat : Passed(r) => Passed(r)'
  BY <1>1 DEF IInv, TypeOK, Passed
<1>7. \A w \in Threads : th'[w].pc \notin Posting
  BY <1>1, IdleThread DEF Posting
<1>8. Invocations \subseteq Threads /\ "reading" \in Posting
  BY DEF Threads, Posting
<1> QED
  BY <1>1, <1>2, <1>3, <1>4, <1>5, <1>6, <1>7, <1>8, Quiet

LEMMA ErasePreserves == ASSUME IInv, Erase PROVE IInv'
<1>1. /\ UNCHANGED <<call, runOf, th, posted>> /\ troubles' \in 0..MaxTroubles
      /\ \A v \in Invocations : th[v].pc \notin Posting
  BY TroubleType DEF Erase, Fenced, At, Posting
<1>2. CASE Account(account.status, FALSE) /\ UNCHANGED <<tombstone, draft, row, waiting>>
  BY <1>1, <1>2, AccountType, WorldMoves DEF IInv, TypeOK
<1>3. CASE /\ Account("none", FALSE) /\ tombstone' = TRUE
           /\ draft' = [draft EXCEPT !.state = "none"]
           /\ row' = [o \in Operations |-> NoRow] /\ waiting' = <<>>
  <2>1. NoRow \in Row /\ NoRow.state = "none" /\ <<>> \in Seq(Operations) /\ NoRow.id = FALSE
    BY ThreadsConstants DEF NoRow, Row
  <2>2. /\ draft' \in [revision : 1..MaxRevision, state : {"none", "draft", "approved", "cancelled"}]
        /\ draft'.revision = draft.revision /\ draft'.state = "none"
    BY <1>3 DEF IInv, TypeOK
  <2>3. TypeOK'
    BY <1>1, <1>3, <2>1, <2>2, AccountType DEF IInv, TypeOK
  <2>4. Places'
    BY <1>1 DEF IInv, Places
  <2>5. ASSUME NEW o \in Operations PROVE Entry(o)'
    <3>1. row'[o].state = "none" /\ row'[o].id = FALSE
      BY <1>3, <2>1
    <3>2. posted[o] > 0 => call[o[1]].state # "none" /\ call[o[1]].revision <= draft.revision
      BY DEF IInv, Ledger, Entry, Calls, Operations
    <3>3. posted[o] > 0 => Passed(call[o[1]].revision)'
      <4>1. call[o[1]].revision \in Nat /\ draft.revision \in Nat
        BY DEF IInv, TypeOK, Call, Operations
      <4> QED
        BY <1>1, <2>2, <3>2, <4>1 DEF Passed
    <3>4. posted[o] <= 1
      BY DEF IInv, Ledger, Entry
    <3> QED
      BY <1>1, <3>1, <3>2, <3>3, <3>4 DEF Entry
  <2>6. Distinct' /\ Readers'
    BY <1>1 DEF IInv, Distinct, Apart, Readers, Reads
  <2>7. Flights'
    BY <1>1 DEF Flights
  <2>8. Calls'
    BY <1>1, <2>2 DEF IInv, Calls
  <2>9. ErasedStaysErased'
    BY <1>3, <2>1 DEF ErasedStaysErased
  <2> QED
    BY <2>3, <2>4, <2>5, <2>6, <2>7, <2>8, <2>9 DEF IInv, Ledger
<1> QED
  BY <1>2, <1>3 DEF Erase

-----------------------------------------------------------------------------
(* Steps that write a row. *)

\* The invocation v that holds the fence writes the row of its item o, or posts:
\* r is the row from now on, n how often the item is public, t the thread.
Writes(v, o, r, n, t) ==
    /\ th[v].pc \in Posting /\ o = th[v].op
    /\ r \in Row /\ row' = [row EXCEPT ![o] = r]
    /\ r.state \in {"publishing", "uncertain", "published", "failed"}
    /\ r.revision = row[o].revision
    /\ n \in {0, 1} /\ posted' = [posted EXCEPT ![o] = n] /\ posted[o] <= n
    /\ r.state = "failed" => n = 0
    /\ r.state = "published" => n = 1
    /\ r.id => n = 1
    /\ n = 1 => r.state = "uncertain" \/ r.id \/ r.step = "publish"
    /\ waiting' \in Seq(Operations)
    /\ t \in Thread /\ th' = [th EXCEPT ![v] = t]
    /\ t.pc \in {"posting", "posted", "reading", "finish", "begin"}
    /\ t.pc \in Posting =>
          /\ t.op = o /\ r.state = "publishing" /\ (r.id <=> t.pc = "reading")
          /\ t.pc \in {"posting", "posted"} => r.step = "publish"
          /\ n = IF t.pc = "posting" THEN 0 ELSE 1
    /\ account' \in [status : {"none", "active", "reauth", "revoked"}, token : BOOLEAN]
    /\ troubles' \in 0..MaxTroubles /\ UNCHANGED <<tombstone, draft, call, runOf>>

LEMMA FlightWrites ==
    ASSUME IInv, NEW v \in Invocations, NEW o, NEW r, NEW n, NEW t, Writes(v, o, r, n, t)
    PROVE  IInv'
<1> USE DEF Writes
<1>1. /\ Flight(v) /\ o \in Operations /\ o[1] = v /\ row[o].state # "none"
      /\ call[v].state = "executing" /\ ~tombstone /\ v \in Threads
      /\ o[2] \in Items /\ o = <<v, o[2]>>
  BY DEF IInv, Flights, Flight, Places, Threads, Operations, Posting
<1>2. /\ row' \in [Operations -> Row] /\ row'[o] = r
      /\ \A p \in Operations \ {o} : row'[p] = row[p]
      /\ posted' \in [Operations -> Nat] /\ posted'[o] = n
      /\ \A p \in Operations \ {o} : posted'[p] = posted[p]
  BY <1>1 DEF IInv, TypeOK
<1>3. /\ th' \in [Threads -> Thread] /\ th'[v] = t /\ \A x \in Threads \ {v} : th'[x] = th[x]
      /\ Invocations \subseteq Threads /\ Poll \in Threads \ {v} /\ Author \in Threads \ {v}
  BY <1>1, ThreadsConstants DEF IInv, TypeOK, Threads
<1>4. TypeOK'
  BY <1>2, <1>3 DEF IInv, TypeOK
<1>5. Places'
  BY <1>1, <1>3 DEF IInv, Places, Posting
<1>6. ASSUME NEW p \in Operations PROVE Entry(p)'
  <2>1. Entry(p) /\ row[o].revision = call[v].revision
    BY <1>1 DEF IInv, Ledger, Entry
  <2>2. CASE p = o
    BY <1>1, <1>2, <2>1, <2>2 DEF Entry
  <2>3. CASE p # o
    BY <1>2, <2>1, <2>3 DEF Entry, Passed
  <2> QED
    BY <2>2, <2>3
<1>7. ASSUME NEW u \in Invocations, NEW w \in Invocations, NEW i \in Items, posted'[<<w, i>>] > 0
      PROVE  Apart(u, w, i)'
  <2>1. /\ posted[<<w, i>>] > 0 => Apart(u, w, i)
        /\ <<w, i>> \in Operations /\ <<u, i>> \in Operations
    BY DEF IInv, Distinct, Operations
  <2>2. \A x \in Invocations : Apart(x, v, o[2])
    BY <1>1 DEF Flight
  <2>3. CASE <<w, i>> = o
    <3>1. w = v /\ i = o[2] /\ (u # w => <<u, i>> # o)
      BY <1>1, <2>3
    <3> QED
      BY <1>2, <2>1, <2>2, <3>1 DEF Apart
  <2>4. CASE <<u, i>> = o /\ <<w, i>> # o
    <3>1. u = v /\ i = o[2] /\ posted[<<w, i>>] > 0
      BY <1>1, <1>2, <1>7, <2>1, <2>4
    <3>2. w # v => call[w].revision # call[v].revision
      BY <2>2, <3>1 DEF Apart
    <3> QED
      BY <3>1, <3>2 DEF Apart
  <2>5. CASE <<u, i>> # o /\ <<w, i>> # o
    BY <1>2, <1>7, <2>1, <2>5 DEF Apart
  <2> QED
    BY <2>3, <2>4, <2>5
<1>8. ASSUME NEW u \in Invocations, th'[u].pc \in Posting PROVE Flight(u)'
  <2>1. u = v
    BY <1>3, <1>8 DEF IInv, Places
  <2>2. ASSUME NEW x \in Invocations PROVE Apart(x, v, o[2])'
    <3>1. Apart(x, v, o[2]) /\ (x # v => <<x, o[2]>> # o) /\ <<x, o[2]>> \in Operations
      BY <1>1 DEF Flight, Operations
    <3> QED
      BY <1>2, <3>1 DEF Apart
  <2>3. /\ th'[v].op = o /\ row'[o].state = "publishing" /\ t.pc # "creating"
        /\ row'[o].id <=> t.pc = "reading"
        /\ t.pc \in {"posting", "posted"} => row'[o].step = "publish"
        /\ posted'[o] = IF t.pc = "posting" THEN 0 ELSE 1
    BY <1>2, <1>3, <1>8, <2>1
  <2>4. row'[o].id \in BOOLEAN
    BY <1>2 DEF Row
  <2> QED
    BY <1>1, <1>3, <2>1, <2>2, <2>3, <2>4 DEF Flight
<1>9. ASSUME NEW w \in Threads \ Invocations, th'[w].pc = "reading" PROVE Reads(w)'
  <2>1. Reads(w) /\ th'[w] = th[w] /\ th[w].op \in Operations /\ th[w].op[1] \in Invocations
    BY <1>3, <1>9 DEF IInv, Readers, Reads, Operations
  <2>2. th[w].op # o
    BY <1>1, <2>1 DEF Reads
  <2>3. th'[th[w].op[1]].pc \in Posting => th'[th[w].op[1]].op # th[w].op
    <3>1. CASE th[w].op[1] = v
      <4>1. th'[v].pc \in Posting => th'[v].op = o
        BY <1>3
      <4> QED
        BY <2>2, <3>1, <4>1
    <3>2. CASE th[w].op[1] # v
      BY <1>3, <2>1, <3>2 DEF Reads
    <3> QED
      BY <3>1, <3>2
  <2> QED
    BY <1>2, <2>1, <2>2, <2>3 DEF Reads
<1>10. Calls'
  <2>1. ASSUME NEW u \in Invocations, call[u].result = "succeeded", NEW i \in call[u].items
        PROVE  posted'[<<u, i>>] = 1
    <3>1. posted[<<u, i>>] = 1 /\ <<u, i>> \in Operations
      BY <2>1 DEF IInv, Calls, TypeOK, Call, Operations
    <3>2. CASE <<u, i>> = o
      <4>1. posted[o] = 1
        BY <3>1, <3>2
      <4>2. n = 1
        BY <4>1
      <4> QED
        BY <1>2, <3>2, <4>2
    <3>3. CASE <<u, i>> # o
      BY <1>2, <3>1, <3>3
    <3> QED
      BY <3>2, <3>3
  <2> QED
    BY <2>1 DEF IInv, Calls
<1>11. ErasedStaysErased'
  BY <1>1 DEF ErasedStaysErased
<1> QED
  BY <1>4, <1>5, <1>6, <1>7, <1>8, <1>9, <1>10, <1>11 DEF IInv, Ledger, Distinct, Flights, Readers

LEMMA PutType ==
    ASSUME IInv, NEW o \in Operations, NEW receipt, Put(o, receipt)
    PROVE  waiting' \in Seq(Operations)
<1>1. waiting \in Seq(Operations) /\ Without(waiting, {o}) \in Seq(Operations)
  BY WithoutType DEF IInv, TypeOK
<1>2. <<o>> \o Without(waiting, {o}) \in Seq(Operations)
  BY <1>1
<1> QED
  BY <1>1, <1>2 DEF Put

\* The item in flight, as its steps need it.
LEMMA InFlight ==
    ASSUME IInv, NEW v \in Invocations, th[v].pc \in Posting
    PROVE  /\ Flight(v) /\ th[v] \in Thread /\ th[v].op \in Operations
           /\ row[th[v].op] \in Row /\ posted[th[v].op] \in {0, 1}
           /\ account \in [status : {"none", "active", "reauth", "revoked"}, token : BOOLEAN]
           /\ troubles \in 0..MaxTroubles
<1>1. Flight(v) /\ th[v] \in Thread /\ th[v].op \in Operations
  BY DEF IInv, TypeOK, Flights, Flight, Threads
<1> QED
  BY <1>1 DEF IInv, TypeOK, Flight

LEMMA CreatedPreserves == ASSUME IInv, NEW v \in Invocations, Created(v) PROVE IInv'
<1> DEFINE o == th[v].op
           r == [row[o] EXCEPT !.state = "publishing", !.step = "publish"]
           t == [th[v] EXCEPT !.pc = "posting"]
<1>1. /\ th[v].pc = "creating" /\ th[v] \in Thread /\ o \in Operations /\ row[o] \in Row
      /\ posted[o] = 0 /\ row[o].id = FALSE
      /\ account \in [status : {"none", "active", "reauth", "revoked"}, token : BOOLEAN]
      /\ troubles \in 0..MaxTroubles
  BY InFlight DEF Created, At, Posting, Flight
<1>2. /\ r \in Row /\ r.state = "publishing" /\ r.step = "publish" /\ r.revision = row[o].revision
      /\ r.id = FALSE
  BY <1>1 DEF Row
<1>3. t \in Thread /\ t.pc = "posting" /\ t.op = o
  BY <1>1 DEF Thread
<1>4. row' = [row EXCEPT ![o] = r] /\ th' = [th EXCEPT ![v] = t] /\ Put(o, r)
  BY DEF Created, Put, Goto
<1> HIDE DEF r, t, o
<1>5. posted' = [posted EXCEPT ![o] = 0] /\ waiting' \in Seq(Operations)
  BY <1>1, <1>4, PutType DEF Created, IInv, TypeOK
<1>6. UNCHANGED <<account, troubles, tombstone, draft, call, runOf>>
  BY DEF Created, world
<1>7. Writes(v, o, r, 0, t)
  BY <1>1, <1>2, <1>3, <1>4, <1>5, <1>6 DEF Writes, Posting, o
<1> QED
  BY <1>7, FlightWrites

LEMMA PostsPreserves == ASSUME IInv, NEW v \in Invocations, Posts(v) PROVE IInv'
<1> DEFINE o == th[v].op
           r == row[o]
           t == [th[v] EXCEPT !.pc = "posted"]
<1>1. /\ th[v].pc = "posting" /\ th[v] \in Thread /\ o \in Operations /\ row[o] \in Row
      /\ posted[o] = 0 /\ r.id = FALSE /\ r.state = "publishing" /\ r.step = "publish"
      /\ account \in [status : {"none", "active", "reauth", "revoked"}, token : BOOLEAN]
      /\ troubles \in 0..MaxTroubles
  BY InFlight DEF Posts, At, Posting, Flight
<1>2. t \in Thread /\ t.pc = "posted" /\ t.op = o
  BY <1>1 DEF Thread
<1>3. row' = [row EXCEPT ![o] = r] /\ th' = [th EXCEPT ![v] = t]
  BY <1>1 DEF Posts, Goto, IInv, TypeOK
<1> HIDE DEF r, t, o
<1>4. posted' = [posted EXCEPT ![o] = 1] /\ waiting' \in Seq(Operations)
  BY <1>1 DEF Posts, IInv, TypeOK, o
<1>5. UNCHANGED <<account, troubles, tombstone, draft, call, runOf>>
  BY DEF Posts, world
<1>6. Writes(v, o, r, 1, t)
  BY <1>1, <1>2, <1>3, <1>4, <1>5 DEF Writes, Posting, o, r
<1> QED
  BY <1>6, FlightWrites

LEMMA AnsweredPreserves == ASSUME IInv, NEW v \in Invocations, Answered(v) PROVE IInv'
<1> DEFINE o == th[v].op
           r == [row[o] EXCEPT !.state = "publishing", !.step = "none", !.id = TRUE]
           t == [th[v] EXCEPT !.pc = "reading"]
<1>1. /\ th[v].pc = "posted" /\ th[v] \in Thread /\ o \in Operations /\ row[o] \in Row
      /\ posted[o] = 1
      /\ account \in [status : {"none", "active", "reauth", "revoked"}, token : BOOLEAN]
      /\ troubles \in 0..MaxTroubles
  BY InFlight DEF Answered, At, Posting, Flight
<1>2. r \in Row /\ r.state = "publishing" /\ r.revision = row[o].revision /\ r.id = TRUE
  BY <1>1 DEF Row
<1>3. t \in Thread /\ t.pc = "reading" /\ t.op = o
  BY <1>1 DEF Thread
<1>4. row' = [row EXCEPT ![o] = r] /\ th' = [th EXCEPT ![v] = t] /\ Put(o, r)
  BY DEF Answered, Put, Goto
<1> HIDE DEF r, t, o
<1>5. posted' = [posted EXCEPT ![o] = 1] /\ waiting' \in Seq(Operations)
  BY <1>1, <1>4, PutType DEF Answered, IInv, TypeOK
<1>6. UNCHANGED <<account, troubles, tombstone, draft, call, runOf>>
  BY DEF Answered, world
<1>7. Writes(v, o, r, 1, t)
  BY <1>1, <1>2, <1>3, <1>4, <1>5, <1>6 DEF Writes, Posting, o
<1> QED
  BY <1>7, FlightWrites

LEMMA EndsPreserves ==
    ASSUME IInv, NEW v \in Invocations, th[v].pc \in Posting,
           NEW state \in {"uncertain", "published", "failed"}, NEW id \in BOOLEAN, Ends(v, state, id),
           state = "failed" => posted[th[v].op] = 0, state = "published" => posted[th[v].op] = 1,
           id => posted[th[v].op] = 1, posted[th[v].op] = 1 => state = "uncertain" \/ id,
           account' \in [status : {"none", "active", "reauth", "revoked"}, token : BOOLEAN],
           troubles' \in 0..MaxTroubles, UNCHANGED <<tombstone, draft, call, runOf, posted>>
    PROVE  IInv'
<1> DEFINE o == th[v].op
           rest == th[v].left \ {o[2]}
           r == [row[o] EXCEPT !.state = state, !.id = id, !.step = IF @ = "create" THEN "none" ELSE @]
           t == [th[v] EXCEPT !.op = None, !.left = rest,
                   !.pc = IF state = "uncertain" \/ rest = {} THEN "finish" ELSE "begin"]
<1>1. th[v] \in Thread /\ o \in Operations /\ row[o] \in Row /\ posted[o] \in {0, 1}
  BY InFlight
<1>2. r \in Row /\ r.state = state /\ r.revision = row[o].revision /\ r.id = id
  BY <1>1 DEF Row, Open
<1>3. t \in Thread /\ t.pc \in {"finish", "begin"}
  BY <1>1 DEF Thread
<1>4. row' = [row EXCEPT ![o] = r] /\ th' = [th EXCEPT ![v] = t] /\ Put(o, r)
  BY DEF Ends, Put
<1> HIDE DEF r, t, o
<1>5. posted' = [posted EXCEPT ![o] = posted[o]] /\ waiting' \in Seq(Operations)
  BY <1>1, <1>4, PutType DEF IInv, TypeOK
<1> DEFINE n == posted[o]
<1>6. /\ posted' = [posted EXCEPT ![o] = n]
      /\ n \in {0, 1}
      /\ posted[o] <= n
  <2>1. posted' = [posted EXCEPT ![o] = n]
    BY <1>5
  <2>2. n \in {0, 1}
    BY <1>1
  <2>3. posted[o] = n
    OBVIOUS
  <2> HIDE DEF n
  <2>4. n <= n
    BY <2>2
  <2>5. posted[o] <= n
    BY <2>3, <2>4, Zenon
  <2> QED
    BY <2>1, <2>2, <2>5
<1>7. /\ state = "failed" => n = 0
      /\ state = "published" => n = 1
      /\ id => n = 1
      /\ n = 1 => state = "uncertain" \/ id
  BY DEF o
<1> HIDE DEF n
<1>8. /\ r.state = "failed" => n = 0
      /\ r.state = "published" => n = 1
      /\ r.id => n = 1
      /\ n = 1 => r.state = "uncertain" \/ r.id
  BY <1>2, <1>7, Zenon
<1>9. Writes(v, o, r, n, t)
  BY <1>1, <1>2, <1>3, <1>4, <1>5, <1>6, <1>8 DEF Writes, Posting, o
<1> QED
  BY <1>9, FlightWrites

LEMMA ReadBackPreserves == ASSUME IInv, NEW v \in Invocations, ReadBack(v) PROVE IInv'
<1>1. /\ th[v].pc = "reading" /\ posted[th[v].op] = 1
      /\ account \in [status : {"none", "active", "reauth", "revoked"}, token : BOOLEAN]
      /\ troubles \in 0..MaxTroubles
  BY InFlight DEF ReadBack, At, Posting, Flight
<1> QED
  BY <1>1, EndsPreserves DEF ReadBack, world, Posting

LEMMA FailsPreserves == ASSUME IInv, NEW v \in Invocations, Fails(v) PROVE IInv'
<1> DEFINE o == th[v].op
<1>1. /\ th[v].pc \in Posting /\ row[o].id \in BOOLEAN /\ posted[o] \in {0, 1}
      /\ th[v].pc \in {"creating", "posting"} => posted[o] = 0 /\ row[o].id = FALSE
      /\ th[v].pc = "posted" => posted[o] = 1 /\ row[o].id = FALSE
      /\ th[v].pc = "reading" => posted[o] = 1 /\ row[o].id
  BY InFlight DEF Fails, At, Posting, Flight, Row
<1>2. PICK lost \in IF At(v, {"creating", "posting"}) THEN BOOLEAN ELSE {At(v, {"posted"})} :
         /\ Ends(v, IF Uncertain(v, lost) THEN "uncertain" ELSE "failed", row[o].id)
         /\ \/ UNCHANGED <<account, troubles>>
            \/ ~lost /\ Trouble /\ account' = [account EXCEPT !.status = "reauth"]
  BY DEF Fails
<1>3. /\ account' \in [status : {"none", "active", "reauth", "revoked"}, token : BOOLEAN]
      /\ troubles' \in 0..MaxTroubles
  BY <1>2, TroubleType DEF IInv, TypeOK
<1>4. UNCHANGED <<tombstone, draft, call, runOf, posted>>
  BY DEF Fails
<1> DEFINE id == row[o].id
<1>5. CASE Uncertain(v, lost)
  <2>1. Ends(v, "uncertain", id) /\ id \in BOOLEAN /\ (id => posted[th[v].op] = 1)
    BY <1>1, <1>2, <1>5 DEF Posting
  <2> HIDE DEF id
  <2> QED
    BY <1>1, <1>3, <1>4, <2>1, EndsPreserves
<1>6. CASE ~Uncertain(v, lost)
  <2>1. posted[o] = 0 /\ row[o].id = FALSE
    BY <1>1, <1>2, <1>6 DEF Uncertain, At, Posting
  <2> QED
    BY <1>1, <1>2, <1>3, <1>4, <1>6, <2>1, EndsPreserves
<1> QED
  BY <1>5, <1>6

LEMMA BeginPreserves == ASSUME IInv, NEW v \in Invocations, Begin(v) PROVE IInv'
<1>1. PICK i \in th[v].left :
         LET o == <<v, i>>
             prepared == [NoRow EXCEPT !.state = "prepared", !.step = "create",
                                       !.revision = call[v].revision] IN
         IF ~Dispatched(i, call[v].revision) /\ CurrentDraft(v) /\ account.status = "active"
         THEN IF ~account.token
              THEN /\ call' = [call EXCEPT ![v].state = "awaiting"]
                   /\ th' = [th EXCEPT ![v] = Idle]
                   /\ UNCHANGED <<row, waiting>>
              ELSE /\ IF Writable(o, prepared)
                      THEN Put(o, prepared)
                           /\ th' = [th EXCEPT ![v].pc = "creating", ![v].op = o]
                      ELSE Goto(v, "refused") /\ UNCHANGED <<row, waiting>>
                   /\ UNCHANGED call
         ELSE Goto(v, "refused") /\ UNCHANGED <<row, waiting, call>>
  BY DEF Begin
<1>2. /\ v \in Threads /\ th[v] \in Thread /\ call[v] \in Call /\ i \in Items
      /\ call[v].state = "executing" /\ th[v].pc = "begin"
      /\ UNCHANGED <<account, tombstone, draft, runOf, posted, troubles>>
      /\ \A u \in Invocations : th[u].pc \notin Posting
  BY DEF Begin, At, Fenced, Posting, world, IInv, TypeOK, Thread, Places, Threads
<1>3. call[v].result = "succeeded" => \A j \in call[v].items : posted[<<v, j>>] = 1
  BY DEF IInv, Calls
<1>4. CASE call' = [call EXCEPT ![v].state = "awaiting"] /\ th' = [th EXCEPT ![v] = Idle] /\ UNCHANGED <<row, waiting>>
  <2> DEFINE c == [call[v] EXCEPT !.state = "awaiting"]
  <2>1. /\ c \in Call /\ c.state = "awaiting" /\ c.revision = call[v].revision
        /\ c.result = call[v].result /\ c.items = call[v].items /\ call' = [call EXCEPT ![v] = c]
    BY <1>2, <1>4 DEF Call
  <2>2. call[v].state # "none"
    BY <1>2
  <2> DEFINE t == Idle
  <2>3. t \in Thread /\ t.pc = "idle" /\ th' = [th EXCEPT ![v] = t]
    BY <1>4, IdleThread
  <2>4. c.result = "succeeded" => \A j \in c.items : posted[<<v, j>>] = 1
    BY <1>3, <2>1
  <2>5. UNCHANGED <<account, tombstone, draft, row, waiting, runOf, posted, troubles>>
    BY <1>2, <1>4
  <2> HIDE DEF c, t
  <2> QED
    BY <2>1, <2>2, <2>3, <2>4, <2>5, InvocationTurns
<1>5. CASE Goto(v, "refused") /\ UNCHANGED <<row, waiting, call>>
  <2> DEFINE t == [th[v] EXCEPT !.pc = "refused"]
  <2>1. t \in Thread /\ t.pc = "refused" /\ th' = [th EXCEPT ![v] = t]
    BY <1>2, <1>5 DEF Thread, Goto
  <2>2. call' = [call EXCEPT ![v] = call[v]]
    BY <1>5 DEF IInv, TypeOK
  <2> HIDE DEF t
  <2> QED
    BY <1>2, <1>3, <1>5, <2>1, <2>2, InvocationTurns
<1> DEFINE o == <<v, i>>
           r == [NoRow EXCEPT !.state = "prepared", !.step = "create", !.revision = call[v].revision]
           t == [th[v] EXCEPT !.pc = "creating", !.op = o]
<1>6. CASE /\ ~Dispatched(i, call[v].revision) /\ CurrentDraft(v) /\ Writable(o, r) /\ Put(o, r)
           /\ th' = [th EXCEPT ![v].pc = "creating", ![v].op = o] /\ UNCHANGED call
  <2>1. o \in Operations /\ o[1] = v /\ o[2] = i
    BY <1>2 DEF Operations
  <2>2. /\ r \in Row /\ r.state = "prepared" /\ r.step = "create" /\ r.id = FALSE
        /\ r.revision = call[v].revision
    BY <1>2 DEF Row, NoRow, Call
  <2>3. t \in Thread /\ t.pc = "creating" /\ t.op = o /\ th' = [th EXCEPT ![v] = t]
    BY <1>2, <1>6, <2>1 DEF Thread
  <2>4. row' = [row EXCEPT ![o] = r] /\ ~tombstone /\ Put(o, r)
    BY <1>6 DEF Put, Writable
  <2>5. \A u \in Invocations : posted[<<u, i>>] > 0 => call[u].revision # call[v].revision
    <3>1. ASSUME NEW u \in Invocations, posted[<<u, i>>] > 0, call[u].revision = call[v].revision
          PROVE  FALSE
      <4>1. Entry(<<u, i>>)
        BY <1>2 DEF IInv, Ledger, Operations
      <4>2. row[<<u, i>>].state = "none" \/ row[<<u, i>>].revision # call[v].revision
        BY <1>6, <3>1 DEF Dispatched
      <4>3. ~Passed(call[v].revision)
        BY <1>2, <1>6 DEF CurrentDraft, Passed, IInv, TypeOK, Call
      <4> QED
        BY <3>1, <4>1, <4>2, <4>3 DEF Entry
    <3> QED
      BY <3>1
  <2>6. posted[o] = 0
    <3>1. posted[o] \in Nat
      BY <2>1 DEF IInv, TypeOK
    <3> QED
      BY <2>5, <3>1
  <2> HIDE DEF r, t, o
  <2>7. /\ row' \in [Operations -> Row] /\ row'[o] = r
        /\ \A p \in Operations \ {o} : row'[p] = row[p]
        /\ waiting' \in Seq(Operations)
    BY <2>1, <2>2, <2>4, PutType DEF IInv, TypeOK
  <2>8. /\ th' \in [Threads -> Thread] /\ th'[v] = t /\ \A x \in Threads \ {v} : th'[x] = th[x]
        /\ Invocations \subseteq Threads /\ Poll \in Threads \ {v} /\ Author \in Threads \ {v}
    BY <1>2, <2>3, ThreadsConstants DEF IInv, TypeOK, Threads
  <2>9. TypeOK'
    BY <1>2, <1>6, <2>7, <2>8 DEF IInv, TypeOK
  <2>10. Places'
    BY <1>2, <1>6, <2>3, <2>4, <2>8 DEF IInv, Places, Posting
  <2>11. ASSUME NEW p \in Operations PROVE Entry(p)'
    <3>1. Entry(p)
      BY DEF IInv, Ledger
    <3>2. CASE p = o
      BY <1>2, <1>6, <2>1, <2>2, <2>6, <2>7, <3>2 DEF Entry
    <3>3. CASE p # o
      BY <1>2, <1>6, <2>7, <3>1, <3>3 DEF Entry, Passed
    <3> QED
      BY <3>2, <3>3
  <2>12. Distinct' /\ Calls'
    BY <1>2, <1>6 DEF IInv, Distinct, Apart, Calls
  <2>13. ASSUME NEW u \in Invocations, th'[u].pc \in Posting PROVE Flight(u)'
    <3>1. u = v
      BY <1>2, <2>8, <2>13
    <3>2. \A x \in Invocations : Apart(x, v, i)'
      BY <1>2, <1>6, <2>5 DEF Apart
    <3> QED
      BY <1>2, <2>1, <2>2, <2>3, <2>6, <2>7, <2>8, <3>1, <3>2 DEF Flight
  <2>14. ASSUME NEW w \in Threads \ Invocations, th'[w].pc = "reading" PROVE Reads(w)'
    <3>1. Reads(w) /\ th'[w] = th[w] /\ th[w].op \in Operations /\ th[w].op[1] \in Invocations
      BY <2>8, <2>14 DEF IInv, Readers, Reads, Operations
    <3>2. th[w].op # o
      BY <2>6, <3>1 DEF Reads
    <3>3. th'[th[w].op[1]].pc \in Posting => th'[th[w].op[1]].op # th[w].op
      <4>1. CASE th[w].op[1] = v
        BY <2>3, <2>8, <3>2, <4>1
      <4>2. CASE th[w].op[1] # v
        BY <1>2, <2>8, <3>1, <4>2
      <4> QED
        BY <4>1, <4>2
    <3> QED
      BY <1>2, <1>6, <3>1, <3>3 DEF Reads
  <2>15. ErasedStaysErased'
    BY <1>2, <2>4 DEF ErasedStaysErased
  <2> QED
    BY <2>9, <2>10, <2>11, <2>12, <2>13, <2>14, <2>15 DEF IInv, Ledger, Flights, Readers
<1> QED
  BY <1>1, <1>4, <1>5, <1>6

LEMMA ConfirmsPreserves ==
    ASSUME IInv, NEW w \in Threads \ Invocations, NEW next \in {"idle", "resolve"},
           w # Poll => next = "idle", Confirms(w, next)
    PROVE  IInv'
<1> DEFINE o == th[w].op
           r == [th[w].seen EXCEPT !.state = "published", !.step = "none"]
           t == [th[w] EXCEPT !.pc = next]
<1>1. /\ Reads(w) /\ o \in Operations /\ o[1] \in Invocations /\ th[w] \in Thread
      /\ UNCHANGED <<account, tombstone, draft, runOf, call, posted, troubles>>
  BY DEF Confirms, At, world, IInv, TypeOK, Readers, Reads, Operations
<1>2. CASE th' = [th EXCEPT ![w] = Idle] /\ UNCHANGED <<row, waiting>>
  BY <1>1, <1>2, IdleThread, Turns DEF IInv, TypeOK
<1>3. CASE Writable(o, r) /\ Put(o, r) /\ Goto(w, next)
  <2>1. /\ r \in Row /\ r.state = "published" /\ r.id /\ r.revision = call[o[1]].revision
    BY <1>1 DEF Row, Thread, Open, Reads
  <2>2. t \in Thread /\ t.pc = next /\ t.op = o /\ th' = [th EXCEPT ![w] = t]
    BY <1>1, <1>3 DEF Thread, Goto
  <2>3. row' = [row EXCEPT ![o] = r] /\ ~tombstone /\ Put(o, r)
    BY <1>3 DEF Put, Writable
  <2> HIDE DEF r, t, o
  <2>4. /\ row' \in [Operations -> Row] /\ row'[o] = r
        /\ \A p \in Operations \ {o} : row'[p] = row[p]
        /\ waiting' \in Seq(Operations)
    BY <1>1, <2>1, <2>3, PutType DEF IInv, TypeOK
  <2>5. /\ th' \in [Threads -> Thread] /\ th'[w] = t /\ \A x \in Threads \ {w} : th'[x] = th[x]
        /\ Invocations \subseteq Threads \ {w}
    BY <2>2 DEF IInv, TypeOK, Threads
  <2>6. TypeOK'
    BY <1>1, <2>4, <2>5 DEF IInv, TypeOK
  <2>7. Places'
    <3>1. th'[Poll].pc \in {"resolve", "mark"} => th'[Poll].op \in Operations
      BY <1>1, <2>2, <2>5 DEF IInv, Places, Threads
    <3>2. th'[Author].pc = "replace" => th'[Author].seen.state \in {"draft", "approved", "cancelled"}
      BY <2>2, <2>5 DEF IInv, Places, Threads
    <3> QED
      BY <1>1, <2>5, <3>1, <3>2 DEF IInv, Places
  <2>8. ASSUME NEW p \in Operations PROVE Entry(p)'
    <3>1. Entry(p)
      BY DEF IInv, Ledger
    <3>2. CASE p = o
      BY <1>1, <2>1, <2>4, <3>2 DEF Entry, Reads, o
    <3>3. CASE p # o
      BY <1>1, <2>4, <3>1, <3>3 DEF Entry, Passed
    <3> QED
      BY <3>2, <3>3
  <2>9. Distinct' /\ Calls'
    BY <1>1 DEF IInv, Distinct, Apart, Calls
  <2>10. ASSUME NEW u \in Invocations, th'[u].pc \in Posting PROVE Flight(u)'
    <3>1. Flight(u) /\ th'[u] = th[u] /\ th[u].op \in Operations /\ th[u].op[1] = u
      BY <2>5, <2>10 DEF IInv, Flights, Flight
    <3>2. th[u].op # o
      BY <1>1, <2>5, <2>10, <3>1 DEF Reads, o
    <3>3. row'[th[u].op] = row[th[u].op]
      BY <2>4, <3>1, <3>2
    <3>4. \A x \in Invocations : Apart(x, u, th[u].op[2])'
      BY <1>1, <3>1 DEF Flight, Apart
    <3> QED
      BY <1>1, <3>1, <3>3, <3>4 DEF Flight
  <2>11. ASSUME NEW x \in Threads \ Invocations, th'[x].pc = "reading" PROVE Reads(x)'
    <3>1. x # w
      BY <2>2, <2>5, <2>11
    <3>2. Reads(x) /\ th'[x] = th[x] /\ th[x].op[1] \in Invocations
      BY <2>5, <2>11, <3>1 DEF IInv, Readers, Reads, Operations
    <3> QED
      BY <1>1, <2>5, <3>2 DEF Reads
  <2>12. ErasedStaysErased'
    BY <1>1, <2>3 DEF ErasedStaysErased
  <2> QED
    BY <2>6, <2>7, <2>8, <2>9, <2>10, <2>11, <2>12 DEF IInv, Ledger, Flights, Readers
<1> QED
  BY <1>2, <1>3 DEF Confirms

-----------------------------------------------------------------------------
(* The theorems. *)

LEMMA NextPreserves == ASSUME IInv, [Next]_vars PROVE IInv'
<1>1. ASSUME NEW v \in Invocations, Publish(v) PROVE IInv'
  BY <1>1, DispatchPreserves, BeginPreserves, CreatedPreserves, PostsPreserves, AnsweredPreserves,
     ReadBackPreserves, FailsPreserves, FinishPreserves DEF Publish
<1>2. /\ Poll \in Threads \ Invocations /\ Lookup \in Threads \ Invocations /\ Lookup # Poll
  BY ThreadsConstants DEF Threads
<1>3. CASE PollSteps
  BY <1>2, <1>3, PollBeginsPreserves, PollTakesPreserves, PollEndsPreserves, PollResolvesPreserves,
     PollMarksPreserves, ConfirmsPreserves, MissesPreserves DEF PollSteps, PollConfirms, PollMisses
<1>4. CASE Confirms(Lookup, "idle") \/ Misses(Lookup, "idle")
  BY <1>2, <1>4, ConfirmsPreserves, MissesPreserves
<1> QED
  BY <1>1, <1>3, <1>4, ApprovePreserves, LookupAsksPreserves, ProfilePreserves, RevokePreserves,
     ErasePreserves, ConnectPreserves, DraftCreatePreserves, AuthorChecksPreserves,
     AuthorReplacesPreserves, CrashPreserves, StutterPreserves DEF Next

\* The invariant of every step of the calls, the poll, a lookup, the account,
\* the draft and a crash.
THEOREM Invariance == Spec => []IInv
BY InitInv, NextPreserves, PTL DEF Spec

\* Rows, candidates, calls, threads, the account and the draft keep their types.
THEOREM TypeCorrect == Spec => []TypeOK
<1>1. IInv => TypeOK
  BY DEF IInv
<1> QED
  BY <1>1, Invariance, PTL

\* However many calls name it, an item of one revision is posted once.
THEOREM OncePublic == Spec => []PostedOnce
<1>1. ASSUME IInv PROVE PostedOnce
  <2>1. \A i \in Items, v \in Invocations : posted[<<v, i>>] <= 1
    BY <1>1 DEF IInv, Ledger, Entry, Operations
  <2>2. ASSUME NEW i \in Items, NEW u \in Invocations, NEW v \in Invocations, u # v,
               posted[<<u, i>>] > 0, posted[<<v, i>>] > 0
        PROVE  call[u].revision # call[v].revision
    BY <1>1, <2>2 DEF IInv, Distinct, Apart
  <2> QED
    BY <2>1, <2>2 DEF PostedOnce
<1> QED
  BY <1>1, Invariance, PTL

\* The ledger and the Runs agree with what is public.
THEOREM PostsMatch == Spec => []ResultMatchesPosts
<1>1. IInv => ResultMatchesPosts
  BY DEF IInv, Calls, Ledger, Entry, ResultMatchesPosts
<1> QED
  BY <1>1, Invariance, PTL

\* Nothing that began before an erasure writes a publication row after it.
THEOREM Erased == Spec => []ErasedStaysErased
<1>1. IInv => ErasedStaysErased
  BY DEF IInv
<1> QED
  BY <1>1, Invariance, PTL

=============================================================================
