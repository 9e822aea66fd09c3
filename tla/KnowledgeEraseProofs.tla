------------------------ MODULE KnowledgeEraseProofs ------------------------
(***************************************************************************)
(* Proofs about KnowledgeErase, for every graph of evidence, however many  *)
(* sources are withdrawn and whenever commands die: what a retraction      *)
(* blocks, what a purge leaves, what a restore brings back and what must   *)
(* survive all of them.                                                    *)
(***************************************************************************)
EXTENDS KnowledgeErase, FiniteSetTheorems, TLAPS

\* What rests on x, published or not: the least set closed under Support.
ClosedOver(E, x) == \A n \in Node : Support[n] \cap (E \cup {x}) # {} => n \in E
Rests(x) == {n \in Node : \A E \in SUBSET Node : ClosedOver(E, x) => n \in E}

\* The evidence of what is published is published.
Supported(r) == \A n \in r.have : Support[n] \subseteq Source \cup r.have

\* Revisions, heads and content are about published claims and entries of one owner.
NodesOf(r, o) == {n \in r.have : OwnerOf[n] = o}

RevsFit(r) == \A v \in r.revs : v.nodes \subseteq NodesOf(r, v.of)

HeadsFit(r) ==
    \A o \in Owner : r.head[o].of = o /\ r.head[o].nodes \subseteq NodesOf(r, o)

HeldFit(r) ==
    \A a \in r.held :
        /\ a.kind = "revision" => a \in r.revs
        /\ a.kind = "row" => a = Row(a.of, a.in) /\ a.in \in r.revs /\ a.of \in a.in.nodes
        /\ a.kind = "chunk" => a = Chunk(a.in) /\ a.in \in r.revs
        /\ a.kind = "transfer" => r.sent[a.of].state # "none"
        /\ a.kind # "replica"

IndexFit(r) == \A c \in r.index : c = Chunk(c.in) /\ c.in \in r.revs

SentFit(r) ==
    \A t \in Transfer : \A x \in r.sent[t].carries :
        \/ x \in Source /\ x \in Shares[t]
        \/ x \in r.have /\ OwnerOf[x] \in Shares[t]

\* What rests on a blocked source is blocked, and a purge blocks its source first.
Closed(r) == \A s \in Source : Tombed(r, s) => \A n \in Rests(s) \cap r.have : Tombed(r, n)

OpsTombed(r) ==
    \A x \in Source \cup Node, s \in Source :
        Tombed(r, x) /\ r.tomb[x].op = PurgeOp(s) => Tombed(r, s)

\* A manifest lists revisions and rows for what rests on its source.
ManifestFits(m, s) ==
    \A a \in m : /\ a.kind = "revision" => a.nodes \cap Rests(s) # {}
                 /\ a.kind = "row" => a.of \in Rests(s)

PurgesFit(r) ==
    \A s \in Source : r.purge[s] # None =>
        /\ Tombed(r, s)
        /\ r.purge[s].left \subseteq r.purge[s].manifest
        /\ ManifestFits(r.purge[s].manifest, s)

Gone(r) == \A s \in Source : Settled(r, s) => Remains(r, s) = {}

Kept(r) ==
    \A e \in r.have \cap Entry : ~Tombed(r, e) =>
        /\ e \in r.head[OwnerOf[e]].nodes
        /\ Row(e, r.head[OwnerOf[e]]) \in r.held

Fits(r) == Supported(r) /\ RevsFit(r) /\ HeadsFit(r) /\ HeldFit(r) /\ IndexFit(r) /\ SentFit(r)

Sound(r) ==
    /\ r \in Roots /\ Fits(r)
    /\ Closed(r) /\ OpsTombed(r) /\ PurgesFit(r) /\ Gone(r) /\ Kept(r)

\* The ledger knows every purge of r, and the manifest it erases by.
Listed(entries, s, m) == \E i \in DOMAIN entries : entries[i].src = s /\ entries[i].manifest = m

Recorded(r, entries) ==
    \A s \in Source : r.purge[s] # None => Listed(entries, s, r.purge[s].manifest)

LedgerFits == \A i \in DOMAIN ledger : ManifestFits(ledger[i].manifest, ledger[i].src)

\* A ledger entry was applied to r, and nothing it lists came back.
Restored(r, entry) ==
    /\ Tombed(r, entry.src)
    /\ \A a \in entry.manifest \cap r.held : a.kind = "chunk"

\* What the command under way has found and what it still has to erase.
CommandFits ==
    LET s == cmd.op.src
    IN  /\ cmd.at \in {"append", "persist"} =>
              /\ cmd.op = PurgeOp(s)
              /\ root.purge[s] = None
              /\ Remains(root, s) \subseteq cmd.manifest
              /\ ManifestFits(cmd.manifest, s)
        /\ cmd.at = "persist" => Listed(ledger, s, cmd.manifest)
        /\ cmd.at = "erase" => cmd.op = PurgeOp(s)
        /\ cmd.at \in {"clean", "erase"} /\ cmd.op = PurgeOp(s) =>
              /\ root.purge[s] # None /\ root.purge[s].state = "purge_pending"
              /\ Remains(root, s) \subseteq root.purge[s].left

RootFits == Sound(root) /\ Recorded(root, ledger)

BackupFits == backup # None => Sound(backup.root) /\ Recorded(backup.root, ledger)

RestoreFits ==
    restore # None =>
        /\ Sound(restore.root) /\ Recorded(restore.root, ledger)
        /\ Len(restore.exported) <= Len(ledger)
        /\ \A i \in 1 .. Len(restore.exported) : restore.exported[i] = ledger[i]
        /\ restore.applied <= Len(restore.exported)
        /\ \A i \in 1 .. restore.applied : Restored(restore.root, ledger[i])

Activated ==
    /\ through <= Len(ledger)
    /\ \A i \in 1 .. through : Restored(root, ledger[i])

IInv ==
    /\ TypeOK
    /\ RootFits /\ LedgerFits /\ CommandFits
    /\ BackupFits /\ RestoreFits /\ Activated

-----------------------------------------------------------------------------
(* The graph of evidence *)

\* What rests on x is closed over the evidence, whatever is published.
LEMMA RestsClosed ==
    ASSUME NEW x
    PROVE  Rests(x) \subseteq Node /\ ClosedOver(Rests(x), x)
  BY DEF Rests, ClosedOver

\* Something rests on x only through evidence that does (_dependent_nodes).
LEMMA RestsThrough ==
    ASSUME NEW x, NEW n \in Rests(x)
    PROVE  Support[n] \cap (Rests(x) \cup {x}) # {}
<1>1. SUFFICES ASSUME Support[n] \cap (Rests(x) \cup {x}) = {} PROVE FALSE
  OBVIOUS
<1> DEFINE E == Rests(x) \ {n}
<1>2. ClosedOver(E, x)
  <2> SUFFICES ASSUME NEW m \in Node, Support[m] \cap (E \cup {x}) # {} PROVE m \in E
    BY DEF ClosedOver
  <2>1. m \in Rests(x)
    BY RestsClosed DEF ClosedOver
  <2> QED
    BY <2>1, <1>1
<1>3. E \in SUBSET Node
  BY RestsClosed
<1> QED
  BY <1>2, <1>3 DEF Rests

\* In a root whose evidence is published, Dependents is what rests on the source.
LEMMA DependentsRest ==
    ASSUME NEW r, r.have \subseteq Node, Supported(r), NEW s \in Source
    PROVE  Dependents(r, s) = Rests(s) \cap r.have
<1> DEFINE D0 == Rests(s) \cap r.have
           Shut(D) == \A n \in r.have : Support[n] \cap (D \cup {s}) # {} => n \in D
           Least(D) == Shut(D) /\ \A E \in SUBSET r.have : Shut(E) => D \subseteq E
<1>1. Shut(D0)
  BY RestsClosed DEF ClosedOver
<1>2. ASSUME NEW E \in SUBSET r.have, Shut(E) PROVE D0 \subseteq E
  <2> DEFINE F == E \cup (Node \ r.have)
  <2>1. ClosedOver(F, s)
    <3> SUFFICES ASSUME NEW m \in Node, NEW x \in Support[m], x \in F \cup {s} PROVE m \in F
      BY DEF ClosedOver
    <3>1. CASE m \notin r.have
      BY <3>1
    <3>2. CASE m \in r.have
      <4>1. x \in E \cup {s}
        BY <3>2, EraseAssumption DEF Supported
      <4> QED
        BY <3>2, <4>1, <1>2
    <3> QED
      BY <3>1, <3>2
  <2>2. F \in SUBSET Node
    OBVIOUS
  <2>3. Rests(s) \subseteq F
    BY <2>1, <2>2 DEF Rests
  <2> QED
    BY <2>3
<1>3. Least(D0) /\ D0 \in SUBSET r.have
  BY <1>1, <1>2
<1>4. \A D \in SUBSET r.have : Least(D) => D = D0
  BY <1>3
<1> HIDE DEF Least
<1>5. Dependents(r, s) = CHOOSE D \in SUBSET r.have : Least(D)
  BY DEF Dependents, Least
<1> QED
  BY <1>3, <1>4, <1>5

-----------------------------------------------------------------------------
(* What one root has of another *)

\* A tombstone is None or names an operation.
LEMMA Tombstones ==
    ASSUME NEW r \in Roots, NEW x \in Source \cup Node
    PROVE  /\ r.tomb[x] \in Tombstone
           /\ Tombed(r, x) <=> r.tomb[x] # None
  BY DEF Roots, Tombed, Tombstone, None

\* Content is made of published claims and entries; a transfer also carries sources.
LEMMA HoldsPublished ==
    ASSUME NEW r \in Roots, Fits(r), NEW a \in r.held
    PROVE  /\ Holds(r, a) \subseteq Source \cup r.have
           /\ a.kind # "transfer" => Holds(r, a) \subseteq r.have
<1>1. CASE a.kind = "row"
  BY <1>1 DEF Fits, HeldFit, RevsFit, NodesOf, Holds
<1>2. CASE a.kind = "revision"
  BY <1>2 DEF Fits, HeldFit, RevsFit, NodesOf, Holds
<1>3. CASE a.kind = "chunk"
  BY <1>3 DEF Fits, HeldFit, RevsFit, NodesOf, Holds
<1>4. CASE a.kind = "transfer"
  <2>1. a.of \in Transfer
    BY <1>4 DEF Roots, Artifacts, Revisions
  <2> QED
    BY <1>4, <2>1 DEF Fits, SentFit, Holds, Roots, Sendings
<1>5. CASE a.kind \notin {"row", "revision", "chunk", "transfer"}
  BY <1>5 DEF Holds
<1> QED
  BY <1>1, <1>2, <1>3, <1>4, <1>5

\* q blocks and erases, and publishes nothing r did not have.
Erases(r, q) ==
    /\ q \in Roots
    /\ q.have = r.have /\ q.revs = r.revs /\ q.head = r.head
    /\ q.index \subseteq r.index /\ q.held \subseteq r.held
    /\ \A t \in Transfer : /\ q.sent[t].carries = r.sent[t].carries
                           /\ r.sent[t].state # "none" => q.sent[t].state # "none"
    /\ \A x \in Source \cup Node : Tombed(r, x) => Tombed(q, x)
    /\ \A a \in r.held \ q.held : a.kind = "row" => Tombed(q, a.of)

\* q has new content, but none of what r had blocked: what a publication, a transfer
\* or a clean revision may add.
Adds(r, q) ==
    /\ r \in Roots /\ q \in Roots
    /\ r.have \subseteq q.have
    /\ \A n \in q.have \ r.have : \A x \in Support[n] : Resolves(r, x)
    /\ \A x \in Source \cup Node : Tombed(r, x) => Tombed(q, x)
    /\ \A a \in q.held \cap r.held : Holds(q, a) = Holds(r, a)
    /\ \A a \in q.held \ r.held :
          /\ a.kind \in {"revision", "row", "transfer"}
          /\ \A x \in Holds(q, a) \cap (Source \cup r.have) : ~Tombed(r, x)

LEMMA ErasesFits ==
    ASSUME NEW r \in Roots, Fits(r), NEW q, Erases(r, q)
    PROVE  Fits(q) /\ Adds(r, q)
<1>1. Supported(q) /\ RevsFit(q) /\ HeadsFit(q) /\ IndexFit(q)
  BY DEF Fits, Erases, Supported, RevsFit, HeadsFit, IndexFit, NodesOf
<1>2. ASSUME NEW a \in q.held, a.kind = "transfer" PROVE a.of \in Transfer
  BY <1>2 DEF Erases, Roots, Artifacts, Revisions
<1>3. HeldFit(q) /\ SentFit(q)
  BY <1>2 DEF Fits, Erases, HeldFit, SentFit
<1>4. \A a \in q.held : Holds(q, a) = Holds(r, a)
  BY <1>2 DEF Erases, Holds
<1> QED
  BY <1>1, <1>3, <1>4 DEF Fits, Erases, Adds

\* Nothing new rests on what was blocked before.
LEMMA NewIsClear ==
    ASSUME NEW r, NEW q, Supported(r), Closed(r), Adds(r, q),
           NEW s \in Source, Tombed(r, s)
    PROVE  /\ Rests(s) \cap q.have = Rests(s) \cap r.have
           /\ \A n \in Rests(s) \cap q.have : Tombed(r, n)
<1>1. ASSUME NEW n \in q.have \ r.have, n \in Rests(s) PROVE FALSE
  <2>1. PICK x \in Support[n] : x = s \/ x \in Rests(s)
    BY <1>1, RestsThrough
  <2>2. Resolves(r, x)
    BY <1>1, <2>1 DEF Adds
  <2>3. x \in Source => x = s
    BY <2>1, RestsClosed, EraseAssumption
  <2> QED
    BY <2>1, <2>2, <2>3 DEF Resolves, Closed
<1> QED
  BY <1>1 DEF Adds, Closed

\* What was erased of a blocked source stays erased.
LEMMA RemainsErased ==
    ASSUME NEW r, NEW q, Supported(r), Closed(r), Fits(q), Adds(r, q),
           NEW s \in Source, Tombed(r, s)
    PROVE  Remains(q, s) \subseteq Remains(r, s)
<1>1. r \in Roots /\ q \in Roots /\ Supported(q) /\ r.have \subseteq Node /\ q.have \subseteq Node
  BY DEF Adds, Fits, Roots
<1>2. Dependents(r, s) = Rests(s) \cap q.have /\ Dependents(q, s) = Rests(s) \cap q.have
  BY <1>1, DependentsRest, NewIsClear
<1>3. SUFFICES ASSUME NEW a \in Remains(q, s) PROVE a \in Remains(r, s)
  OBVIOUS
<1>4. a \in q.held /\ (a = SourceText(s) \/ Holds(q, a) \cap ((Rests(s) \cap q.have) \cup {s}) # {})
  BY <1>2, <1>3 DEF Remains
<1>5. a \in r.held
  <2> SUFFICES ASSUME a \notin r.held PROVE FALSE
    OBVIOUS
  <2>1. a # SourceText(s)
    BY <1>4 DEF Adds, SourceText
  <2>2. PICK x \in Holds(q, a) : x \in Rests(s) \cap q.have \/ x = s
    BY <1>4, <2>1
  <2>3. x \in Source \cup r.have => ~Tombed(r, x)
    BY <1>4, <2>2 DEF Adds
  <2> QED
    BY <2>2, <2>3, NewIsClear
<1> QED
  BY <1>2, <1>4, <1>5 DEF Remains, Adds

LEMMA ErasesRemains ==
    ASSUME NEW r \in Roots, Fits(r), NEW q, Erases(r, q), NEW s \in Source
    PROVE  Remains(q, s) \subseteq Remains(r, s)
<1>1. Fits(q) /\ Adds(r, q)
  BY ErasesFits
<1>2. Supported(q) /\ Supported(r) /\ r.have \subseteq Node /\ q.have = r.have
  BY <1>1 DEF Fits, Roots, Erases
<1>3. Dependents(q, s) = Dependents(r, s)
  BY <1>2, DependentsRest
<1> QED
  BY <1>1, <1>3 DEF Remains, Erases, Adds

LEMMA ErasesTwice ==
    ASSUME NEW r \in Roots, NEW p, Erases(r, p), NEW q, Erases(p, q)
    PROVE  Erases(r, q)
<1>1. \A a \in r.held : a.kind = "row" => a.of \in Node
  BY DEF Roots, Artifacts, Revisions
<1>2. \A a \in r.held \ q.held : a.kind = "row" => Tombed(q, a.of)
  BY <1>1 DEF Erases
<1> QED
  BY <1>2 DEF Erases

LEMMA ErasesRestored ==
    ASSUME NEW r, NEW q, Erases(r, q), NEW entry \in Entries, Restored(r, entry)
    PROVE  Restored(q, entry)
  BY DEF Restored, Erases, Entries

\* What a ledger entry erased stays erased (apply_erase_entries).
LEMMA RestoredStays ==
    ASSUME NEW r, NEW q, Supported(r), Closed(r), Fits(q), Adds(r, q),
           NEW entry \in Entries, ManifestFits(entry.manifest, entry.src), Restored(r, entry),
           \A a \in q.held \ r.held : a.kind = "transfer" => a \notin entry.manifest
    PROVE  Restored(q, entry)
<1> DEFINE s == entry.src
<1>1. s \in Source /\ r \in Roots /\ q \in Roots
  BY DEF Entries, Adds
<1>2. Tombed(r, s) /\ Tombed(q, s)
  BY <1>1 DEF Restored, Adds
<1>3. SUFFICES ASSUME NEW a \in entry.manifest \cap q.held, a.kind # "chunk", a \notin r.held
               PROVE  FALSE
  BY <1>2 DEF Restored
<1>4. a.kind \in {"revision", "row"} /\ \A x \in Holds(q, a) \cap r.have : ~Tombed(r, x)
  BY <1>3 DEF Adds
<1>5. PICK n \in Holds(q, a) : n \in Rests(s)
  BY <1>3, <1>4 DEF ManifestFits, Holds
<1>6. n \in q.have
  BY <1>1, <1>3, <1>4, <1>5, HoldsPublished
<1> QED
  BY <1>1, <1>2, <1>4, <1>5, <1>6, NewIsClear

\* A root in which tombstones only grew, together with what rests on them, stays sound.
LEMMA ErasesSound ==
    ASSUME NEW r, Sound(r), NEW q, Erases(r, q), Closed(q), OpsTombed(q), PurgesFit(q),
           \A s \in Source : Settled(q, s) => Settled(r, s) \/ Remains(r, s) = {}
    PROVE  Sound(q)
<1>1. Fits(q) /\ Adds(r, q)
  BY ErasesFits DEF Sound
<1>2. Gone(q)
  <2> SUFFICES ASSUME NEW s \in Source, Settled(q, s) PROVE Remains(q, s) = {}
    BY DEF Gone
  <2>1. Remains(r, s) = {}
    BY DEF Sound, Gone
  <2>2. r \in Roots /\ Fits(r)
    BY DEF Sound
  <2> QED
    BY <2>1, <2>2, ErasesRemains
<1>3. Kept(q)
  <2> SUFFICES ASSUME NEW e \in q.have \cap Entry, ~Tombed(q, e)
               PROVE  /\ e \in q.head[OwnerOf[e]].nodes
                      /\ Row(e, q.head[OwnerOf[e]]) \in q.held
    BY DEF Kept
  <2>1. e \in r.have /\ ~Tombed(r, e) /\ q.head = r.head
    BY DEF Erases, Node
  <2>2. Row(e, r.head[OwnerOf[e]]).kind = "row" /\ Row(e, r.head[OwnerOf[e]]).of = e
    BY DEF Row
  <2> QED
    BY <2>1, <2>2 DEF Sound, Kept, Erases
<1> QED
  BY <1>1, <1>2, <1>3 DEF Sound, Erases

-----------------------------------------------------------------------------
(* The transactions of retraction, purge and restore *)

LEMMA Operations ==
    ASSUME NEW s \in Source
    PROVE  /\ RetractOp(s) \in Op /\ PurgeOp(s) \in Op
           /\ RetractOp(s).src = s /\ PurgeOp(s).src = s
           /\ \A x \in Source : PurgeOp(x) # RetractOp(s) /\ (PurgeOp(x) = PurgeOp(s) => x = s)
  BY DEF RetractOp, PurgeOp, Op

LEMMA SendingsSent ==
    ASSUME NEW r \in Roots, NEW T, NEW state \in {"active", "blocked", "purge_pending", "purged"}
    PROVE  /\ SentAs(r, T, state) \in [Transfer -> Sendings]
           /\ \A t \in Transfer :
                 /\ SentAs(r, T, state)[t].carries = r.sent[t].carries
                 /\ r.sent[t].state # "none" => SentAs(r, T, state)[t].state # "none"
<1>1. \A t \in Transfer : r.sent[t] \in Sendings
  BY DEF Roots
<1> QED
  BY <1>1 DEF SentAs, Sendings

\* Blocking a source blocks all that rests on it, under one operation or an earlier
\* one (_block_target).
LEMMA BlockSound ==
    ASSUME NEW r, Sound(r), NEW s \in Source, NEW op \in Op, op.src = s,
           NEW state \in {"blocked", "purge_pending", "purged"},
           NEW q, q = Block(r, s, op, state)
    PROVE  /\ Sound(q) /\ Erases(r, q) /\ Tombed(q, s)
           /\ q.purge = r.purge /\ q.retracted = r.retracted
<1> DEFINE deps == Dependents(r, s)
           own == [state |-> IF r.tomb[s].state = "purged" THEN "purged" ELSE state, op |-> op]
           tomb == [x \in Source \cup Node |->
                IF x = s THEN own
                ELSE IF x \in deps /\ r.tomb[x] = None THEN [state |-> state, op |-> op]
                ELSE r.tomb[x]]
           pages == OwnersOf(deps \cap Claim)
           chunks == {a \in r.held : a.kind = "chunk" /\ a.of \in pages}
           sent == SentAs(r, SharedFrom(r, {s} \cup pages), state)
<1>1. q = [r EXCEPT !.tomb = tomb, !.sent = sent, !.held = r.held \ chunks]
  BY DEF Block
<1>2. r \in Roots /\ Fits(r) /\ deps = Rests(s) \cap r.have /\ r.have \subseteq Node
  BY DependentsRest DEF Sound, Fits, Roots
<1>3. \A x \in Source \cup Node : r.tomb[x] \in Tombstone /\ (Tombed(r, x) <=> r.tomb[x] # None)
  BY <1>2, Tombstones
<1>4. tomb \in [Source \cup Node -> Tombstone]
  <2>1. own \in Tombstone /\ [state |-> state, op |-> op] \in Tombstone
    BY DEF Tombstone
  <2> QED
    BY <1>3, <2>1
<1>5. sent \in [Transfer -> Sendings]
  BY <1>2, SendingsSent
<1>6. /\ q.tomb = tomb /\ q.sent = sent /\ q.held = r.held \ chunks
      /\ q.have = r.have /\ q.revs = r.revs /\ q.head = r.head /\ q.index = r.index
      /\ q.purge = r.purge /\ q.retracted = r.retracted
  BY <1>1, <1>2 DEF Roots
<1>7. q \in Roots
  <2> HIDE DEF tomb, sent, chunks
  <2> QED
    BY <1>1, <1>2, <1>4, <1>5 DEF Roots
<1>8. \A x \in Source \cup Node :
         /\ x = s \/ (x \in deps /\ ~Tombed(r, x)) => Tombed(q, x) /\ q.tomb[x].op = op
         /\ x # s /\ (x \notin deps \/ Tombed(r, x)) => q.tomb[x] = r.tomb[x]
  <2> SUFFICES ASSUME NEW x \in Source \cup Node
               PROVE  /\ x = s \/ (x \in deps /\ ~Tombed(r, x)) => Tombed(q, x) /\ q.tomb[x].op = op
                      /\ x # s /\ (x \notin deps \/ Tombed(r, x)) => q.tomb[x] = r.tomb[x]
    OBVIOUS
  <2>1. own.state # "none" /\ own.op = op
    OBVIOUS
  <2> QED
    BY <1>3, <1>6, <2>1 DEF Tombed
<1> HIDE DEF deps, tomb, own, pages, chunks, sent
<1>9. \A x \in Source \cup Node : Tombed(r, x) => Tombed(q, x)
  BY <1>8 DEF Tombed
<1>10. Erases(r, q)
  <2>1. \A a \in r.held \ q.held : a.kind # "row"
    BY <1>6 DEF chunks
  <2>2. \A t \in Transfer : /\ q.sent[t].carries = r.sent[t].carries
                            /\ r.sent[t].state # "none" => q.sent[t].state # "none"
    BY <1>2, <1>6, SendingsSent DEF sent
  <2> QED
    BY <1>6, <1>7, <1>9, <2>1, <2>2 DEF Erases
<1>11. Closed(q)
  <2> SUFFICES ASSUME NEW z \in Source, Tombed(q, z), NEW n \in Rests(z) \cap q.have
               PROVE  Tombed(q, n)
    BY DEF Closed
  <2>1. n \in r.have /\ n \in Node
    BY <1>2, <1>6
  <2>2. CASE z = s
    BY <1>2, <1>8, <1>9, <2>1, <2>2
  <2>3. CASE z # s
    <3>1. z \notin deps
      BY <1>2, EraseAssumption
    <3>2. Tombed(r, z)
      BY <1>8, <2>3, <3>1 DEF Tombed
    <3> QED
      BY <1>9, <2>1, <3>2 DEF Sound, Closed
  <2> QED
    BY <2>2, <2>3
<1>12. OpsTombed(q)
  <2> SUFFICES ASSUME NEW x \in Source \cup Node, NEW z \in Source,
                      Tombed(q, x), q.tomb[x].op = PurgeOp(z)
               PROVE  Tombed(q, z)
    BY DEF OpsTombed
  <2>1. CASE q.tomb[x].op = op
    <3>1. z = s
      BY <2>1, Operations
    <3> QED
      BY <3>1, <1>8
  <2>2. CASE q.tomb[x] = r.tomb[x]
    BY <2>2, <1>9 DEF Tombed, Sound, OpsTombed
  <2> QED
    BY <2>1, <2>2, <1>8
<1>13. PurgesFit(q)
  BY <1>6, <1>9 DEF Sound, PurgesFit
<1> QED
  BY <1>6, <1>8, <1>10, <1>11, <1>12, <1>13, ErasesSound DEF Settled

\* A root that keeps its tombstones and its purges.
LEMMA MarksSound ==
    ASSUME NEW r, Sound(r), NEW q, Erases(r, q), q.tomb = r.tomb, q.purge = r.purge
    PROVE  Sound(q)
<1>1. \A x : Tombed(q, x) <=> Tombed(r, x)
  BY DEF Tombed
<1>2. Closed(q) /\ OpsTombed(q) /\ PurgesFit(q)
  BY <1>1 DEF Sound, Closed, OpsTombed, PurgesFit, Erases
<1> QED
  BY <1>2, ErasesSound DEF Settled

LEMMA RedactSound ==
    ASSUME NEW r, Sound(r), NEW op \in Op, NEW q, q = Redact(r, op)
    PROVE  /\ Sound(q) /\ Erases(r, q)
           /\ q.tomb = r.tomb /\ q.purge = r.purge /\ q.retracted = r.retracted
<1>1. r \in Roots
  BY DEF Sound
<1> DEFINE hit == {e \in r.have \cap Entry : Tombed(r, e) /\ r.tomb[e].op = op}
           new == {v \in r.revs : v.nodes \cap hit # {} /\ \A x \in r.redacted : x.of # v}
           redacted == r.redacted \cup {[of |-> v, op |-> op, clean |-> FALSE] : v \in new}
<1>2. q = [r EXCEPT !.redacted = redacted]
  BY DEF Redact
<1>3. redacted \in SUBSET [of : Revisions, op : Op, clean : BOOLEAN]
  <2>1. new \subseteq Revisions /\ r.redacted \subseteq [of : Revisions, op : Op, clean : BOOLEAN]
    BY <1>1 DEF Roots
  <2> HIDE DEF new
  <2>2. \A v \in new : [of |-> v, op |-> op, clean |-> FALSE]
                          \in [of : Revisions, op : Op, clean : BOOLEAN]
    BY <2>1
  <2> QED
    BY <2>1, <2>2
<1> HIDE DEF redacted
<1>4. q \in Roots
  BY <1>1, <1>2, <1>3 DEF Roots
<1>5. /\ q.tomb = r.tomb /\ q.sent = r.sent /\ q.held = r.held
      /\ q.have = r.have /\ q.revs = r.revs /\ q.head = r.head /\ q.index = r.index
      /\ q.purge = r.purge /\ q.retracted = r.retracted
  BY <1>1, <1>2 DEF Roots
<1>6. Erases(r, q)
  BY <1>4, <1>5 DEF Erases, Tombed
<1> QED
  BY <1>5, <1>6, MarksSound

\* Content that was added is free of what is blocked: a purge that is done stays done.
LEMMA AddsSound ==
    ASSUME NEW r, Sound(r), NEW q, Adds(r, q), Fits(q), Kept(q),
           q.tomb = r.tomb, q.purge = r.purge
    PROVE  Sound(q)
<1>1. r \in Roots /\ q \in Roots /\ Fits(r) /\ Supported(r) /\ Closed(r)
  BY DEF Adds, Sound, Fits
<1>2. \A x : Tombed(q, x) <=> Tombed(r, x)
  BY DEF Tombed
<1>3. Closed(q)
  BY <1>1, <1>2, NewIsClear DEF Closed
<1>4. OpsTombed(q) /\ PurgesFit(q)
  BY <1>2 DEF Sound, OpsTombed, PurgesFit
<1>5. Gone(q)
  <2> SUFFICES ASSUME NEW s \in Source, Settled(q, s) PROVE Remains(q, s) = {}
    BY DEF Gone
  <2>1. Settled(r, s) /\ Remains(r, s) = {}
    BY DEF Settled, Sound, Gone
  <2>2. Tombed(r, s)
    BY <2>1 DEF Sound, PurgesFit, Settled, None
  <2> QED
    BY <1>1, <2>1, <2>2, RemainsErased
<1> QED
  BY <1>1, <1>3, <1>4, <1>5 DEF Sound

\* The clean revision of a document has every entry that is not blocked
\* (_publish_clean_memory_revision).
LEMMA CleanSound ==
    ASSUME NEW r, Sound(r), NEW op \in Op, NEW q, q = Clean(r, op)
    PROVE  /\ Sound(q) /\ Adds(r, q)
           /\ \A a \in q.held \ r.held : a.kind # "transfer"
           /\ q.tomb = r.tomb /\ q.purge = r.purge /\ q.retracted = r.retracted
           /\ q.have = r.have
<1>1. r \in Roots /\ Fits(r) /\ Kept(r)
  BY DEF Sound
<1> DEFINE docs == Unclean(r, op)
           nodes(o) == {e \in r.head[o].nodes : ~Tombed(r, e)}
           v(o) == Revision(o, nodes(o), op)
           new == [o \in docs |-> v(o)]
           head == [o \in Owner |-> IF o \in docs THEN new[o] ELSE r.head[o]]
           pieces(o) == {new[o]} \cup {Row(e, new[o]) : e \in new[o].nodes}
           content == UNION {pieces(o) : o \in docs}
           redacted == {IF x.op = op THEN [x EXCEPT !.clean = TRUE] ELSE x : x \in r.redacted}
           revs == r.revs \cup {new[o] : o \in docs}
<1>2. q = [r EXCEPT !.head = head, !.revs = revs, !.held = r.held \cup content,
                    !.redacted = redacted]
  BY DEF Clean
<1>3. docs \subseteq Owner
  <2>1. \A x \in r.redacted : x.of \in Revisions
    BY <1>1 DEF Roots
  <2> QED
    BY <2>1 DEF Unclean, Revisions
<1>4. \A o \in docs : /\ new[o] = v(o) /\ v(o) \in Revisions
                      /\ v(o).kind = "revision" /\ v(o).of = o /\ v(o).nodes = nodes(o)
                      /\ nodes(o) \subseteq NodesOf(r, o)
                      /\ \A n \in nodes(o) : n \in r.have /\ n \in Node /\ ~Tombed(r, n)
  <2> SUFFICES ASSUME NEW o \in docs
               PROVE  /\ v(o) \in Revisions
                      /\ v(o).kind = "revision" /\ v(o).of = o /\ v(o).nodes = nodes(o)
                      /\ nodes(o) \subseteq NodesOf(r, o)
                      /\ \A n \in nodes(o) : n \in r.have /\ n \in Node /\ ~Tombed(r, n)
    OBVIOUS
  <2>1. nodes(o) \subseteq NodesOf(r, o) /\ r.have \subseteq Node
    BY <1>1, <1>3 DEF Fits, HeadsFit, Roots
  <2> QED
    BY <1>3, <2>1 DEF Revision, Revisions, NodesOf
<1> HIDE DEF docs, nodes, v
<1>a. \A o \in docs : pieces(o) = {v(o)} \cup {Row(e, v(o)) : e \in nodes(o)}
  <2> SUFFICES ASSUME NEW o \in docs
               PROVE  pieces(o) = {v(o)} \cup {Row(e, v(o)) : e \in nodes(o)}
    OBVIOUS
  <2>1. new[o] = v(o) /\ new[o].nodes = nodes(o)
    BY <1>4
  <2> HIDE DEF new
  <2> QED
    BY <2>1
<1> HIDE DEF pieces
<1>5. \A a \in content : \E o \in docs :
         \/ a = v(o)
         \/ \E e \in nodes(o) : a = Row(e, v(o))
  BY <1>a
<1>6. \A o \in docs : v(o) \in content /\ \A e \in nodes(o) : Row(e, v(o)) \in content
  BY <1>a
<1> HIDE DEF content, redacted
<1>7. \A a \in content :
         /\ a \in Artifacts /\ a.kind \in {"revision", "row"}
         /\ a.kind = "revision" => a \in revs
         /\ a.kind = "row" => a = Row(a.of, a.in) /\ a.in \in revs /\ a.of \in a.in.nodes
         /\ \A n \in Holds(q, a) : ~Tombed(r, n)
  <2> SUFFICES ASSUME NEW a \in content
               PROVE  /\ a \in Artifacts /\ a.kind \in {"revision", "row"}
                      /\ a.kind = "revision" => a \in revs
                      /\ a.kind = "row" => a = Row(a.of, a.in) /\ a.in \in revs /\ a.of \in a.in.nodes
                      /\ \A n \in Holds(q, a) : ~Tombed(r, n)
    OBVIOUS
  <2>1. PICK o \in docs : a = v(o) \/ \E e \in nodes(o) : a = Row(e, v(o))
    BY <1>5
  <2>2. v(o) \in revs
    BY <1>4
  <2>3. CASE a = v(o)
    BY <1>4, <2>2, <2>3 DEF Artifacts, Holds
  <2>4. ASSUME NEW e \in nodes(o), a = Row(e, v(o)) PROVE
              /\ a \in Artifacts /\ a.kind = "row" /\ a.of = e /\ a.in = v(o)
              /\ a = Row(a.of, a.in)
    BY <1>4, <2>4 DEF Artifacts, Row
  <2>5. CASE \E e \in nodes(o) : a = Row(e, v(o))
    BY <1>4, <2>2, <2>4, <2>5 DEF Holds
  <2> QED
    BY <2>1, <2>3, <2>5
<1>8. /\ q.tomb = r.tomb /\ q.sent = r.sent /\ q.held = r.held \cup content
      /\ q.have = r.have /\ q.revs = revs /\ q.head = head /\ q.index = r.index
      /\ q.purge = r.purge /\ q.retracted = r.retracted
  <2> HIDE DEF head, revs
  <2> QED
    BY <1>1, <1>2 DEF Roots
<1>9. q \in Roots
  <2>1. head \in [Owner -> Revisions]
    BY <1>1, <1>4 DEF Roots
  <2>2. revs \in SUBSET Revisions
    BY <1>1, <1>4 DEF Roots
  <2>3. redacted \in SUBSET [of : Revisions, op : Op, clean : BOOLEAN]
    <3> DEFINE done(x) == IF x.op = op THEN [x EXCEPT !.clean = TRUE] ELSE x
    <3>1. \A x \in r.redacted : done(x) \in [of : Revisions, op : Op, clean : BOOLEAN]
      BY <1>1 DEF Roots
    <3>2. redacted = {done(x) : x \in r.redacted}
      BY DEF redacted
    <3> HIDE DEF done
    <3> QED
      BY <3>1, <3>2
  <2>4. r.held \cup content \in SUBSET Artifacts
    BY <1>1, <1>7 DEF Roots
  <2> HIDE DEF head, revs
  <2> QED
    BY <1>1, <1>2, <2>1, <2>2, <2>3, <2>4 DEF Roots
<1>10. Fits(q)
  <2>1. Supported(q) /\ SentFit(q) /\ IndexFit(q)
    BY <1>1, <1>8 DEF Fits, Supported, SentFit, IndexFit
  <2>2. RevsFit(q) /\ HeadsFit(q)
    BY <1>1, <1>3, <1>4, <1>8 DEF Fits, RevsFit, HeadsFit, NodesOf
  <2>3. HeldFit(q)
    <3> HIDE DEF revs
    <3>1. r.revs \subseteq revs
      BY DEF revs
    <3>2. \A a \in r.held : a \notin content =>
             /\ a.kind = "revision" => a \in revs
             /\ a.kind = "row" => a = Row(a.of, a.in) /\ a.in \in revs /\ a.of \in a.in.nodes
             /\ a.kind = "chunk" => a = Chunk(a.in) /\ a.in \in revs
             /\ a.kind = "transfer" => q.sent[a.of].state # "none"
             /\ a.kind # "replica"
      BY <1>1, <1>8, <3>1 DEF Fits, HeldFit
    <3> QED
      BY <1>7, <1>8, <3>2 DEF HeldFit
  <2> QED
    BY <2>1, <2>2, <2>3 DEF Fits
<1>11. Adds(r, q)
  <2>1. \A a \in r.held : Holds(q, a) = Holds(r, a)
    BY <1>8 DEF Holds
  <2> QED
    BY <1>1, <1>7, <1>8, <1>9, <2>1 DEF Adds, Tombed
<1>12. Kept(q)
  <2> SUFFICES ASSUME NEW e \in q.have \cap Entry, ~Tombed(q, e)
               PROVE  /\ e \in q.head[OwnerOf[e]].nodes
                      /\ Row(e, q.head[OwnerOf[e]]) \in q.held
    BY DEF Kept
  <2>1. /\ e \in r.head[OwnerOf[e]].nodes /\ ~Tombed(r, e) /\ OwnerOf[e] \in Owner
        /\ Row(e, r.head[OwnerOf[e]]) \in r.held
    BY <1>1, <1>8, EraseAssumption DEF Kept, Tombed, Node
  <2>2. CASE OwnerOf[e] \in docs
    BY <1>4, <1>6, <1>8, <2>1, <2>2 DEF nodes
  <2>3. CASE OwnerOf[e] \notin docs
    BY <1>8, <2>1, <2>3
  <2> QED
    BY <2>2, <2>3
<1> QED
  BY <1>7, <1>8, <1>10, <1>11, <1>12, AddsSound

\* Erasing what a manifest lists takes no row of an entry that is not blocked
\* (_purge_exact_file, _scrub_manifest_entity).
LEMMA ScrubSound ==
    ASSUME NEW r, Sound(r), NEW s \in Source, Tombed(r, s),
           NEW artifacts \in SUBSET Artifacts, ManifestFits(artifacts, s),
           NEW q, q = Scrub(r, artifacts)
    PROVE  /\ Sound(q) /\ Erases(r, q) /\ q.held \cap artifacts = {}
           /\ q.tomb = r.tomb /\ q.purge = r.purge /\ q.retracted = r.retracted
<1>1. r \in Roots /\ Fits(r) /\ Closed(r)
  BY DEF Sound
<1> DEFINE revisions == {a \in artifacts : a.kind = "revision" /\ a.of \in Doc}
           rows == UNION {{Row(n, v) : n \in {n \in v.nodes : Tombed(r, n)}} : v \in revisions}
           sent == [t \in Transfer |->
                [state |-> IF Sent(t) \in artifacts /\ r.sent[t].state # "none"
                           THEN "purge_pending" ELSE r.sent[t].state,
                 carries |-> r.sent[t].carries]]
           held == r.held \ (artifacts \cup rows)
<1>2. q = [r EXCEPT !.held = held, !.sent = sent]
  BY DEF Scrub
<1>3. \A t \in Transfer : r.sent[t] \in Sendings
  BY <1>1 DEF Roots
<1>4. sent \in [Transfer -> Sendings]
  BY <1>3 DEF Sendings
<1>5. \A a \in r.held \ held : a.kind = "row" => Tombed(r, a.of)
  <2> SUFFICES ASSUME NEW a \in r.held \ held, a.kind = "row" PROVE Tombed(r, a.of)
    OBVIOUS
  <2>1. CASE a \in artifacts
    <3>1. a.of \in Rests(s)
      BY <2>1 DEF ManifestFits
    <3>2. a.of \in r.have
      BY <1>1 DEF Fits, HeldFit, RevsFit, NodesOf
    <3> QED
      BY <1>1, <3>1, <3>2 DEF Closed
  <2>2. CASE a \in rows
    <3>1. PICK v \in revisions : \E n \in v.nodes : Tombed(r, n) /\ a = Row(n, v)
      BY <2>2
    <3> QED
      BY <3>1 DEF Row
  <2> QED
    BY <2>1, <2>2
<1> HIDE DEF rows, revisions
<1>6. /\ q.tomb = r.tomb /\ q.sent = sent /\ q.held = held
      /\ q.have = r.have /\ q.revs = r.revs /\ q.head = r.head /\ q.index = r.index
      /\ q.purge = r.purge /\ q.retracted = r.retracted
  <2> HIDE DEF held, sent
  <2> QED
    BY <1>1, <1>2 DEF Roots
<1>7. q \in Roots
  <2>1. held \in SUBSET Artifacts
    BY <1>1 DEF Roots
  <2> HIDE DEF held, sent
  <2> QED
    BY <1>1, <1>2, <1>4, <2>1 DEF Roots
<1>8. Erases(r, q)
  <2>1. \A t \in Transfer : /\ q.sent[t].carries = r.sent[t].carries
                            /\ r.sent[t].state # "none" => q.sent[t].state # "none"
    BY <1>6
  <2> HIDE DEF sent
  <2> QED
    BY <1>5, <1>6, <1>7, <2>1 DEF Erases, Tombed
<1> QED
  BY <1>6, <1>8, MarksSound

\* A ledger entry blocks, cleans and erases on a restored copy, also where the copy
\* already knew of the purge, and takes nothing back of the entries before it
\* (apply_erase_entries).
LEMMA ApplyEntrySound ==
    ASSUME NEW r, Sound(r), NEW entry \in Entries, ManifestFits(entry.manifest, entry.src),
           NEW q, q = ApplyEntry(r, entry)
    PROVE  /\ Sound(q) /\ q.purge = r.purge
           /\ Restored(q, entry)
           /\ \A e \in Entries : ManifestFits(e.manifest, e.src) /\ Restored(r, e) => Restored(q, e)
<1> DEFINE s == entry.src
           op == PurgeOp(s)
           known == \E x \in DOMAIN r.tomb : Tombed(r, x) /\ r.tomb[x].op = op
           blocked == IF known THEN r ELSE Block(r, s, op, "purged")
           redacted == Redact(blocked, op)
           clean == Clean(redacted, op)
<1>1. s \in Source /\ op \in Op /\ op.src = s /\ entry.manifest \in SUBSET Artifacts
  BY Operations DEF Entries
<1>2. Sound(blocked) /\ Erases(r, blocked) /\ Tombed(blocked, s) /\ blocked.purge = r.purge
  <2>1. CASE known
    <3>1. r \in Roots /\ Tombed(r, s)
      BY <1>1, <2>1 DEF Sound, OpsTombed, Roots
    <3> QED
      BY <2>1, <3>1 DEF Erases
  <2>2. CASE ~known
    <3> HIDE DEF op
    <3> QED
      BY <1>1, <2>2, BlockSound
  <2> QED
    BY <2>1, <2>2
<1> HIDE DEF blocked, op
<1>3. Sound(redacted) /\ Erases(blocked, redacted) /\ redacted.tomb = blocked.tomb
      /\ redacted.purge = blocked.purge
  BY <1>1, <1>2, RedactSound
<1> HIDE DEF redacted
<1>4. /\ Sound(clean) /\ Adds(redacted, clean) /\ clean.tomb = redacted.tomb
      /\ clean.purge = redacted.purge
      /\ \A a \in clean.held \ redacted.held : a.kind # "transfer"
  BY <1>1, <1>3, CleanSound
<1> HIDE DEF clean
<1>5. q = Scrub(clean, entry.manifest)
  BY DEF ApplyEntry, clean, redacted, blocked, op
<1>6. Tombed(clean, s)
  BY <1>2, <1>3, <1>4 DEF Tombed
<1>7. /\ Sound(q) /\ Erases(clean, q) /\ q.held \cap entry.manifest = {}
      /\ q.tomb = clean.tomb /\ q.purge = clean.purge
  BY <1>1, <1>4, <1>5, <1>6, ScrubSound
<1>8. Restored(q, entry)
  BY <1>6, <1>7 DEF Restored, Tombed
<1>9. ASSUME NEW e \in Entries, ManifestFits(e.manifest, e.src), Restored(r, e)
      PROVE  Restored(q, e)
  <2>1. Restored(redacted, e)
    BY <1>2, <1>3, <1>9, ErasesRestored
  <2>2. Restored(clean, e)
    BY <1>3, <1>4, <1>9, <2>1, RestoredStays DEF Sound, Fits
  <2> QED
    BY <1>7, <2>2, ErasesRestored
<1> QED
  BY <1>2, <1>3, <1>4, <1>7, <1>8, <1>9

-----------------------------------------------------------------------------
(* The service *)

\* What is published rests on nothing blocked (_resolve_evidence, publish_claim).
LEMMA PublishedSound ==
    ASSUME NEW r, Sound(r), NEW n \in Node, n \notin r.have,
           \A x \in Support[n] : Resolves(r, x), Readable(r, OwnerOf[n]),
           NEW q, q = Published(r, n)
    PROVE  /\ Sound(q) /\ Adds(r, q) /\ q.purge = r.purge
           /\ \A a \in q.held \ r.held : a.kind # "transfer"
<1> DEFINE o == OwnerOf[n]
           v == Revision(o, r.head[o].nodes \cup {n}, Publication)
           rows == {Row(m, v) : m \in v.nodes}
<1>1. r \in Roots /\ Fits(r) /\ Kept(r) /\ o \in Owner
  BY EraseAssumption DEF Sound
<1>2. /\ v.kind = "revision" /\ v.of = o /\ v.nodes = r.head[o].nodes \cup {n}
      /\ v \in Revisions
      /\ r.head[o].nodes \subseteq NodesOf(r, o) /\ v.nodes \subseteq Node
  BY <1>1 DEF Revision, Revisions, Fits, HeadsFit, NodesOf, Roots
<1>3. /\ q = [r EXCEPT !.have = r.have \cup {n}, !.revs = r.revs \cup {v},
                       !.head = [r.head EXCEPT ![o] = v],
                       !.held = r.held \cup {v} \cup rows,
                       !.index = r.index \cup {Chunk(v)}]
  BY <1>1 DEF Published, Roots
<1> HIDE DEF v
<1>4. \A a \in rows : /\ a \in Artifacts /\ a.kind = "row" /\ a = Row(a.of, a.in)
                      /\ a.in = v /\ a.of \in v.nodes
  BY <1>2 DEF Row, Artifacts
<1>5. \A m \in v.nodes : Row(m, v) \in rows
  OBVIOUS
<1> HIDE DEF rows
<1>6. v \in Artifacts /\ Chunk(v) \in Artifacts /\ Chunk(v).in = v
  BY <1>1, <1>2 DEF Chunk, Artifacts
<1>7. /\ q.tomb = r.tomb /\ q.sent = r.sent /\ q.held = r.held \cup {v} \cup rows
      /\ q.have = r.have \cup {n} /\ q.revs = r.revs \cup {v}
      /\ q.head = [r.head EXCEPT ![o] = v] /\ q.index = r.index \cup {Chunk(v)}
      /\ q.purge = r.purge
  BY <1>1, <1>3 DEF Roots
<1>8. q \in Roots
  <2>1. /\ r.have \cup {n} \in SUBSET Node /\ r.revs \cup {v} \in SUBSET Revisions
        /\ [r.head EXCEPT ![o] = v] \in [Owner -> Revisions]
        /\ r.held \cup {v} \cup rows \in SUBSET Artifacts
        /\ r.index \cup {Chunk(v)} \in SUBSET Artifacts
    BY <1>1, <1>2, <1>4, <1>6 DEF Roots
  <2> QED
    BY <1>1, <1>3, <2>1 DEF Roots
<1>9. Fits(q)
  <2>1. Supported(q)
    BY <1>1, <1>7, EraseAssumption DEF Fits, Supported, Resolves
  <2>2. \A p \in Owner : NodesOf(r, p) \subseteq NodesOf(q, p)
    BY <1>7 DEF NodesOf
  <2>3. v.nodes \subseteq NodesOf(q, o)
    BY <1>2, <1>7, <2>2 DEF NodesOf
  <2>4. RevsFit(q)
    BY <1>1, <1>2, <1>7, <2>2, <2>3 DEF Fits, RevsFit, Roots, Revisions
  <2>5. HeadsFit(q)
    BY <1>1, <1>2, <1>7, <2>2, <2>3 DEF Fits, HeadsFit, Roots
  <2>6. HeldFit(q)
    BY <1>1, <1>2, <1>4, <1>7 DEF Fits, HeldFit
  <2>7. IndexFit(q) /\ SentFit(q)
    BY <1>1, <1>6, <1>7 DEF Fits, IndexFit, SentFit
  <2> QED
    BY <2>1, <2>4, <2>5, <2>6, <2>7 DEF Fits
<1>10. \A x \in (r.head[o].nodes \cup {n}) \cap (Source \cup r.have) : ~Tombed(r, x)
  BY EraseAssumption DEF Readable
<1>11. Adds(r, q)
  <2>1. \A a \in r.held : Holds(q, a) = Holds(r, a)
    BY <1>7 DEF Holds
  <2>2. Holds(q, v) = v.nodes /\ \A a \in rows : Holds(q, a) \subseteq v.nodes
    BY <1>2, <1>4 DEF Holds
  <2>3. \A x : Tombed(r, x) <=> Tombed(q, x)
    BY <1>7 DEF Tombed
  <2> QED
    BY <1>1, <1>2, <1>4, <1>7, <1>8, <1>10, <2>1, <2>2, <2>3 DEF Adds
<1>12. Kept(q)
  <2> SUFFICES ASSUME NEW e \in q.have \cap Entry, ~Tombed(q, e)
               PROVE  /\ e \in q.head[OwnerOf[e]].nodes
                      /\ Row(e, q.head[OwnerOf[e]]) \in q.held
    BY DEF Kept
  <2>1. OwnerOf[e] \in Owner /\ ~Tombed(r, e) /\ r.head \in [Owner -> Revisions]
    BY <1>1, <1>7, EraseAssumption DEF Tombed, Node, Roots
  <2>2. e # n => e \in r.head[OwnerOf[e]].nodes /\ Row(e, r.head[OwnerOf[e]]) \in r.held
    BY <1>1, <1>7, <2>1 DEF Kept
  <2>3. CASE OwnerOf[e] = o
    BY <1>1, <1>2, <1>5, <1>7, <2>1, <2>2, <2>3
  <2>4. CASE OwnerOf[e] # o
    BY <1>1, <1>7, <2>1, <2>2, <2>4
  <2> QED
    BY <2>3, <2>4
<1>13. Sound(q)
  BY <1>7, <1>9, <1>11, <1>12, AddsSound
<1> QED
  BY <1>4, <1>2, <1>7, <1>11, <1>13

\* An indexed item is a chunk of what the root still holds (_index_item).
LEMMA IndexedSound ==
    ASSUME NEW r, Sound(r), NEW item \in r.index,
           NEW q \in Roots, r.held \subseteq q.held, q.held \subseteq r.held \cup {item},
           item \in q.held \ r.held => Drafts(r, item.in),
           q.tomb = r.tomb, q.sent = r.sent, q.have = r.have,
           q.revs = r.revs, q.head = r.head, q.index \subseteq r.index, q.purge = r.purge
    PROVE  /\ Sound(q) /\ q.purge = r.purge /\ q.tomb = r.tomb
           /\ \A a \in q.held \ r.held : a.kind = "chunk"
<1>1. r \in Roots /\ Fits(r)
  BY DEF Sound
<1>2. /\ item \in Artifacts /\ item = Chunk(item.in) /\ item.in \in r.revs
      /\ item.kind = "chunk" /\ item.in \in Revisions
  BY <1>1 DEF Fits, IndexFit, Roots, Chunk
<1>3. Fits(q)
  <2>1. Supported(q) /\ RevsFit(q) /\ HeadsFit(q) /\ IndexFit(q) /\ SentFit(q)
    BY <1>1 DEF Fits, Supported, RevsFit, HeadsFit, IndexFit, SentFit, NodesOf
  <2>2. HeldFit(q)
    BY <1>1, <1>2 DEF Fits, HeldFit
  <2> QED
    BY <2>1, <2>2 DEF Fits
<1>4. Closed(q) /\ OpsTombed(q) /\ PurgesFit(q) /\ Kept(q)
  BY DEF Sound, Closed, OpsTombed, PurgesFit, Kept, Tombed
<1>5. Gone(q)
  <2> SUFFICES ASSUME NEW s \in Source, Settled(q, s) PROVE Remains(q, s) = {}
    BY DEF Gone
  <2>1. Remains(r, s) = {}
    BY DEF Settled, Sound, Gone
  <2>2. Dependents(q, s) = Dependents(r, s) /\ \A a : Holds(q, a) = Holds(r, a)
    BY DEF Dependents, Holds
  <2>3. \A a \in r.held : a # SourceText(s) /\ Holds(r, a) \cap (Dependents(r, s) \cup {s}) = {}
    BY <2>1 DEF Remains
  <2>4. ASSUME Drafts(r, item.in), NEW x \in item.in.nodes
        PROVE  x \notin Dependents(r, s) \cup {s}
    <3>1. CASE item.in \in r.held
      BY <1>2, <2>3, <2>4, <3>1 DEF Holds, Revisions
    <3>2. CASE Row(x, item.in) \in r.held
      <4>1. Holds(r, Row(x, item.in)) = {x}
        BY DEF Holds, Row
      <4> QED
        BY <2>3, <3>2, <4>1
    <3> QED
      BY <2>4, <3>1, <3>2 DEF Drafts
  <2>5. Holds(r, item) = item.in.nodes /\ item # SourceText(s)
    BY <1>2 DEF Holds, SourceText
  <2> QED
    BY <2>2, <2>3, <2>4, <2>5 DEF Remains
<1> QED
  BY <1>2, <1>3, <1>4, <1>5 DEF Sound

\* A transfer carries nothing that is blocked when it is recorded (record_transfer).
LEMMA SharedSound ==
    ASSUME NEW r, Sound(r), NEW t \in Transfer, r.sent[t].state = "none",
           \A s \in Shares[t] \cap Source : ~Tombed(r, s),
           \A o \in Shares[t] \cap Owner : r.head[o].by # None /\ Readable(r, o),
           NEW carries, carries = (Shares[t] \cap Source)
                                   \cup UNION {r.head[o].nodes : o \in Shares[t] \cap Owner},
           NEW q, q = [r EXCEPT !.sent[t] = [state |-> "active", carries |-> carries],
                                !.held = r.held \cup {Sent(t)}]
    PROVE  /\ Sound(q) /\ Adds(r, q) /\ q.purge = r.purge
           /\ \A a \in q.held \ r.held : a = Sent(t)
<1>1. r \in Roots /\ Fits(r) /\ Kept(r)
  BY DEF Sound
<1> DEFINE sending == [state |-> "active", carries |-> carries]
           sent == [r.sent EXCEPT ![t] = sending]
<1>2. \A x \in carries : /\ ~Tombed(r, x)
                         /\ \/ x \in Source /\ x \in Shares[t]
                            \/ x \in r.have /\ OwnerOf[x] \in Shares[t]
  <2> SUFFICES ASSUME NEW x \in carries
               PROVE  /\ ~Tombed(r, x)
                      /\ \/ x \in Source /\ x \in Shares[t]
                         \/ x \in r.have /\ OwnerOf[x] \in Shares[t]
    OBVIOUS
  <2>1. CASE x \in Shares[t] \cap Source
    BY <2>1
  <2>2. ASSUME NEW o \in Shares[t] \cap Owner, x \in r.head[o].nodes
        PROVE  ~Tombed(r, x) /\ x \in r.have /\ OwnerOf[x] \in Shares[t]
    BY <1>1, <2>2 DEF Readable, Fits, HeadsFit, NodesOf
  <2> QED
    BY <2>1, <2>2
<1>3. sending \in Sendings
  <2>1. r.have \subseteq Node
    BY <1>1 DEF Roots
  <2> QED
    BY <1>2, <2>1 DEF Sendings
<1>4. sent \in [Transfer -> Sendings] /\ sent[t] = sending
      /\ \A u \in Transfer : u # t => sent[u] = r.sent[u]
  BY <1>1, <1>3 DEF Roots
<1>5. Sent(t) \in Artifacts /\ Sent(t).kind = "transfer" /\ Sent(t).of = t
  BY DEF Sent, Artifacts
<1>6. q = [r EXCEPT !.sent = sent, !.held = r.held \cup {Sent(t)}]
  BY <1>1 DEF Roots
<1> HIDE DEF sending, sent
<1>7. /\ q.tomb = r.tomb /\ q.sent = sent /\ q.held = r.held \cup {Sent(t)}
      /\ q.have = r.have /\ q.revs = r.revs /\ q.head = r.head /\ q.index = r.index
      /\ q.purge = r.purge /\ q \in Roots
  <2>1. r.held \cup {Sent(t)} \in SUBSET Artifacts
    BY <1>1, <1>5 DEF Roots
  <2> QED
    BY <1>1, <1>4, <1>6, <2>1 DEF Roots
<1>8. \A a \in r.held : a.kind = "transfer" => a.of \in Transfer /\ a.of # t
  BY <1>1 DEF Fits, HeldFit, Roots, Artifacts, Revisions
<1>9. Fits(q)
  <2>1. Supported(q) /\ RevsFit(q) /\ HeadsFit(q) /\ IndexFit(q)
    BY <1>1, <1>7 DEF Fits, Supported, RevsFit, HeadsFit, IndexFit, NodesOf
  <2>2. SentFit(q)
    BY <1>1, <1>2, <1>4, <1>7 DEF Fits, SentFit, sending
  <2>3. q.sent[t].state # "none"
    BY <1>4, <1>7 DEF sending
  <2>4. HeldFit(q)
    BY <1>1, <1>4, <1>5, <1>7, <1>8, <2>3 DEF Fits, HeldFit
  <2> QED
    BY <2>1, <2>2, <2>4 DEF Fits
<1>10. Adds(r, q)
  <2>1. \A a \in r.held : Holds(q, a) = Holds(r, a)
    BY <1>4, <1>7, <1>8 DEF Holds
  <2>2. Holds(q, Sent(t)) = carries
    BY <1>4, <1>5, <1>7 DEF Holds, sending
  <2>3. \A x : Tombed(r, x) <=> Tombed(q, x)
    BY <1>7 DEF Tombed
  <2> QED
    BY <1>1, <1>2, <1>5, <1>7, <2>1, <2>2, <2>3 DEF Adds
<1>11. Kept(q)
  BY <1>1, <1>7 DEF Kept, Tombed
<1> QED
  BY <1>7, <1>9, <1>10, <1>11, AddsSound

\* A manifest names all that remains of the source (_purge_manifest).
LEMMA ManifestSound ==
    ASSUME NEW r, Sound(r), NEW s \in Source
    PROVE  /\ Remains(r, s) \subseteq Manifest(r, s)
           /\ ManifestFits(Manifest(r, s), s)
           /\ Manifest(r, s) \in SUBSET Artifacts
<1> DEFINE deps == Dependents(r, s)
           owners == OwnersOf(deps)
           shared == SharedFrom(r, {s} \cup owners)
           revs == {v \in r.revs : v.nodes \cap deps # {}}
           parts(v) == {v} \cup {Row(n, v) : n \in v.nodes \cap deps}
           all == UNION {parts(v) : v \in revs}
           chunks == {a \in r.held : a.kind = "chunk" /\ a.of \in owners}
           texts == {Sent(t) : t \in shared}
           copies == {Replica(t) : t \in {t \in shared : r.replica[t] # "none"}}
<1>1. r \in Roots /\ Fits(r) /\ r.have \subseteq Node /\ deps = Rests(s) \cap r.have
  BY DependentsRest DEF Sound, Fits, Roots
<1>2. Manifest(r, s) = {SourceText(s)} \cup all \cup chunks \cup texts \cup copies
  BY DEF Manifest
<1>3. \A n \in deps : OwnerOf[n] \in owners
  BY DEF OwnersOf
<1>4. \A v \in revs : \A a \in parts(v) :
         /\ a \in Artifacts
         /\ \/ a = v /\ v.kind = "revision" /\ v.nodes \cap Rests(s) # {}
            \/ a.kind = "row" /\ a.of \in Rests(s)
  <2> SUFFICES ASSUME NEW v \in revs, NEW a \in parts(v)
               PROVE  /\ a \in Artifacts
                      /\ \/ a = v /\ v.kind = "revision" /\ v.nodes \cap Rests(s) # {}
                         \/ a.kind = "row" /\ a.of \in Rests(s)
    OBVIOUS
  <2>1. v \in Revisions /\ v.kind = "revision"
    BY <1>1 DEF Roots, Revisions
  <2> QED
    BY <1>1, <2>1 DEF Row, Artifacts
<1>5. \A v \in revs : v \in parts(v) /\ \A n \in v.nodes \cap deps : Row(n, v) \in parts(v)
  OBVIOUS
<1>6. \A t \in shared : t \in Transfer /\ Sent(t) \in texts
  BY DEF SharedFrom
<1>7. /\ \A a \in texts : a \in Artifacts /\ a.kind = "transfer"
      /\ \A a \in copies : a \in Artifacts /\ a.kind = "replica"
      /\ SourceText(s) \in Artifacts /\ SourceText(s).kind = "source"
      /\ \A a \in chunks : a \in Artifacts /\ a.kind = "chunk"
  <2>1. \A t \in Transfer : /\ Sent(t) \in Artifacts /\ Sent(t).kind = "transfer"
                            /\ Replica(t) \in Artifacts /\ Replica(t).kind = "replica"
    BY DEF Sent, Replica, Artifacts
  <2>2. SourceText(s) \in Artifacts /\ SourceText(s).kind = "source"
    BY DEF SourceText, Artifacts
  <2>3. r.held \subseteq Artifacts
    BY <1>1 DEF Roots
  <2> HIDE DEF owners, shared
  <2> QED
    BY <1>6, <2>1, <2>2, <2>3
<1>b. \A a \in r.held : a.kind = "chunk" /\ a.of \in owners => a \in chunks
  OBVIOUS
<1> HIDE DEF parts, texts, copies, chunks, revs, shared, owners, deps
<1>c. \A a : a \in all <=> \E v \in revs : a \in parts(v)
  OBVIOUS
<1> HIDE DEF all
<1>8. ASSUME NEW a \in Manifest(r, s)
      PROVE  /\ a \in Artifacts
             /\ a.kind = "revision" => a.nodes \cap Rests(s) # {}
             /\ a.kind = "row" => a.of \in Rests(s)
  BY <1>2, <1>4, <1>7, <1>8, <1>c
<1>9. ASSUME NEW a \in Remains(r, s) PROVE a \in Manifest(r, s)
  <2>1. a \in r.held /\ a \in Artifacts /\ (a = SourceText(s) \/ \E x \in Holds(r, a) : x \in deps \cup {s})
    BY <1>1, <1>9 DEF Remains, Roots, deps
  <2>2. CASE a = SourceText(s)
    BY <1>2, <2>2
  <2>3. ASSUME NEW x \in Holds(r, a), x \in deps \cup {s} PROVE a \in Manifest(r, s)
    <3>1. a.kind # "transfer" => x \in deps
      BY <1>1, <2>1, <2>3, HoldsPublished, EraseAssumption
    <3>2. CASE a.kind = "row"
      <4>1. a = Row(x, a.in) /\ a.in \in revs /\ x \in a.in.nodes \cap deps
        BY <1>1, <2>1, <2>3, <3>1, <3>2 DEF Fits, HeldFit, Holds, revs
      <4> QED
        BY <1>2, <1>5, <1>c, <4>1
    <3>3. CASE a.kind = "revision"
      <4>1. a \in revs
        BY <1>1, <2>1, <2>3, <3>1, <3>3 DEF Fits, HeldFit, Holds, revs
      <4> QED
        BY <1>2, <1>5, <1>c, <4>1
    <3>4. CASE a.kind = "chunk"
      <4>1. a.of = OwnerOf[x]
        BY <1>1, <2>1, <2>3, <3>1, <3>4 DEF Fits, HeldFit, RevsFit, NodesOf, Holds, Chunk
      <4> QED
        BY <1>2, <1>3, <1>b, <2>1, <3>1, <3>4, <4>1
    <3>5. CASE a.kind = "transfer"
      <4>1. a.of \in Transfer /\ a = Sent(a.of)
        BY <2>1, <3>5 DEF Artifacts, Revisions, Sent
      <4>2. x \in r.sent[a.of].carries /\ r.sent[a.of].state # "none"
        BY <1>1, <2>1, <2>3, <3>5 DEF Fits, HeldFit, Holds
      <4>3. x = s => s \in Shares[a.of]
        BY <1>1, <4>1, <4>2, EraseAssumption DEF Fits, SentFit
      <4>4. x \in deps => OwnerOf[x] \in Shares[a.of] /\ OwnerOf[x] \in owners
        BY <1>1, <1>3, <4>1, <4>2, EraseAssumption DEF Fits, SentFit
      <4>5. a.of \in shared
        BY <2>3, <4>1, <4>2, <4>3, <4>4 DEF SharedFrom, shared
      <4> QED
        BY <1>2, <1>6, <4>1, <4>5
    <3>6. CASE a.kind \notin {"row", "revision", "chunk", "transfer"}
      BY <2>3, <3>6 DEF Holds
    <3> QED
      BY <3>2, <3>3, <3>4, <3>5, <3>6
  <2> QED
    BY <2>1, <2>2, <2>3
<1> QED
  BY <1>8, <1>9 DEF ManifestFits

-----------------------------------------------------------------------------
(* The inductive invariant *)

LEMMA InitIInv == Init => IInv
<1> SUFFICES ASSUME Init PROVE IInv
  OBVIOUS
<1>1. root = EmptyRoot /\ ledger = <<>> /\ cmd = NoCommand /\ backup = None /\ restore = None
      /\ restores = 0 /\ crashes = 0 /\ through = 0
  BY DEF Init
<1>2. root \in Roots
  <2>1. \A o \in Owner : Revision(o, {}, None) \in Revisions
    BY DEF Revision, Revisions
  <2>2. \A s \in Source : SourceText(s) \in Artifacts
    BY DEF SourceText, Artifacts
  <2>3. [o \in Owner |-> Revision(o, {}, None)] \in [Owner -> Revisions]
    BY <2>1
  <2>4. {SourceText(s) : s \in Source} \in SUBSET Artifacts
    BY <2>2
  <2>5. [x \in Source \cup Node |-> None] \in [Source \cup Node -> Tombstone]
    BY DEF Tombstone
  <2>6. [t \in Transfer |-> [state |-> "none", carries |-> {}]] \in [Transfer -> Sendings]
    BY DEF Sendings
  <2>7. [s \in Source |-> None] \in [Source -> {None} \cup Requests]
    OBVIOUS
  <2> QED
    BY <1>1, <2>3, <2>4, <2>5, <2>6, <2>7 DEF EmptyRoot, Roots
<1>3. /\ root.have = {} /\ root.revs = {} /\ root.index = {}
      /\ \A o \in Owner : root.head[o].of = o /\ root.head[o].nodes = {}
      /\ \A a \in root.held : a.kind = "source"
      /\ \A t \in Transfer : root.sent[t].carries = {}
      /\ \A x \in Source \cup Node : ~Tombed(root, x)
      /\ \A s \in Source : root.purge[s] = None
  BY <1>1 DEF EmptyRoot, Revision, SourceText, Tombed, None
<1>4. Sound(root)
  <2>1. Fits(root)
    BY <1>3 DEF Fits, Supported, RevsFit, HeadsFit, HeldFit, IndexFit, SentFit
  <2>2. Closed(root) /\ OpsTombed(root) /\ PurgesFit(root) /\ Gone(root) /\ Kept(root)
    BY <1>3 DEF Closed, OpsTombed, PurgesFit, Gone, Settled, None, Kept
  <2> QED
    BY <1>2, <2>1, <2>2 DEF Sound
<1>5. ledger \in Seq(Entries) /\ Len(ledger) = 0 /\ DOMAIN ledger = {}
  BY <1>1
<1>6. TypeOK
  BY <1>1, <1>2, <1>5 DEF TypeOK
<1>7. CommandFits
  BY <1>1 DEF CommandFits, NoCommand
<1>8. LedgerFits /\ BackupFits /\ RestoreFits /\ Activated
  BY <1>1, <1>5 DEF LedgerFits, BackupFits, RestoreFits, Activated
<1> QED
  BY <1>3, <1>4, <1>6, <1>7, <1>8 DEF IInv, RootFits, Recorded

LEMMA LedgerEntries ==
    ASSUME IInv
    PROVE  /\ ledger \in Seq(Entries) /\ Len(ledger) \in Nat /\ DOMAIN ledger = 1 .. Len(ledger)
           /\ \A i \in DOMAIN ledger : /\ ledger[i] \in Entries
                                       /\ ManifestFits(ledger[i].manifest, ledger[i].src)
           /\ through \in Nat /\ \A i \in 1 .. through : i \in DOMAIN ledger
<1>1. ledger \in Seq(Entries) /\ through \in Nat /\ through <= Len(ledger)
  BY DEF IInv, TypeOK, Activated
<1> QED
  BY <1>1 DEF IInv, LedgerFits

\* A step of the service or of a command: only the root and the command change.
LEMMA RootStep ==
    ASSUME IInv, UNCHANGED <<ledger, backup, restore, restores, crashes, through>>,
           Sound(root'), Recorded(root', ledger), CommandFits',
           \A i \in 1 .. through : Restored(root', ledger[i]),
           cmd' \in {NoCommand} \cup [at : {"clean", "erase"}, op : Op]
                     \cup [at : {"append", "persist"}, op : Op, manifest : SUBSET Artifacts]
    PROVE  IInv'
<1>1. root' \in Roots
  BY DEF Sound
<1>2. TypeOK'
  BY <1>1 DEF IInv, TypeOK
<1>3. RootFits' /\ LedgerFits' /\ BackupFits' /\ RestoreFits' /\ Activated'
  BY DEF IInv, RootFits, LedgerFits, BackupFits, RestoreFits, Activated
<1> QED
  BY <1>2, <1>3 DEF IInv

\* The entries a root was restored to hold whatever is then erased, or published.
LEMMA ErasesKeeps ==
    ASSUME IInv, NEW q, Erases(root, q)
    PROVE  \A i \in 1 .. through : Restored(q, ledger[i])
  BY LedgerEntries, ErasesRestored DEF IInv, Activated

LEMMA AddsKeeps ==
    ASSUME IInv, NEW q, Adds(root, q), Sound(q),
           \A a \in q.held \ root.held : a.kind = "transfer" =>
               \A i \in DOMAIN ledger : a \notin ledger[i].manifest
    PROVE  \A i \in 1 .. through : Restored(q, ledger[i])
<1> SUFFICES ASSUME NEW i \in 1 .. through PROVE Restored(q, ledger[i])
  OBVIOUS
<1>1. /\ i \in DOMAIN ledger /\ ledger[i] \in Entries
      /\ ManifestFits(ledger[i].manifest, ledger[i].src)
  BY LedgerEntries
<1>2. Supported(root) /\ Closed(root) /\ Fits(q) /\ Restored(root, ledger[i])
  BY DEF IInv, RootFits, Sound, Fits, Activated
<1> QED
  BY <1>1, <1>2, RestoredStays

LEMMA PurgesRecorded ==
    ASSUME IInv, NEW q, q.purge = root.purge
    PROVE  Recorded(q, ledger)
  BY DEF IInv, RootFits, Recorded

LEMMA Idle == NoCommand.at = "none"
  BY DEF NoCommand

LEMMA IdleFits == ASSUME cmd' = NoCommand PROVE CommandFits'
  BY Idle DEF CommandFits

LEMMA DeriveStep ==
    ASSUME IInv, NEW n \in Node, Derive(n)
    PROVE  IInv'
<1>1. Sound(root) /\ root' = Published(root, n) /\ cmd = NoCommand /\ cmd' = cmd
  BY DEF IInv, RootFits, Derive
<1>2. /\ Sound(root') /\ Adds(root, root') /\ root'.purge = root.purge
      /\ \A a \in root'.held \ root.held : a.kind # "transfer"
  BY <1>1, PublishedSound DEF Derive
<1>3. /\ CommandFits' /\ Recorded(root', ledger)
      /\ \A i \in 1 .. through : Restored(root', ledger[i])
  BY <1>1, <1>2, IdleFits, PurgesRecorded, AddsKeeps
<1> QED
  BY <1>1, <1>2, <1>3, RootStep DEF Derive

LEMMA IndexStep ==
    ASSUME IInv, NEW item \in root.index, IndexItem(item)
    PROVE  IInv'
<1> DEFINE held == IF root.head[item.of] = item.in /\ Drafts(root, item.in)
                   THEN root.held \cup {item} ELSE root.held
<1>1. Sound(root) /\ cmd = NoCommand /\ cmd' = cmd
  BY DEF IInv, RootFits, IndexItem
<1>2. /\ root' = [root EXCEPT !.index = root.index \ {item}, !.held = held]
      /\ root.held \subseteq held /\ held \subseteq root.held \cup {item}
      /\ item \in held \ root.held => Drafts(root, item.in)
  BY <1>1 DEF IndexItem, Sound, Roots
<1> HIDE DEF held
<1>3. /\ Sound(root') /\ root'.purge = root.purge /\ root'.tomb = root.tomb
      /\ \A a \in root'.held \ root.held : a.kind = "chunk"
  <2>1. /\ root'.tomb = root.tomb /\ root'.sent = root.sent /\ root'.held = held
        /\ root'.have = root.have /\ root'.revs = root.revs /\ root'.head = root.head
        /\ root'.index = root.index \ {item} /\ root'.purge = root.purge
        /\ root.held \in SUBSET Artifacts /\ item \in Artifacts
    BY <1>1, <1>2 DEF Sound, Roots
  <2>2. held \in SUBSET Artifacts
    BY <1>2, <2>1
  <2>3. root' \in Roots
    BY <1>1, <1>2, <2>2 DEF Sound, Roots
  <2>4. /\ root.held \subseteq root'.held /\ root'.held \subseteq root.held \cup {item}
        /\ item \in root'.held \ root.held => Drafts(root, item.in)
        /\ root'.index \subseteq root.index
    BY <1>2, <2>1
  <2> QED
    BY <1>1, <2>1, <2>3, <2>4, IndexedSound
<1>4. \A i \in 1 .. through : Restored(root', ledger[i])
  BY <1>3 DEF IInv, Activated, Restored, Tombed
<1> QED
  BY <1>1, <1>3, <1>4, IdleFits, PurgesRecorded, RootStep DEF IndexItem

LEMMA ShareStep ==
    ASSUME IInv, NEW t \in Transfer, Share(t)
    PROVE  IInv'
<1> DEFINE carries == (Shares[t] \cap Source)
                        \cup UNION {root.head[o].nodes : o \in Shares[t] \cap Owner}
<1>1. Sound(root) /\ cmd = NoCommand /\ cmd' = cmd /\ root.sent[t].state = "none"
  BY DEF IInv, RootFits, Share
<1>2. root' = [root EXCEPT !.sent[t] = [state |-> "active", carries |-> carries],
                           !.held = root.held \cup {Sent(t)}]
  BY <1>1 DEF Share, Sound, Roots
<1> HIDE DEF carries
<1>3. /\ Sound(root') /\ Adds(root, root') /\ root'.purge = root.purge
      /\ \A a \in root'.held \ root.held : a = Sent(t)
  BY <1>1, <1>2, SharedSound DEF Share, carries
<1>4. \A i \in 1 .. through : Restored(root', ledger[i])
  BY <1>3, AddsKeeps DEF Share
<1> QED
  BY <1>1, <1>3, <1>4, IdleFits, PurgesRecorded, RootStep DEF Share

LEMMA ReplicateStep ==
    ASSUME IInv, NEW t \in Transfer, Replicate(t)
    PROVE  IInv'
<1>1. Sound(root) /\ root \in Roots /\ cmd = NoCommand /\ cmd' = cmd
  BY DEF IInv, RootFits, Replicate, Sound
<1>2. Erases(root, root') /\ root'.tomb = root.tomb /\ root'.purge = root.purge
  BY <1>1 DEF Replicate, Erases, Roots, Tombed
<1>3. Sound(root')
  BY <1>1, <1>2, MarksSound
<1> QED
  BY <1>1, <1>2, <1>3, ErasesKeeps, IdleFits, PurgesRecorded, RootStep DEF Replicate

-----------------------------------------------------------------------------
(* The commands *)

\* A step that only marks the operation, the request or a replica.
LEMMA MarkedRoot ==
    ASSUME NEW r, Sound(r), NEW q, q \in Roots, q.have = r.have, q.revs = r.revs,
           q.head = r.head, q.index = r.index, q.held = r.held, q.sent = r.sent, q.tomb = r.tomb
    PROVE  Erases(r, q)
  BY DEF Erases, Tombed

LEMMA RetractStep ==
    ASSUME IInv, NEW s \in Source, Retract(s)
    PROVE  IInv'
<1> DEFINE op == RetractOp(s)
           blocked == Block(root, s, op, "blocked")
           redacted == Redact(blocked, op)
<1>1. Sound(root) /\ op \in Op /\ op.src = s /\ \A x \in Source : op # PurgeOp(x)
  BY Operations DEF IInv, RootFits
<1>2. cmd' = [at |-> "clean", op |-> op]
  BY DEF Retract
<1>3. /\ cmd' \in [at : {"clean", "erase"}, op : Op]
      /\ cmd'.at = "clean" /\ cmd'.op = op
  BY <1>1, <1>2
<1> HIDE DEF op
<1>4. CommandFits'
  BY <1>1, <1>3 DEF CommandFits
<1>5. CASE s \in root.retracted
  <2>1. root' = root
    BY <1>5 DEF Retract
  <2>2. \A i \in 1 .. through : Restored(root', ledger[i])
    BY <2>1 DEF IInv, Activated
  <2>3. Sound(root') /\ Recorded(root', ledger)
    BY <2>1 DEF IInv, RootFits
  <2> QED
    BY <1>3, <1>4, <2>2, <2>3, RootStep DEF Retract
<1>6. CASE s \notin root.retracted
  <2>1. Sound(blocked) /\ Erases(root, blocked) /\ blocked.purge = root.purge
    BY <1>1, BlockSound
  <2> HIDE DEF blocked
  <2>2. Sound(redacted) /\ Erases(blocked, redacted) /\ redacted.purge = blocked.purge
    BY <1>1, <2>1, RedactSound
  <2> HIDE DEF redacted
  <2>3. root' = [redacted EXCEPT !.retracted = redacted.retracted \cup {s}]
    BY <1>6, <2>2 DEF Retract, redacted, blocked, op, Sound, Roots
  <2>4. /\ root' \in Roots /\ root'.have = redacted.have /\ root'.revs = redacted.revs
        /\ root'.head = redacted.head /\ root'.index = redacted.index
        /\ root'.held = redacted.held /\ root'.sent = redacted.sent
        /\ root'.tomb = redacted.tomb /\ root'.purge = redacted.purge
    BY <2>2, <2>3 DEF Sound, Roots
  <2>5. Erases(redacted, root')
    BY <2>2, <2>4, MarkedRoot
  <2>x. Sound(root')
    BY <2>2, <2>4, <2>5, MarksSound
  <2>6. Erases(root, root')
    BY <2>1, <2>2, <2>5, ErasesTwice DEF IInv, RootFits, Sound
  <2>7. Recorded(root', ledger) /\ \A i \in 1 .. through : Restored(root', ledger[i])
    BY <2>1, <2>2, <2>4, <2>6, PurgesRecorded, ErasesKeeps
  <2> QED
    BY <1>3, <1>4, <2>x, <2>7, RootStep DEF Retract
<1> QED
  BY <1>5, <1>6

LEMMA CleanStep ==
    ASSUME IInv, CleanMixedMemory
    PROVE  IInv'
<1> DEFINE op == cmd.op
           s == op.src
<1>1. Sound(root) /\ cmd.at = "clean" /\ cmd \in [at : {"clean", "erase"}, op : Op]
  BY DEF IInv, RootFits, TypeOK, CleanMixedMemory, NoCommand
<1>2. op \in Op /\ s \in Source /\ (op.kind # "retract" => op = PurgeOp(s))
  BY <1>1 DEF Op, PurgeOp
<1>3. /\ Sound(root') /\ Adds(root, root')
      /\ \A a \in root'.held \ root.held : a.kind # "transfer"
      /\ root'.tomb = root.tomb /\ root'.purge = root.purge
  BY <1>1, <1>2, CleanSound DEF CleanMixedMemory
<1>4. Recorded(root', ledger) /\ \A i \in 1 .. through : Restored(root', ledger[i])
  BY <1>3, PurgesRecorded, AddsKeeps
<1>5. CASE op.kind = "retract"
  BY <1>3, <1>4, <1>5, IdleFits, RootStep DEF CleanMixedMemory
<1>6. CASE op.kind # "retract"
  <2>1. cmd' = [cmd EXCEPT !.at = "erase"]
    BY <1>6 DEF CleanMixedMemory
  <2>2. cmd' \in [at : {"clean", "erase"}, op : Op] /\ cmd'.at = "erase" /\ cmd'.op = op
    BY <1>1, <2>1
  <2>3. /\ root.purge[s] # None /\ root.purge[s].state = "purge_pending"
        /\ Remains(root, s) \subseteq root.purge[s].left
    BY <1>1, <1>2, <1>6 DEF IInv, CommandFits
  <2>4. Remains(root', s) \subseteq Remains(root, s)
    BY <1>1, <1>2, <1>3, <2>3, RemainsErased DEF Sound, Fits, PurgesFit
  <2>5. CommandFits'
    BY <1>2, <1>3, <1>6, <2>2, <2>3, <2>4 DEF CommandFits
  <2> QED
    BY <1>3, <1>4, <2>2, <2>5, RootStep DEF CleanMixedMemory
<1> QED
  BY <1>5, <1>6

LEMMA StartPurgeStep ==
    ASSUME IInv, NEW s \in Source, StartPurge(s)
    PROVE  IInv'
<1>1. Sound(root) /\ PurgeOp(s) \in Op /\ PurgeOp(s).src = s
  BY Operations DEF IInv, RootFits
<1>2. /\ Remains(root, s) \subseteq Manifest(root, s)
      /\ ManifestFits(Manifest(root, s), s)
      /\ Manifest(root, s) \in SUBSET Artifacts
  BY <1>1, ManifestSound
<1>3. cmd' = [at |-> "append", op |-> PurgeOp(s), manifest |-> Manifest(root, s)]
  BY DEF StartPurge
<1>4. /\ cmd' \in [at : {"append", "persist"}, op : Op, manifest : SUBSET Artifacts]
      /\ cmd'.at = "append" /\ cmd'.op = PurgeOp(s) /\ cmd'.manifest = Manifest(root, s)
  BY <1>1, <1>2, <1>3
<1>5. CommandFits'
  BY <1>1, <1>2, <1>4 DEF CommandFits, StartPurge
<1>6. /\ Sound(root') /\ Recorded(root', ledger)
      /\ \A i \in 1 .. through : Restored(root', ledger[i])
  BY DEF IInv, RootFits, Activated, StartPurge
<1> QED
  BY <1>4, <1>5, <1>6, RootStep DEF StartPurge

LEMMA AppendStep ==
    ASSUME IInv, AppendLedger
    PROVE  IInv'
<1> DEFINE s == cmd.op.src
           entry == [src |-> s, manifest |-> cmd.manifest]
<1>1. /\ cmd.at = "append"
      /\ cmd \in [at : {"append", "persist"}, op : Op, manifest : SUBSET Artifacts]
  BY DEF IInv, TypeOK, AppendLedger, NoCommand
<1>2. /\ cmd.op = PurgeOp(s) /\ root.purge[s] = None /\ Remains(root, s) \subseteq cmd.manifest
      /\ ManifestFits(cmd.manifest, s) /\ s \in Source
  BY <1>1 DEF IInv, CommandFits, Op
<1>3. entry \in Entries /\ entry.src = s /\ entry.manifest = cmd.manifest
  BY <1>1, <1>2 DEF Entries
<1> HIDE DEF entry
<1>4. UNCHANGED <<root, backup, restore, restores, crashes, through>>
  BY DEF AppendLedger
<1>5. \/ /\ ledger' = Append(ledger, entry)
         /\ cmd' = [cmd EXCEPT !.at = "persist"]
      \/ /\ ledger' = ledger /\ cmd' = [cmd EXCEPT !.at = "persist"]
         /\ \E i \in DOMAIN ledger : ledger[i] = entry
      \/ ledger' = ledger /\ cmd' = NoCommand
  BY DEF AppendLedger, EntryOf, entry
<1>6. /\ ledger' \in Seq(Entries) /\ Len(ledger) <= Len(ledger')
      /\ \A i \in DOMAIN ledger : i \in DOMAIN ledger' /\ ledger'[i] = ledger[i]
      /\ \A i \in DOMAIN ledger' : i \in DOMAIN ledger \/ ledger'[i] = entry
  <2>1. CASE ledger' = Append(ledger, entry)
    BY <1>3, <2>1, LedgerEntries
  <2>2. CASE ledger' = ledger
    BY <2>2, LedgerEntries
  <2> QED
    BY <1>5, <2>1, <2>2
<1>7. cmd' = [cmd EXCEPT !.at = "persist"] =>
         /\ cmd' \in [at : {"append", "persist"}, op : Op, manifest : SUBSET Artifacts]
         /\ cmd'.at = "persist" /\ cmd'.op = cmd.op /\ cmd'.manifest = cmd.manifest
  BY <1>1
<1>8. TypeOK'
  BY <1>4, <1>5, <1>6, <1>7 DEF IInv, TypeOK
<1>9. \A r : Recorded(r, ledger) => Recorded(r, ledger')
  BY <1>6 DEF Recorded, Listed
<1>10. RootFits' /\ BackupFits'
  BY <1>4, <1>9 DEF IInv, RootFits, BackupFits
<1>11. LedgerFits'
  BY <1>2, <1>3, <1>6, LedgerEntries DEF LedgerFits
<1>12. CommandFits'
  <2>1. CASE cmd' = NoCommand
    BY <2>1, IdleFits
  <2>2. CASE cmd' = [cmd EXCEPT !.at = "persist"] /\ \E i \in DOMAIN ledger' : ledger'[i] = entry
    <3>1. Listed(ledger', s, cmd.manifest)
      BY <1>3, <2>2 DEF Listed
    <3> QED
      BY <1>2, <1>4, <1>7, <2>2, <3>1 DEF CommandFits
  <2>3. ledger' = Append(ledger, entry) => \E i \in DOMAIN ledger' : ledger'[i] = entry
    <3> SUFFICES ASSUME ledger' = Append(ledger, entry)
                 PROVE  \E i \in DOMAIN ledger' : ledger'[i] = entry
      OBVIOUS
    <3>1. Len(ledger) + 1 \in DOMAIN ledger' /\ ledger'[Len(ledger) + 1] = entry
      BY <1>3, LedgerEntries
    <3> QED
      BY <3>1
  <2> QED
    BY <1>5, <2>1, <2>2, <2>3
<1>13. Activated'
  <2>1. through <= Len(ledger')
    BY <1>6, LedgerEntries DEF IInv, Activated
  <2> QED
    BY <1>4, <1>6, <2>1, LedgerEntries DEF IInv, Activated
<1>14. RestoreFits'
  <2> SUFFICES ASSUME restore # None PROVE RestoreFits'
    BY <1>4 DEF RestoreFits
  <2>1. /\ Sound(restore.root) /\ Recorded(restore.root, ledger)
        /\ Len(restore.exported) <= Len(ledger)
        /\ \A i \in 1 .. Len(restore.exported) : restore.exported[i] = ledger[i]
        /\ restore.applied <= Len(restore.exported)
        /\ \A i \in 1 .. restore.applied : Restored(restore.root, ledger[i])
        /\ Len(restore.exported) \in Nat /\ restore.applied \in Nat
    BY DEF IInv, RestoreFits, TypeOK, None
  <2>2. \A i \in 1 .. Len(restore.exported) : i \in DOMAIN ledger
    BY <2>1, LedgerEntries
  <2>3. \A i \in 1 .. restore.applied : i \in DOMAIN ledger
    BY <2>1, LedgerEntries
  <2>4. Len(restore.exported) <= Len(ledger')
    BY <1>6, <2>1, LedgerEntries
  <2> QED
    BY <1>4, <1>6, <1>9, <2>1, <2>2, <2>3, <2>4 DEF RestoreFits
<1> QED
  BY <1>8, <1>10, <1>11, <1>12, <1>13, <1>14 DEF IInv

LEMMA PersistStep ==
    ASSUME IInv, PersistPurge
    PROVE  IInv'
<1> DEFINE op == cmd.op
           s == op.src
           blocked == Block(root, s, op, "purge_pending")
           blocks == DependencyBlocks(blocked, op)
           request == [state |-> "purge_pending", manifest |-> cmd.manifest,
                       left |-> cmd.manifest, blocks |-> blocks]
           replica == [t \in Transfer |->
                   IF t \in blocks /\ root.replica[t] = "retained" THEN "purge_pending"
                   ELSE root.replica[t]]
           marked == [blocked EXCEPT !.purge[s] = request,
                                     !.sent = SentAs(blocked, blocks, "purge_pending"),
                                     !.replica = replica]
<1>1. /\ cmd.at = "persist" /\ Sound(root)
      /\ cmd \in [at : {"append", "persist"}, op : Op, manifest : SUBSET Artifacts]
  BY DEF IInv, RootFits, TypeOK, PersistPurge, NoCommand
<1>2. /\ op = PurgeOp(s) /\ root.purge[s] = None /\ Remains(root, s) \subseteq cmd.manifest
      /\ ManifestFits(cmd.manifest, s) /\ s \in Source /\ op \in Op
      /\ Listed(ledger, s, cmd.manifest)
  BY <1>1 DEF IInv, CommandFits, Op
<1>3. Sound(blocked) /\ Erases(root, blocked) /\ Tombed(blocked, s) /\ blocked.purge = root.purge
  BY <1>1, <1>2, BlockSound
<1>4. blocks \subseteq Transfer
  BY DEF DependencyBlocks, SharedFrom
<1>5. root' = Redact(marked, op) /\ cmd' = [at |-> "clean", op |-> op]
  BY DEF PersistPurge
<1> HIDE DEF blocked, blocks
<1>6. request \in Requests /\ request.manifest = cmd.manifest /\ request.left = cmd.manifest
      /\ request.state = "purge_pending" /\ request # None
  BY <1>1, <1>4 DEF Requests, None
<1>7. replica \in [Transfer -> {"none", "retained", "purge_pending"}]
  BY <1>1 DEF Sound, Roots
<1>8. SentAs(blocked, blocks, "purge_pending") \in [Transfer -> Sendings]
      /\ \A t \in Transfer :
            /\ SentAs(blocked, blocks, "purge_pending")[t].carries = blocked.sent[t].carries
            /\ blocked.sent[t].state # "none" =>
                  SentAs(blocked, blocks, "purge_pending")[t].state # "none"
  BY <1>3, SendingsSent DEF Sound
<1> HIDE DEF request, replica
<1>9. /\ marked \in Roots /\ marked.have = blocked.have /\ marked.revs = blocked.revs
      /\ marked.head = blocked.head /\ marked.index = blocked.index
      /\ marked.held = blocked.held /\ marked.tomb = blocked.tomb
      /\ marked.sent = SentAs(blocked, blocks, "purge_pending")
      /\ marked.purge = [root.purge EXCEPT ![s] = request]
      /\ root.purge \in [Source -> {None} \cup Requests]
  BY <1>1, <1>2, <1>3, <1>6, <1>7, <1>8 DEF Sound, Roots
<1> HIDE DEF marked
<1>10. marked.purge[s] = request /\ \A z \in Source : z # s => marked.purge[z] = root.purge[z]
  BY <1>2, <1>9
<1>11. Erases(blocked, marked)
  BY <1>8, <1>9 DEF Erases, Tombed
<1>12. Sound(marked)
  <2>1. \A x : Tombed(marked, x) <=> Tombed(blocked, x)
    BY <1>9 DEF Tombed
  <2>2. Closed(marked) /\ OpsTombed(marked)
    BY <1>3, <1>9, <2>1 DEF Sound, Closed, OpsTombed
  <2>3. PurgesFit(marked)
    BY <1>2, <1>3, <1>6, <1>10, <2>1 DEF Sound, PurgesFit
  <2>4. \A z \in Source : Settled(marked, z) => Settled(blocked, z)
    BY <1>3, <1>6, <1>10 DEF Settled
  <2> QED
    BY <1>3, <1>11, <2>2, <2>3, <2>4, ErasesSound
<1>13. Sound(root') /\ Erases(marked, root') /\ root'.purge = marked.purge
  BY <1>2, <1>5, <1>12, RedactSound
<1>14. Erases(root, root')
  <2>1. root \in Roots
    BY <1>1 DEF Sound
  <2> QED
    BY <1>3, <1>11, <1>13, <2>1, ErasesTwice
<1>15. Recorded(root', ledger)
  BY <1>2, <1>6, <1>10, <1>13 DEF IInv, RootFits, Recorded
<1>16. cmd' \in [at : {"clean", "erase"}, op : Op] /\ cmd'.at = "clean" /\ cmd'.op = op
  BY <1>2, <1>5
<1>17. CommandFits'
  <2>1. Remains(root', s) \subseteq Remains(root, s)
    BY <1>1, <1>2, <1>14, ErasesRemains DEF Sound
  <2>2. root'.purge[s] # None /\ root'.purge[s].state = "purge_pending"
        /\ Remains(root', s) \subseteq root'.purge[s].left
    BY <1>2, <1>6, <1>10, <1>13, <2>1
  <2> QED
    BY <1>16, <2>2 DEF CommandFits
<1> QED
  BY <1>13, <1>14, <1>15, <1>16, <1>17, ErasesKeeps, RootStep DEF PersistPurge

LEMMA EraseStep ==
    ASSUME IInv, EraseArtifact
    PROVE  IInv'
<1> DEFINE op == cmd.op
           s == op.src
           left == root.purge[s].left
           a == CHOOSE a \in left : TRUE
           taken == {a}
           scrubbed == Scrub(root, taken)
<1>1. /\ cmd.at = "erase" /\ Sound(root) /\ left # {}
      /\ cmd \in [at : {"clean", "erase"}, op : Op]
  <2>1. cmd.at = "erase" /\ left # {}
    BY DEF EraseArtifact
  <2> QED
    BY <2>1 DEF IInv, RootFits, TypeOK, NoCommand
<1>2. /\ op = PurgeOp(s) /\ s \in Source /\ op \in Op
      /\ root.purge[s] # None /\ root.purge[s].state = "purge_pending"
      /\ Remains(root, s) \subseteq left
  BY <1>1 DEF IInv, CommandFits, Op
<1>3. root' = [scrubbed EXCEPT !.purge[s].left = scrubbed.purge[s].left \ {a}]
  <2>1. root' = [scrubbed EXCEPT !.purge[s].left = @ \ {a}]
    BY DEF EraseArtifact
  <2> HIDE DEF scrubbed, a
  <2> QED
    BY <2>1
<1>4. a \in left
  BY <1>1
<1> HIDE DEF a
<1>5. root.purge[s] \in Requests /\ root.purge \in [Source -> {None} \cup Requests] /\ root \in Roots
  BY <1>1, <1>2 DEF Sound, Roots
<1>6. /\ Tombed(root, s) /\ left \subseteq root.purge[s].manifest
      /\ ManifestFits(root.purge[s].manifest, s)
  BY <1>1, <1>2 DEF Sound, PurgesFit
<1>7. taken \in SUBSET Artifacts /\ ManifestFits(taken, s)
  BY <1>4, <1>5, <1>6 DEF Requests, ManifestFits
<1> HIDE DEF taken
<1>8. /\ Sound(scrubbed) /\ Erases(root, scrubbed) /\ scrubbed.held \cap taken = {}
      /\ scrubbed.tomb = root.tomb /\ scrubbed.purge = root.purge
  BY <1>1, <1>2, <1>6, <1>7, ScrubSound
<1> HIDE DEF scrubbed
<1> DEFINE request == [root.purge[s] EXCEPT !.left = left \ {a}]
<1>9. /\ request \in Requests /\ request.state = "purge_pending" /\ request.left = left \ {a}
      /\ request.manifest = root.purge[s].manifest
  BY <1>2, <1>5 DEF Requests
<1>10. root' = [scrubbed EXCEPT !.purge = [root.purge EXCEPT ![s] = request]]
  BY <1>2, <1>3, <1>5, <1>8 DEF Sound, Roots
<1> HIDE DEF request
<1>11. /\ root' \in Roots /\ root'.have = scrubbed.have /\ root'.revs = scrubbed.revs
       /\ root'.head = scrubbed.head /\ root'.index = scrubbed.index
       /\ root'.held = scrubbed.held /\ root'.tomb = scrubbed.tomb
       /\ root'.sent = scrubbed.sent
       /\ root'.purge = [root.purge EXCEPT ![s] = request]
  BY <1>2, <1>5, <1>8, <1>9, <1>10 DEF Sound, Roots
<1>12. root'.purge[s] = request /\ \A z \in Source : z # s => root'.purge[z] = root.purge[z]
  BY <1>2, <1>5, <1>11
<1>13. Erases(scrubbed, root')
  BY <1>8, <1>11, MarkedRoot
<1>14. Sound(root')
  <2>1. \A x : Tombed(root', x) <=> Tombed(scrubbed, x)
    BY <1>11 DEF Tombed
  <2>2. Closed(root') /\ OpsTombed(root')
    BY <1>8, <1>11, <2>1 DEF Sound, Closed, OpsTombed
  <2>3. PurgesFit(root')
    BY <1>2, <1>6, <1>8, <1>9, <1>12, <2>1 DEF Sound, PurgesFit
  <2>4. \A z \in Source : Settled(root', z) => Settled(scrubbed, z)
    BY <1>8, <1>9, <1>12 DEF Settled
  <2> QED
    BY <1>8, <1>13, <2>2, <2>3, <2>4, ErasesSound
<1>15. Erases(root, root')
  BY <1>5, <1>8, <1>13, ErasesTwice
<1>16. Recorded(root', ledger)
  BY <1>2, <1>9, <1>12 DEF IInv, RootFits, Recorded
<1>17. cmd' = cmd
  BY DEF EraseArtifact
<1>18. CommandFits'
  <2>1. Remains(root', s) \subseteq Remains(root, s)
    BY <1>1, <1>2, <1>5, <1>15, ErasesRemains DEF Sound
  <2>2. a \notin Remains(root', s)
    BY <1>8, <1>11 DEF Remains, taken
  <2>3. Remains(root', s) \subseteq root'.purge[s].left /\ root'.purge[s].state = "purge_pending"
        /\ root'.purge[s] # None
    BY <1>2, <1>9, <1>12, <2>1, <2>2 DEF Requests, None
  <2> QED
    BY <1>1, <1>2, <1>17, <2>3 DEF CommandFits
<1> QED
  BY <1>1, <1>14, <1>15, <1>16, <1>17, <1>18, ErasesKeeps, RootStep DEF EraseArtifact

LEMMA FinishStep ==
    ASSUME IInv, FinishPurge
    PROVE  IInv'
<1> DEFINE op == cmd.op
           s == op.src
           left == ReplicasLeft(root, s)
           state == IF left = {} THEN "purged" ELSE "local_purged"
           replica == [t \in Transfer |-> IF t \in left THEN "purge_pending" ELSE root.replica[t]]
           tomb == [x \in Source \cup Node |->
                      IF state = "purged" /\ Tombed(root, x) /\ root.tomb[x].op = op
                      THEN [state |-> "purged", op |-> op] ELSE root.tomb[x]]
           request == [root.purge[s] EXCEPT !.state = state]
<1>1. /\ cmd.at = "erase" /\ Sound(root) /\ root \in Roots /\ root.purge[s].left = {}
      /\ cmd \in [at : {"clean", "erase"}, op : Op] /\ cmd' = NoCommand
  BY DEF IInv, RootFits, TypeOK, FinishPurge, NoCommand, Sound
<1>2. /\ op = PurgeOp(s) /\ s \in Source /\ op \in Op
      /\ root.purge[s] # None /\ Remains(root, s) = {}
  BY <1>1 DEF IInv, CommandFits, Op
<1>3. root.purge[s] \in Requests /\ root.purge \in [Source -> {None} \cup Requests]
  BY <1>1, <1>2 DEF Roots
<1>4. /\ request \in Requests /\ request.left = {} /\ request.manifest = root.purge[s].manifest
      /\ request # None
  <2>1. state \in {"purged", "local_purged"}
    OBVIOUS
  <2> HIDE DEF state
  <2> QED
    BY <1>1, <1>3, <2>1 DEF Requests, None
<1>5. \A x \in Source \cup Node : root.tomb[x] \in Tombstone /\ (Tombed(root, x) <=> root.tomb[x] # None)
  BY <1>1, Tombstones
<1>6. tomb \in [Source \cup Node -> Tombstone]
      /\ \A x \in Source \cup Node :
            /\ (tomb[x].state = "none") <=> (root.tomb[x].state = "none")
            /\ root.tomb[x].state # "none" => tomb[x].op = root.tomb[x].op
  BY <1>2, <1>5 DEF Tombed, Tombstone
<1>7. replica \in [Transfer -> {"none", "retained", "purge_pending"}]
  BY <1>1 DEF Roots
<1>8. root' = [root EXCEPT !.purge = [root.purge EXCEPT ![s] = request],
                           !.replica = replica, !.tomb = tomb]
  BY <1>1, <1>2, <1>3 DEF FinishPurge, Roots
<1> HIDE DEF request, replica, tomb
<1>9. /\ root' \in Roots /\ root'.have = root.have /\ root'.revs = root.revs
      /\ root'.head = root.head /\ root'.index = root.index
      /\ root'.held = root.held /\ root'.sent = root.sent /\ root'.tomb = tomb
      /\ root'.purge = [root.purge EXCEPT ![s] = request]
  BY <1>1, <1>2, <1>3, <1>4, <1>6, <1>7, <1>8 DEF Roots
<1>10. root'.purge[s] = request /\ \A z \in Source : z # s => root'.purge[z] = root.purge[z]
  BY <1>2, <1>3, <1>9
<1>11. \A x \in Source \cup Node :
          /\ Tombed(root', x) <=> Tombed(root, x)
          /\ Tombed(root', x) => root'.tomb[x].op = root.tomb[x].op
  <2>1. root'.tomb = tomb
    BY <1>9
  <2> QED
    BY <1>6, <2>1 DEF Tombed
<1>12. Erases(root, root')
  BY <1>9, <1>11 DEF Erases
<1>13. Sound(root')
  <2>1. Closed(root')
    BY <1>1, <1>9, <1>11 DEF Sound, Closed, Roots
  <2>2. OpsTombed(root')
    BY <1>1, <1>11 DEF Sound, OpsTombed
  <2>3. PurgesFit(root')
    BY <1>1, <1>2, <1>4, <1>10, <1>11 DEF Sound, PurgesFit
  <2>4. \A z \in Source : Settled(root', z) => Settled(root, z) \/ Remains(root, z) = {}
    BY <1>2, <1>10 DEF Settled
  <2> QED
    BY <1>1, <1>12, <2>1, <2>2, <2>3, <2>4, ErasesSound
<1>14. Recorded(root', ledger)
  BY <1>2, <1>4, <1>10 DEF IInv, RootFits, Recorded
<1> QED
  BY <1>1, <1>12, <1>13, <1>14, ErasesKeeps, IdleFits, RootStep DEF FinishPurge

LEMMA DiesStep ==
    ASSUME IInv, CommandDies
    PROVE  IInv'
<1>1. cmd' = NoCommand /\ UNCHANGED <<root, ledger, backup, restore, restores, through>>
      /\ crashes' = crashes + 1
  BY DEF CommandDies
<1>2. TypeOK'
  BY <1>1 DEF IInv, TypeOK
<1>3. CommandFits'
  BY <1>1, IdleFits
<1> QED
  BY <1>1, <1>2, <1>3 DEF IInv, RootFits, LedgerFits, BackupFits, RestoreFits, Activated

-----------------------------------------------------------------------------
(* Backup and restore *)

LEMMA BackupStep ==
    ASSUME IInv, CreateBackup
    PROVE  IInv'
<1>1. /\ backup' = [state |-> "made", root |-> root, ledger |-> ledger] /\ backup'.root = root
      /\ cmd = NoCommand /\ UNCHANGED <<root, ledger, cmd, restore, restores, crashes, through>>
  BY DEF CreateBackup
<1>2. TypeOK'
  BY <1>1 DEF IInv, TypeOK
<1>3. CommandFits'
  BY <1>1, IdleFits
<1> QED
  BY <1>1, <1>2, <1>3 DEF IInv, RootFits, LedgerFits, BackupFits, RestoreFits, Activated

\* What a step of a restore in its staging directory leaves.
LEMMA StagingStep ==
    ASSUME IInv, UNCHANGED <<root, ledger, cmd, backup, crashes, through>>,
           restores' \in Nat, RestoreFits',
           restore' \in {None} \cup [state : {"staged", "applying"}, root : Roots,
                                     exported : Seq(Entries), applied : Nat]
    PROVE  IInv'
<1>1. TypeOK'
  BY DEF IInv, TypeOK
<1>2. CommandFits'
  BY DEF IInv, CommandFits
<1> QED
  BY <1>1, <1>2 DEF IInv, RootFits, LedgerFits, BackupFits, Activated

LEMMA StartRestoreStep ==
    ASSUME IInv, StartRestore
    PROVE  IInv'
<1>1. /\ restore' = [state |-> "staged", root |-> backup.root, exported |-> ledger, applied |-> 0]
      /\ restores' = restores + 1 /\ backup # None
      /\ UNCHANGED <<root, ledger, cmd, backup, crashes, through>>
  BY DEF StartRestore
<1>2. Sound(backup.root) /\ Recorded(backup.root, ledger) /\ ledger \in Seq(Entries)
      /\ restores \in Nat
  BY <1>1 DEF IInv, BackupFits, TypeOK
<1>3. /\ restore' \in [state : {"staged", "applying"}, root : Roots,
                       exported : Seq(Entries), applied : Nat]
      /\ restore'.root = backup.root /\ restore'.exported = ledger /\ restore'.applied = 0
  BY <1>1, <1>2 DEF Sound
<1>4. Len(ledger) \in Nat
  BY <1>2
<1>5. RestoreFits'
  BY <1>1, <1>2, <1>3, <1>4 DEF RestoreFits
<1> QED
  BY <1>1, <1>2, <1>3, <1>5, StagingStep

LEMMA VerifyStep ==
    ASSUME IInv, VerifyAuthority
    PROVE  IInv'
<1>1. /\ restore.state = "staged"
      /\ restore' = IF restore.exported = ledger THEN [restore EXCEPT !.state = "applying"] ELSE None
      /\ UNCHANGED <<root, ledger, cmd, backup, restores, crashes, through>>
  BY DEF VerifyAuthority
<1>2. restore \in [state : {"staged", "applying"}, root : Roots,
                   exported : Seq(Entries), applied : Nat] /\ restore # None /\ restores \in Nat
  BY <1>1 DEF IInv, TypeOK, None
<1>3. CASE restore' = None
  BY <1>1, <1>2, <1>3, StagingStep DEF RestoreFits
<1>4. CASE restore' = [restore EXCEPT !.state = "applying"]
  <2>1. /\ restore' \in [state : {"staged", "applying"}, root : Roots,
                         exported : Seq(Entries), applied : Nat]
        /\ restore'.root = restore.root /\ restore'.exported = restore.exported
        /\ restore'.applied = restore.applied
    BY <1>2, <1>4
  <2>2. RestoreFits'
    BY <1>1, <1>2, <2>1 DEF IInv, RestoreFits
  <2> QED
    BY <1>1, <1>2, <2>1, <2>2, StagingStep
<1> QED
  BY <1>1, <1>3, <1>4

LEMMA ApplyStep ==
    ASSUME IInv, ApplyNext
    PROVE  IInv'
<1> DEFINE k == restore.applied + 1
           entry == restore.exported[k]
           applied == ApplyEntry(restore.root, entry)
<1>1. restore.state = "applying" /\ restore.applied < Len(restore.exported)
  BY DEF ApplyNext
<1>2. /\ restore \in [state : {"staged", "applying"}, root : Roots,
                      exported : Seq(Entries), applied : Nat]
      /\ restore # None /\ restores \in Nat
  BY <1>1 DEF IInv, TypeOK, None
<1>3. /\ Sound(restore.root) /\ Recorded(restore.root, ledger)
      /\ Len(restore.exported) <= Len(ledger)
      /\ \A i \in 1 .. Len(restore.exported) : restore.exported[i] = ledger[i]
      /\ \A i \in 1 .. restore.applied : Restored(restore.root, ledger[i])
  BY <1>2 DEF IInv, RestoreFits
<1>4. k \in 1 .. Len(restore.exported) /\ k \in Nat /\ Len(restore.exported) \in Nat
  BY <1>1, <1>2
<1>5. \A i \in 1 .. k : /\ i \in DOMAIN ledger /\ ledger[i] \in Entries
                        /\ ManifestFits(ledger[i].manifest, ledger[i].src)
  BY <1>3, <1>4, LedgerEntries
<1>6. entry = ledger[k] /\ entry \in Entries /\ ManifestFits(entry.manifest, entry.src)
  BY <1>3, <1>4, <1>5
<1>7. restore' = [restore EXCEPT !.root = applied, !.applied = k]
  BY <1>2 DEF ApplyNext
<1> HIDE DEF applied, entry
<1>8. /\ Sound(applied) /\ applied.purge = restore.root.purge /\ Restored(applied, entry)
      /\ \A e \in Entries : ManifestFits(e.manifest, e.src) /\ Restored(restore.root, e) =>
             Restored(applied, e)
  BY <1>3, <1>6, ApplyEntrySound DEF applied
<1>9. /\ restore' \in [state : {"staged", "applying"}, root : Roots,
                       exported : Seq(Entries), applied : Nat]
      /\ restore'.root = applied /\ restore'.exported = restore.exported /\ restore'.applied = k
  BY <1>2, <1>4, <1>7, <1>8 DEF Sound
<1>10. \A i \in 1 .. k : Restored(applied, ledger[i])
  <2> SUFFICES ASSUME NEW i \in 1 .. k PROVE Restored(applied, ledger[i])
    OBVIOUS
  <2>1. CASE i = k
    BY <1>6, <1>8, <2>1
  <2>2. CASE i # k
    <3>1. i \in 1 .. restore.applied
      BY <1>2, <2>2
    <3> QED
      BY <1>3, <1>5, <1>8, <3>1
  <2> QED
    BY <2>1, <2>2
<1>11. Recorded(applied, ledger)
  BY <1>3, <1>8 DEF Recorded
<1> HIDE DEF k
<1>12. UNCHANGED <<root, ledger, cmd, backup, restores, crashes, through>>
  BY DEF ApplyNext
<1>13. RestoreFits'
  BY <1>3, <1>4, <1>8, <1>9, <1>10, <1>11, <1>12 DEF RestoreFits
<1> QED
  BY <1>2, <1>9, <1>12, <1>13, StagingStep

LEMMA ActivateStep ==
    ASSUME IInv, ActivateRestore
    PROVE  IInv'
<1>1. /\ restore.state = "applying" /\ restore.applied = Len(restore.exported)
      /\ root' = restore.root /\ through' = Len(restore.exported) /\ restore' = None
      /\ cmd' = NoCommand /\ UNCHANGED <<ledger, backup, restores, crashes>>
  BY DEF ActivateRestore
<1>2. /\ restore \in [state : {"staged", "applying"}, root : Roots,
                      exported : Seq(Entries), applied : Nat]
      /\ restore # None
  BY <1>1 DEF IInv, TypeOK, None
<1>3. Len(restore.exported) \in Nat /\ restore.root \in Roots
  BY <1>2
<1>4. /\ Sound(restore.root) /\ Recorded(restore.root, ledger)
      /\ Len(restore.exported) <= Len(ledger)
      /\ \A i \in 1 .. restore.applied : Restored(restore.root, ledger[i])
  BY <1>2 DEF IInv, RestoreFits
<1>5. TypeOK'
  BY <1>1, <1>3 DEF IInv, TypeOK
<1>6. CommandFits'
  BY <1>1, IdleFits
<1>7. RootFits' /\ LedgerFits' /\ BackupFits' /\ RestoreFits' /\ Activated'
  BY <1>1, <1>4 DEF IInv, RootFits, LedgerFits, BackupFits, RestoreFits, Activated
<1> QED
  BY <1>5, <1>6, <1>7 DEF IInv

LEMMA NextIInv == IInv /\ [Next]_vars => IInv'
<1> SUFFICES ASSUME IInv, [Next]_vars PROVE IInv'
  OBVIOUS
<1>1. ASSUME NEW n \in Node, Derive(n) PROVE IInv'
  BY <1>1, DeriveStep
<1>2. ASSUME NEW item \in root.index, IndexItem(item) PROVE IInv'
  BY <1>2, IndexStep
<1>3. ASSUME NEW t \in Transfer, Share(t) \/ Replicate(t) PROVE IInv'
  BY <1>3, ShareStep, ReplicateStep
<1>4. ASSUME NEW s \in Withdrawn, Retract(s) \/ StartPurge(s) PROVE IInv'
  BY <1>4, RetractStep, StartPurgeStep, EraseAssumption
<1>5. CASE CleanMixedMemory \/ AppendLedger \/ PersistPurge \/ EraseArtifact \/ FinishPurge
  BY <1>5, CleanStep, AppendStep, PersistStep, EraseStep, FinishStep
<1>6. CASE CommandDies \/ CreateBackup
  BY <1>6, DiesStep, BackupStep
<1>7. CASE StartRestore \/ VerifyAuthority \/ ApplyNext \/ ActivateRestore
  BY <1>7, StartRestoreStep, VerifyStep, ApplyStep, ActivateStep
<1>8. CASE UNCHANGED vars
  BY <1>8 DEF vars, IInv, TypeOK, RootFits, LedgerFits, CommandFits, BackupFits, RestoreFits, Activated
<1> QED
  BY <1>1, <1>2, <1>3, <1>4, <1>5, <1>6, <1>7, <1>8 DEF Next

-----------------------------------------------------------------------------
(* The results *)

LEMMA Invariance == Spec => []IInv
<1>1. Init => IInv
  BY InitIInv
<1>2. IInv /\ [Next]_vars => IInv'
  BY NextIInv
<1> QED
  BY <1>1, <1>2, PTL DEF Spec

\* Every root there is (in use, in the backup, in a staging directory) has the shape
\* the tables allow, and the ledger and the commands theirs.
THEOREM TypeCorrect == Spec => []TypeOK
<1>1. IInv => TypeOK
  BY DEF IInv
<1> QED
  BY <1>1, Invariance, PTL

\* A blocked source takes with it all that rests on it, however deep the graph of
\* evidence is and whenever the command that blocked it died (_block_target).
THEOREM BlockedClosed == Spec => []BlockedIsClosed
<1>1. IInv => BlockedIsClosed
  <2> SUFFICES ASSUME IInv, NEW s \in Source, Tombed(root, s), NEW n \in Dependents(root, s)
               PROVE  Tombed(root, n)
    BY DEF BlockedIsClosed
  <2>1. root.have \subseteq Node /\ Supported(root) /\ Closed(root)
    BY DEF IInv, RootFits, Sound, Fits, Roots
  <2> QED
    BY <2>1, DependentsRest DEF Closed
<1> QED
  BY <1>1, Invariance, PTL

\* No purge is in the root before it is in the ledger, with the manifest it erases by
\* (append_erase_entry before _persist_purge).
THEOREM LedgerBeforeRoot == Spec => []LedgerFirst
<1>1. IInv => LedgerFirst
  BY DEF IInv, RootFits, Recorded, Listed, LedgerFirst
<1> QED
  BY <1>1, Invariance, PTL

\* A purge that says its local part is done has left no content of the source or of
\* what rests on it, and none comes back: not by the clean revision, a later
\* publication, the search index or a transfer (_erase_artifact, finish_purge).
THEOREM PurgeErases == Spec => []PurgedIsGone
<1>1. IInv => PurgedIsGone
  BY DEF IInv, RootFits, Sound, Gone, PurgedIsGone
<1> QED
  BY <1>1, Invariance, PTL

\* A restored root holds nothing the ledger's entries list, from whatever moment the
\* backup is, and goes on holding nothing of it (apply_erase_entries).
THEOREM RestoreErases == Spec => []RestoredByLedger
<1>1. IInv => RestoredByLedger
  BY DEF IInv, Activated, Restored, RestoredByLedger
<1> QED
  BY <1>1, Invariance, PTL

\* A memory that rests on nothing blocked keeps its row in the current revision of its
\* document, whatever is retracted, purged or restored (_publish_clean_memory_revision).
THEOREM SurvivorsSurvive == Spec => []SurvivorsKept
<1>1. IInv => SurvivorsKept
  BY DEF IInv, RootFits, Sound, Kept, SurvivorsKept
<1> QED
  BY <1>1, Invariance, PTL
=============================================================================
