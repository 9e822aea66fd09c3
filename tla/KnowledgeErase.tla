--------------------------- MODULE KnowledgeErase ---------------------------
(***************************************************************************)
(* Retraction, purge, backup and restore of the knowledge root: the        *)
(* deletion service, the erase ledger of the control root, the backup and  *)
(* restore commands, and as much of the publishing side as they meet       *)
(* (evidence resolution, page and memory heads, the search index, context  *)
(* transfers and their replicas).                                          *)
(*                                                                         *)
(* The root is one value, because a backup copies it whole.  The ledger is *)
(* another database, in another directory, and a restore does not take it  *)
(* back.  The command line owns the root while it runs (a file lock), so   *)
(* the service's steps and a command exclude each other; a crash releases  *)
(* the lock between any two transactions.  A restore works in a directory  *)
(* of its own and holds no lock: it interleaves with everything.           *)
(*                                                                         *)
(* A revision of a page or of a memory document is named by the claims or  *)
(* entries it holds and by the operation that made it: a publication, or   *)
(* the clean-up of a retraction or of a purge.                             *)
(***************************************************************************)
EXTENDS Naturals, Sequences, FiniteSets

CONSTANTS
    Source, Claim, Entry,       \* sources, wiki claims, memory entries
    Page, Doc,                  \* wiki pages, memory documents
    Transfer,                   \* context transfers to another system
    Support,                    \* the evidence each claim or entry cites
    OwnerOf,                    \* the page of a claim, the document of an entry
    Shares,                     \* the ids a transfer records as dependencies
    Withdrawn,                  \* bound: the sources the operator retracts or purges
    MaxPending,                 \* bound: items the index worker may lag behind
    MaxRestores,                \* bound: restores begun
    MaxCrashes                  \* bound: deaths of a command

Node == Claim \cup Entry
Owner == Page \cup Doc

ASSUME EraseAssumption ==
    /\ Source \cap Node = {} /\ Source \cap Owner = {}
    /\ Claim \cap Entry = {} /\ Page \cap Doc = {}
    /\ Support \in [Node -> SUBSET (Source \cup Node)]
    /\ OwnerOf \in [Node -> Owner]
    /\ \A c \in Claim : OwnerOf[c] \in Page
    /\ \A e \in Entry : OwnerOf[e] \in Doc
    /\ Shares \in [Transfer -> SUBSET (Source \cup Owner)]
    /\ Withdrawn \subseteq Source
    /\ MaxPending \in Nat /\ MaxRestores \in Nat /\ MaxCrashes \in Nat

Op == [kind : {"retract", "purge"}, src : Source]
RetractOp(s) == [kind |-> "retract", src |-> s]
PurgeOp(s) == [kind |-> "purge", src |-> s]

None == [state |-> "none"]
Publication == [state |-> "published"]
Tombstone == {None} \cup [state : {"blocked", "purge_pending", "purged"}, op : Op]

\* What a manifest lists, and what can still be held: the files and segments of
\* a source, the file of a revision, the row a claim or an entry has in it, its
\* search chunks, the stored text of a transfer.
SourceText(s) == [kind |-> "source", of |-> s]
Revision(o, nodes, by) == [kind |-> "revision", of |-> o, nodes |-> nodes, by |-> by]
Row(n, v) == [kind |-> "row", of |-> n, in |-> v]
Chunk(v) == [kind |-> "chunk", of |-> v.of, in |-> v]
Sent(t) == [kind |-> "transfer", of |-> t]
Replica(t) == [kind |-> "replica", of |-> t]

VARIABLES
    root,       \* the knowledge root: database and files
    ledger,     \* the erase entries of the control root, in order
    cmd,        \* the command that owns the root, and where it stands
    backup,     \* the last backup: a root and the ledger position it recorded
    restore,    \* the restore under way in its staging directory
    restores,   \* history: restores begun (bounded)
    crashes,    \* history: processes that died (bounded)
    through     \* history: the ledger position the present root was restored to

vars == <<root, ledger, cmd, backup, restore, restores, crashes, through>>

EmptyRoot ==
    [ tomb |-> [x \in Source \cup Node |-> None],
      have |-> {},                              \* claims and entries published
      revs |-> {},                              \* revision rows, never deleted
      head |-> [o \in Owner |-> Revision(o, {}, None)],     \* the current ones
      held |-> {SourceText(s) : s \in Source},  \* content not erased
      index |-> {},                             \* pending index items
      redacted |-> {},                          \* history_redactions
      retracted |-> {},                         \* sources with a retract operation
      sent |-> [t \in Transfer |-> [state |-> "none", carries |-> {}]],
      replica |-> [t \in Transfer |-> "none"],
      purge |-> [s \in Source |-> None] ]       \* deletion_requests

NoCommand == [at |-> "none"]

Init ==
    /\ root = EmptyRoot
    /\ ledger = <<>>
    /\ cmd = NoCommand
    /\ backup = None
    /\ restore = None
    /\ restores = 0
    /\ crashes = 0
    /\ through = 0
------------------------------------------------------------------------------
(* What a root says.                                                       *)

Tombed(r, x) == r.tomb[x].state # "none"

\* Every claim and entry that rests on x through the evidence graph.
Dependents(r, x) ==
    LET Closed(D) == \A n \in r.have : Support[n] \cap (D \cup {x}) # {} => n \in D
    IN  CHOOSE D \in SUBSET r.have :
            Closed(D) /\ \A E \in SUBSET r.have : Closed(E) => D \subseteq E

\* A page or a document can be read when its current revision holds nothing
\* tombstoned and was not redacted.
Readable(r, o) ==
    /\ \A n \in r.head[o].nodes : ~Tombed(r, n)
    /\ \A x \in r.redacted : x.of # r.head[o]

OwnersOf(nodes) == {OwnerOf[n] : n \in nodes}

\* The transfers that recorded one of ids as a dependency.
SharedFrom(r, ids) == {t \in Transfer : r.sent[t].state # "none" /\ Shares[t] \cap ids # {}}
------------------------------------------------------------------------------
(* The service: publishing, indexing, sharing.                             *)

\* Mutated form: a claim or an entry resolves as long as it was published.
ResolvesPublished(r, x) ==
    IF x \in Source THEN ~Tombed(r, x) ELSE x \in r.have

Resolves(r, x) ==
    IF x \in Source THEN ~Tombed(r, x) ELSE x \in r.have /\ ~Tombed(r, x)

Published(r, n) ==
    LET o == OwnerOf[n]
        v == Revision(o, r.head[o].nodes \cup {n}, Publication)
    IN  [r EXCEPT !.have = @ \cup {n},
                  !.revs = @ \cup {v},
                  !.head[o] = v,
                  !.held = @ \cup {v} \cup {Row(m, v) : m \in v.nodes},
                  !.index = @ \cup {Chunk(v)}]

\* A claim or an entry is committed with a new revision of its owner: every
\* reference must resolve, and the head it extends must be one it could read.
Derive(n) ==
    /\ cmd = NoCommand
    /\ n \notin root.have
    /\ Cardinality(root.index) < MaxPending
    /\ \A x \in Support[n] : Resolves(root, x)
    /\ Readable(root, OwnerOf[n])
    /\ root' = Published(root, n)
    /\ UNCHANGED <<ledger, cmd, backup, restore, restores, crashes, through>>

\* The text of the chunks: a page's file, a document's entry rows.
Drafts(r, v) ==
    IF v.of \in Page THEN v \in r.held ELSE \A n \in v.nodes : Row(n, v) \in r.held

IndexItem(item) ==
    /\ cmd = NoCommand
    /\ item \in root.index
    /\ root' = [root EXCEPT
                  !.index = @ \ {item},
                  !.held = IF root.head[item.of] = item.in /\ Drafts(root, item.in)
                           THEN @ \cup {item} ELSE @]
    /\ UNCHANGED <<ledger, cmd, backup, restore, restores, crashes, through>>

\* A transfer is recorded with the dependencies it was assembled from, all
\* readable then; what it carries is their text at that moment.  Its id is a digest
\* of the receipt, and is not made again on a root that has forgotten it.
Share(t) ==
    /\ cmd = NoCommand
    /\ root.sent[t].state = "none"
    /\ \A i \in DOMAIN ledger : Sent(t) \notin ledger[i].manifest
    /\ \A s \in Shares[t] \cap Source : ~Tombed(root, s)
    /\ \A o \in Shares[t] \cap Owner : root.head[o].by # None /\ Readable(root, o)
    /\ root' = [root EXCEPT
                  !.sent[t] = [state |-> "active",
                               carries |-> (Shares[t] \cap Source)
                                   \cup UNION {root.head[o].nodes : o \in Shares[t] \cap Owner}],
                  !.held = @ \cup {Sent(t)}]
    /\ UNCHANGED <<ledger, cmd, backup, restore, restores, crashes, through>>

Replicate(t) ==
    /\ cmd = NoCommand
    /\ root.sent[t].state # "none"
    /\ root.replica[t] = "none"
    /\ root' = [root EXCEPT !.replica[t] = "retained"]
    /\ UNCHANGED <<ledger, cmd, backup, restore, restores, crashes, through>>
------------------------------------------------------------------------------
(* Blocking, redaction and the clean revision, as the transactions do them.*)

\* Transfers change state together, but a purged one stays purged.
SentAs(r, T, state) ==
    [t \in Transfer |-> [state |-> IF t \in T /\ r.sent[t].state # "purged"
                                   THEN state ELSE r.sent[t].state,
                         carries |-> r.sent[t].carries]]

\* The target's tombstone is overwritten (a purged one stays purged); those of
\* its dependents are inserted only where there is none, so an earlier
\* operation keeps its name on them.
Block(r, s, op, state) ==
    LET deps == Dependents(r, s)
        pages == OwnersOf(deps \cap Claim)
        chunks == {a \in r.held : a.kind = "chunk" /\ a.of \in pages}
        own == [state |-> IF r.tomb[s].state = "purged" THEN "purged" ELSE state, op |-> op]
        lost == SharedFrom(r, {s} \cup pages)
    IN  [r EXCEPT
            !.tomb = [x \in Source \cup Node |->
                IF x = s THEN own
                ELSE IF x \in deps /\ r.tomb[x] = None THEN [state |-> state, op |-> op]
                ELSE r.tomb[x]],
            !.sent = SentAs(r, lost, state),
            !.held = @ \ chunks]

\* Every revision of a document that holds an entry this operation tombstoned.
Redact(r, op) ==
    LET hit == {e \in r.have \cap Entry : Tombed(r, e) /\ r.tomb[e].op = op}
        new == {v \in r.revs : v.nodes \cap hit # {} /\ \A x \in r.redacted : x.of # v}
    IN  [r EXCEPT !.redacted = @ \cup {[of |-> v, op |-> op, clean |-> FALSE] : v \in new}]

Unclean(r, op) == {x.of.of : x \in {x \in r.redacted : x.op = op /\ ~x.clean}}

\* Mutated form: the clean revision is published without the entries it keeps.
CleanBlank(r, op) ==
    LET new == [o \in Unclean(r, op) |-> Revision(o, {}, op)]
    IN  [r EXCEPT
            !.head = [o \in Owner |-> IF o \in DOMAIN new THEN new[o] ELSE r.head[o]],
            !.revs = @ \cup {new[o] : o \in DOMAIN new},
            !.held = @ \cup {new[o] : o \in DOMAIN new},
            !.redacted = {IF x.op = op THEN [x EXCEPT !.clean = TRUE] ELSE x : x \in r.redacted}]

\* The clean revision keeps what is not tombstoned.  It is not offered to the
\* search index.
Clean(r, op) ==
    LET docs == Unclean(r, op)
        new == [o \in docs |->
                  Revision(o, {e \in r.head[o].nodes : ~Tombed(r, e)}, op)]
    IN  [r EXCEPT
            !.head = [o \in Owner |-> IF o \in docs THEN new[o] ELSE r.head[o]],
            !.revs = @ \cup {new[o] : o \in docs},
            !.held = @ \cup UNION {{new[o]} \cup {Row(e, new[o]) : e \in new[o].nodes} : o \in docs},
            !.redacted = {IF x.op = op THEN [x EXCEPT !.clean = TRUE] ELSE x : x \in r.redacted}]

\* Mutated form: of each owner only the current revision is listed.
ManifestHeads(r, s) ==
    LET deps == Dependents(r, s)
        owners == OwnersOf(deps)
    IN  {SourceText(s)}
        \cup (UNION {{r.head[o]} \cup {Row(n, r.head[o]) : n \in r.head[o].nodes \cap deps} :
                        o \in owners})
        \cup {a \in r.held : a.kind = "chunk" /\ a.of \in owners}
        \cup {Sent(t) : t \in SharedFrom(r, {s} \cup owners)}

\* What a purge of s will erase: its text, every revision that holds a dependent
\* and the dependent's row in it, the transfers and replicas that recorded one of
\* these ids, and their search chunks.
Manifest(r, s) ==
    LET deps == Dependents(r, s)
        owners == OwnersOf(deps)
        shared == SharedFrom(r, {s} \cup owners)
    IN  {SourceText(s)}
        \cup (UNION {{v} \cup {Row(n, v) : n \in v.nodes \cap deps} :
                        v \in {v \in r.revs : v.nodes \cap deps # {}}})
        \cup {a \in r.held : a.kind = "chunk" /\ a.of \in owners}
        \cup {Sent(t) : t \in shared}
        \cup {Replica(t) : t \in {t \in shared : r.replica[t] # "none"}}

\* Manifest entries erased.  With a document's revision go the rows of its
\* tombstoned entries, and only those; a replica is nothing local.
Scrub(r, artifacts) ==
    LET revisions == {a \in artifacts : a.kind = "revision" /\ a.of \in Doc}
        rows == UNION {{Row(n, v) : n \in {n \in v.nodes : Tombed(r, n)}} : v \in revisions}
    IN  [r EXCEPT
            !.held = @ \ (artifacts \cup rows),
            !.sent = [t \in Transfer |->
                [state |-> IF Sent(t) \in artifacts /\ r.sent[t].state # "none"
                           THEN "purge_pending" ELSE r.sent[t].state,
                 carries |-> r.sent[t].carries]]]
------------------------------------------------------------------------------
(* The retract command.                                                    *)

\* A repeated retraction blocks nothing again but resumes the clean-up.
Retract(s) ==
    /\ cmd = NoCommand
    /\ root' = IF s \in root.retracted THEN root
               ELSE [Redact(Block(root, s, RetractOp(s), "blocked"), RetractOp(s))
                        EXCEPT !.retracted = @ \cup {s}]
    /\ cmd' = [at |-> "clean", op |-> RetractOp(s)]
    /\ UNCHANGED <<ledger, backup, restore, restores, crashes, through>>

CleanMixedMemory ==
    /\ cmd.at = "clean"
    /\ root' = Clean(root, cmd.op)
    /\ cmd' = IF cmd.op.kind = "retract" THEN NoCommand ELSE [cmd EXCEPT !.at = "erase"]
    /\ UNCHANGED <<ledger, backup, restore, restores, crashes, through>>
------------------------------------------------------------------------------
(* The purge command.                                                      *)

\* The target is read from the retraction's receipt.  A request that exists is
\* answered with its receipt, whatever is left to do.
StartPurge(s) ==
    /\ cmd = NoCommand
    /\ s \in root.retracted
    /\ root.purge[s] = None
    /\ cmd' = [at |-> "append", op |-> PurgeOp(s), manifest |-> Manifest(root, s)]
    /\ UNCHANGED <<root, ledger, backup, restore, restores, crashes, through>>

EntryOf(s) == {i \in DOMAIN ledger : ledger[i].src = s}

\* Mutated form: an entry of the same request is taken whatever it lists.
AppendLedgerReplay ==
    /\ cmd.at = "append"
    /\ ledger' = IF EntryOf(cmd.op.src) # {} THEN ledger
                 ELSE Append(ledger, [src |-> cmd.op.src, manifest |-> cmd.manifest])
    /\ cmd' = [cmd EXCEPT !.at = "persist"]
    /\ UNCHANGED <<root, backup, restore, restores, crashes, through>>

\* An entry of the same request is taken again only for the same manifest.
AppendLedger ==
    /\ cmd.at = "append"
    /\ LET s == cmd.op.src
           entry == [src |-> s, manifest |-> cmd.manifest]
       IN  \/ /\ EntryOf(s) = {}
              /\ ledger' = Append(ledger, entry)
              /\ cmd' = [cmd EXCEPT !.at = "persist"]
           \/ /\ EntryOf(s) # {}
              /\ \E i \in EntryOf(s) :
                    cmd' = IF ledger[i] = entry THEN [cmd EXCEPT !.at = "persist"] ELSE NoCommand
              /\ UNCHANGED ledger
    /\ UNCHANGED <<root, backup, restore, restores, crashes, through>>

\* The transfers whose recorded dependencies name a tombstone of this request.
DependencyBlocks(r, op) ==
    SharedFrom(r, {x \in Source \cup Node : Tombed(r, x) /\ r.tomb[x].op = op})

PersistPurge ==
    /\ cmd.at = "persist"
    /\ LET s == cmd.op.src
           blocked == Block(root, s, cmd.op, "purge_pending")
           blocks == DependencyBlocks(blocked, cmd.op)
           marked == [blocked EXCEPT
               !.purge[s] = [state |-> "purge_pending", manifest |-> cmd.manifest,
                             left |-> cmd.manifest, blocks |-> blocks],
               !.sent = SentAs(blocked, blocks, "purge_pending"),
               !.replica = [t \in Transfer |->
                   IF t \in blocks /\ root.replica[t] = "retained" THEN "purge_pending"
                   ELSE root.replica[t]]]
       IN  root' = Redact(marked, cmd.op)
    /\ cmd' = [at |-> "clean", op |-> cmd.op]
    /\ UNCHANGED <<ledger, backup, restore, restores, crashes, through>>

\* One entry of the manifest, its file before its row; the order of the entries
\* does not matter to what is left.
EraseArtifact ==
    /\ cmd.at = "erase"
    /\ LET s == cmd.op.src
           left == root.purge[s].left
           a == CHOOSE a \in left : TRUE
       IN  /\ left # {}
           /\ root' = [Scrub(root, {a}) EXCEPT !.purge[s].left = @ \ {a}]
    /\ UNCHANGED <<ledger, cmd, backup, restore, restores, crashes, through>>

\* Replicas are asked of a port that only ever answers "pending".
ReplicasLeft(r, s) == {t \in r.purge[s].blocks : r.replica[t] \in {"retained", "purge_pending"}}

FinishPurge ==
    /\ cmd.at = "erase"
    /\ LET s == cmd.op.src
           request == root.purge[s]
           left == ReplicasLeft(root, s)
           state == IF left = {} THEN "purged" ELSE "local_purged"
       IN  /\ request.left = {}
           /\ root' = [root EXCEPT
                  !.purge[s].state = state,
                  !.replica = [t \in Transfer |->
                      IF t \in left THEN "purge_pending" ELSE root.replica[t]],
                  !.tomb = [x \in Source \cup Node |->
                      IF state = "purged" /\ Tombed(root, x) /\ root.tomb[x].op = cmd.op
                      THEN [state |-> "purged", op |-> cmd.op] ELSE root.tomb[x]]]
    /\ cmd' = NoCommand
    /\ UNCHANGED <<ledger, backup, restore, restores, crashes, through>>

\* The process dies: what it committed stays, the lock is free.
CommandDies ==
    /\ cmd # NoCommand
    /\ crashes < MaxCrashes
    /\ crashes' = crashes + 1
    /\ cmd' = NoCommand
    /\ UNCHANGED <<root, ledger, backup, restore, restores, through>>
------------------------------------------------------------------------------
(* Backup and restore.                                                     *)

\* Every file a revision row names must be there: the backup fails otherwise.  (A
\* source's file rows go with its files.)
FilesWhole(r) == r.revs \subseteq r.held

\* The ledger's position is read first, then the root is copied.
CreateBackup ==
    /\ cmd = NoCommand
    /\ backup = None
    /\ FilesWhole(root)
    /\ backup' = [state |-> "made", root |-> root, ledger |-> ledger]
    /\ UNCHANGED <<root, ledger, cmd, restore, restores, crashes, through>>

\* The ledger is read once.  It may not be behind the backup's position, nor differ
\* at that position.
StartRestore ==
    /\ backup # None
    /\ restore = None
    /\ restores < MaxRestores
    /\ Len(backup.ledger) <= Len(ledger)
    /\ Len(backup.ledger) = Len(ledger) => backup.ledger = ledger
    /\ restore' = [state |-> "staged", root |-> backup.root, exported |-> ledger, applied |-> 0]
    /\ restores' = restores + 1
    /\ UNCHANGED <<root, ledger, cmd, backup, crashes, through>>

\* Mutated form: an entry the copy already knows of is skipped whole.
ApplyEntryKnown(r, entry) ==
    LET op == PurgeOp(entry.src)
        known == \E x \in DOMAIN r.tomb : Tombed(r, x) /\ r.tomb[x].op = op
    IN  IF known THEN r
        ELSE Scrub(Clean(Redact(Block(r, entry.src, op, "purged"), op), op), entry.manifest)

\* One ledger entry on the restored copy: the target is blocked unless the copy
\* already holds this request, then cleaned, then every artifact is erased.
ApplyEntry(r, entry) ==
    LET op == PurgeOp(entry.src)
        known == \E x \in DOMAIN r.tomb : Tombed(r, x) /\ r.tomb[x].op = op
        blocked == IF known THEN r ELSE Block(r, entry.src, op, "purged")
        clean == Clean(Redact(blocked, op), op)
    IN  Scrub(clean, entry.manifest)

\* The authority is checked again before it is applied: a ledger that moved
\* since stops the restore, which removes its staging directory.
VerifyAuthority ==
    /\ restore.state = "staged"
    /\ restore' = IF restore.exported = ledger THEN [restore EXCEPT !.state = "applying"] ELSE None
    /\ UNCHANGED <<root, ledger, cmd, backup, restores, crashes, through>>

\* The entries are applied in the ledger's order.
ApplyNext ==
    /\ restore.state = "applying"
    /\ restore.applied < Len(restore.exported)
    /\ restore' = [restore EXCEPT !.root = ApplyEntry(@, restore.exported[restore.applied + 1]),
                                  !.applied = @ + 1]
    /\ UNCHANGED <<root, ledger, cmd, backup, restores, crashes, through>>

\* The staging directory becomes the root in use; a command still running
\* belonged to the root that is left.
ActivateRestore ==
    /\ restore.state = "applying"
    /\ restore.applied = Len(restore.exported)
    /\ root' = restore.root
    /\ through' = Len(restore.exported)
    /\ restore' = None
    /\ cmd' = NoCommand
    /\ UNCHANGED <<ledger, backup, restores, crashes>>
------------------------------------------------------------------------------
Next ==
    \/ \E n \in Node : Derive(n)
    \/ \E item \in root.index : IndexItem(item)
    \/ \E t \in Transfer : Share(t) \/ Replicate(t)
    \/ \E s \in Withdrawn : Retract(s) \/ StartPurge(s)
    \/ CleanMixedMemory
    \/ AppendLedger
    \/ PersistPurge
    \/ EraseArtifact
    \/ FinishPurge
    \/ CommandDies
    \/ CreateBackup
    \/ StartRestore
    \/ VerifyAuthority
    \/ ApplyNext
    \/ ActivateRestore

Spec == Init /\ [][Next]_vars
------------------------------------------------------------------------------
(* What still holds something of s, or of what rests on it.                *)
Holds(r, a) ==
    CASE a.kind = "row" -> {a.of}
      [] a.kind = "revision" -> a.nodes
      [] a.kind = "chunk" -> a.in.nodes
      [] a.kind = "transfer" -> r.sent[a.of].carries
      [] OTHER -> {}

Remains(r, s) ==
    {a \in r.held : a = SourceText(s) \/ Holds(r, a) \cap (Dependents(r, s) \cup {s}) # {}}

Settled(r, s) == r.purge[s].state \in {"local_purged", "purged"}

Revisions == [kind : {"revision"}, of : Owner, nodes : SUBSET Node,
              by : {None, Publication} \cup Op]
Artifacts == Revisions
    \cup [kind : {"source"}, of : Source] \cup [kind : {"transfer", "replica"}, of : Transfer]
    \cup [kind : {"row"}, of : Node, in : Revisions] \cup [kind : {"chunk"}, of : Owner, in : Revisions]
Sendings == [state : {"none", "active", "blocked", "purge_pending", "purged"},
             carries : SUBSET (Source \cup Node)]
Requests == [state : {"purge_pending", "local_purged", "purged"}, manifest : SUBSET Artifacts,
             left : SUBSET Artifacts, blocks : SUBSET Transfer]
Entries == [src : Source, manifest : SUBSET Artifacts]

Roots ==
    [ tomb : [Source \cup Node -> Tombstone], have : SUBSET Node, revs : SUBSET Revisions,
      head : [Owner -> Revisions], held : SUBSET Artifacts, index : SUBSET Artifacts,
      redacted : SUBSET [of : Revisions, op : Op, clean : BOOLEAN],
      retracted : SUBSET Source, sent : [Transfer -> Sendings],
      replica : [Transfer -> {"none", "retained", "purge_pending"}],
      purge : [Source -> {None} \cup Requests] ]

\* The shape of the state.
TypeOK ==
    /\ root \in Roots
    /\ ledger \in Seq(Entries)
    /\ cmd \in {NoCommand} \cup [at : {"clean", "erase"}, op : Op]
                \cup [at : {"append", "persist"}, op : Op, manifest : SUBSET Artifacts]
    /\ backup \in {None} \cup [state : {"made"}, root : Roots, ledger : Seq(Entries)]
    /\ restore \in {None} \cup [state : {"staged", "applying"}, root : Roots,
                                exported : Seq(Entries), applied : Nat]
    /\ restores \in Nat /\ crashes \in Nat /\ through \in Nat

\* Whatever rests on a blocked source is blocked with it, through any chain of
\* claims and memories, whenever it was published: before the retraction, or
\* between an interrupted command and the next.
BlockedIsClosed ==
    \A s \in Source : Tombed(root, s) => \A n \in Dependents(root, s) : Tombed(root, n)

\* A purge the root knows of is in the ledger with the very manifest it erases
\* by, so that a restore erases as much: also when the process died between the
\* two databases and the request was given again.
LedgerFirst ==
    \A s \in Source : root.purge[s] # None =>
        \E i \in DOMAIN ledger : /\ ledger[i].src = s
                                /\ ledger[i].manifest = root.purge[s].manifest

\* When a purge says its local part is done, nothing that was made from the
\* source is left: no revision of a page or a memory, no chunk, no transfer.
PurgedIsGone == \A s \in Source : Settled(root, s) => Remains(root, s) = {}

\* A restored root has the sources of the ledger it was restored to blocked, and
\* none of the files, rows and transfers the entries list: also when the backup
\* was taken in the middle of a retraction, or after a purge that died.  (A chunk
\* of a memory document that outlives the purge is made again by the index.)
RestoredByLedger ==
    \A i \in 1..through :
        /\ Tombed(root, ledger[i].src)
        /\ \A a \in ledger[i].manifest \cap root.held : a.kind = "chunk"

\* Independent memories stay: an entry that rests on nothing blocked keeps its
\* row and its place in its document's current revision.
SurvivorsKept ==
    \A e \in root.have \cap Entry : ~Tombed(root, e) =>
        /\ e \in root.head[OwnerOf[e]].nodes
        /\ Row(e, root.head[OwnerOf[e]]) \in root.held
=============================================================================
