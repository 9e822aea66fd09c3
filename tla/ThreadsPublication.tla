------------------------- MODULE ThreadsPublication -------------------------
(***************************************************************************)
(* Publishing on Threads: the tool that dispatches the items of a draft    *)
(* (tools/threads_tools.py), the publisher and its ledger                  *)
(* (threads/publications.py), the poll that settles what was left open     *)
(* (threads/reconciliation.py), drafts, and the account that may be        *)
(* refreshed, disconnected, revoked or erased meanwhile (threads/oauth.py, *)
(* threads/privacy.py) under the process fence (threads/effect_fence.py).  *)
(*                                                                         *)
(* One member, one connection, one draft batch at a time; a batch created  *)
(* after an erasure continues the count of revisions.  An invocation is an *)
(* approved call that names a revision and some of its items; its adapter  *)
(* is entered once and an interrupted one waits for reconciliation         *)
(* (AgentRunTools), so the branch for an operation met again is not here.  *)
(* Containers of a carousel are one container, and waiting until it is     *)
(* ready is part of creating it.  A thread's steps are its requests to the *)
(* provider with the commits before and after them.                        *)
(***************************************************************************)
EXTENDS Integers, Sequences, FiniteSets

CONSTANTS Items,        \* of the draft, in their order
          Selections,   \* the sets of items a call may name
          Invocations, Runs,
          Sharing,      \* which calls may belong to one Run
          Poll,         \* thread of the reconciliation worker
          Lookup,       \* a Run's threads.publication.get
          Profile,      \* a refresh or a metrics collection
          Author,       \* a change of the draft
          MaxRevision,
          MaxTroubles,  \* bound on crashes, rejected tokens, revocations, erasures and edits
          None

ASSUME ThreadsConstants ==
    /\ Items \subseteq Nat /\ Selections \subseteq SUBSET Items \ {{}}
    /\ MaxRevision \in Nat \ {0} /\ MaxTroubles \in Nat
    /\ Sharing \subseteq [Invocations -> Runs]
    /\ Poll \notin {Lookup, Profile, Author}
    /\ {Poll, Lookup, Profile, Author} \cap Invocations = {}
    /\ None \notin {"succeeded", "failed"}

Operations == Invocations \X Items
Threads    == Invocations \cup {Poll, Lookup, Profile, Author}

VARIABLES
    account,    \* status of the row ("none" without one) and whether the token file exists
    tombstone,  \* threads_connection_tombstones has the connection
    draft,      \* revision and state of the batch
    row,        \* threads_publications
    waiting,    \* the candidates: uncertain or published rows, not run_settled, latest first
    call,       \* per invocation: what its Run knows
    runOf,      \* the Run an invocation belongs to
    th,         \* per thread: where it is
    posted,     \* ghost: posts of the operation that became public
    troubles

vars == <<account, tombstone, draft, row, waiting, call, runOf, th, posted, troubles>>
world == <<account, tombstone, draft, runOf>>

NoRow  == [state |-> "none", step |-> "none", id |-> FALSE, revision |-> 0]
NoCall == [state |-> "none", items |-> {}, revision |-> 0, result |-> None]

\* An invocation has items `left`, the poll candidates `todo`; `seen` is what a
\* reader or the author read.
Idle == [pc |-> "idle", op |-> None, left |-> {}, todo |-> <<>>, seen |-> NoRow]

Init ==
    /\ account = [status |-> "active", token |-> TRUE]
    /\ tombstone = FALSE
    /\ draft = [revision |-> 1, state |-> "draft"]
    /\ row = [o \in Operations |-> NoRow]
    /\ waiting = <<>>
    /\ call = [v \in Invocations |-> NoCall]
    /\ runOf \in Sharing
    /\ th = [w \in Threads |-> Idle]
    /\ posted = [o \in Operations |-> 0]
    /\ troubles = 0

At(w, places) == th[w].pc \in places
Goto(w, place) == th' = [th EXCEPT ![w].pc = place]
Trouble == troubles < MaxTroubles /\ troubles' = troubles + 1

-----------------------------------------------------------------------------
(***************************************************************************)
(* The ledger                                                              *)
(***************************************************************************)
Usable == account.status = "active" /\ account.token

\* The states reconciliation_candidates selects.
Open == {"uncertain", "published"}

\* Mutated form of Candidate: only uncertain rows are reconciled.
CandidateUncertain(state) == state = "uncertain"

Candidate(state) == state \in Open

\* What remains of the candidates s without those in S, in their order.
Without(s, S) ==
    LET keep == {k \in DOMAIN s : s[k] \notin S} IN
    [n \in 1..Cardinality(keep) |-> s[CHOOSE k \in keep : Cardinality(keep \cap 1..k) = n]]

\* put: the row is written and becomes the latest candidate, or not one yet.
Put(o, receipt) ==
    /\ row' = [row EXCEPT ![o] = receipt]
    /\ waiting' = IF Candidate(receipt.state) THEN <<o>> \o Without(waiting, {o}) ELSE waiting

\* Mutated form of Writable: the tombstone is not looked at.
WritableErased(o, receipt) == ~(row[o].state \in {"published", "failed", "uncertain"})
                              \/ (row[o].state = "uncertain" /\ receipt.state = "published")

\* What put refuses: an erased connection, and a terminal row but for the
\* readback of an uncertain one.
Writable(o, receipt) ==
    /\ ~tombstone
    /\ \/ row[o].state \notin {"published", "failed", "uncertain"}
       \/ row[o].state = "uncertain" /\ receipt.state = "published"

\* Mutated form of Dispatched: a publication that did not succeed may be repeated.
DispatchedPublished(i, revision) ==
    \E v \in Invocations : row[<<v, i>>].state = "published" /\ row[<<v, i>>].revision = revision

\* get_for_item, and the unique index on batch, item and revision.
Dispatched(i, revision) ==
    \E v \in Invocations : row[<<v, i>>].state # "none" /\ row[<<v, i>>].revision = revision

-----------------------------------------------------------------------------
(***************************************************************************)
(* The tool: a Run's invocation                                            *)
(***************************************************************************)
Awaits(r) == \E v \in Invocations : runOf[v] = r /\ call[v].state = "awaiting"

\* The Run proposes the publication of the current draft and its owner approves.
Approve(v) ==
    /\ call[v].state = "none" /\ draft.state # "none"
    /\ \A u \in Invocations : runOf[u] = runOf[v] => call[u].state \in {"none", "told"}
    /\ \E S \in Selections :
         call' = [call EXCEPT ![v] = [state |-> "approved", items |-> S,
                                      revision |-> draft.revision, result |-> None]]
    /\ UNCHANGED <<world, row, waiting, th, posted, troubles>>

\* The draft as the tool and the publisher require it.
CurrentDraft(v) == draft.revision = call[v].revision /\ draft.state \in {"draft", "approved"}

\* _require_publication_resources, then the items in their order.
Dispatch(v) ==
    /\ call[v].state = "approved"
    /\ IF draft.revision = call[v].revision /\ draft.state # "none" /\ account.status = "active"
       THEN /\ call' = [call EXCEPT ![v].state = "executing"]
            /\ th' = [th EXCEPT ![v].pc = "begin",
                                ![v].left = call[v].items]
       ELSE /\ call' = [call EXCEPT ![v].state = "told", ![v].result = "failed"]
            /\ UNCHANGED th
    /\ UNCHANGED <<world, row, waiting, posted, troubles>>

Fenced == \E v \in Invocations :
              At(v, {"creating", "posting", "posted", "reading"})

\* The items in their order.
First(i, S) == \A j \in S : i <= j

\* The publisher's checks, the prepared row and its first step; the fence is held from here to
\* the item's last row.  A refusal ends the whole call as failed, a missing
\* token file raises through the adapter.
Begin(v) ==
    /\ At(v, {"begin"}) /\ ~Fenced
    /\ \E i \in th[v].left :
         LET o == <<v, i>>
             prepared == [NoRow EXCEPT !.state = "prepared", !.step = "create",
                                       !.revision = call[v].revision] IN
         /\ First(i, th[v].left)
         /\ IF ~Dispatched(i, call[v].revision) /\ CurrentDraft(v) /\ account.status = "active"
            THEN IF ~account.token
                 THEN /\ call' = [call EXCEPT ![v].state = "awaiting"]
                      /\ th' = [th EXCEPT ![v] = Idle]
                      /\ UNCHANGED <<row, waiting>>
                 ELSE /\ IF Writable(o, prepared)
                         THEN Put(o, prepared)
                              /\ th' = [th EXCEPT ![v].pc = "creating", ![v].op = o]
                         ELSE Goto(v, "refused") /\ UNCHANGED <<row, waiting>>
                      /\ UNCHANGED call
            ELSE Goto(v, "refused") /\ UNCHANGED <<row, waiting, call>>
    /\ UNCHANGED <<world, posted, troubles>>

\* An item's last row: an uncertain one stops the items after it.
Ends(v, state, id) ==
    LET o == th[v].op rest == th[v].left \ {o[2]} IN
    /\ Put(o, [row[o] EXCEPT !.state = state, !.id = id,
                             !.step = IF @ = "create" THEN "none" ELSE @])
    /\ th' = [th EXCEPT ![v] = [@ EXCEPT !.op = None, !.left = rest,
                 !.pc = IF state = "uncertain" \/ rest = {} THEN "finish" ELSE "begin"]]

\* The container exists and is ready: the step "publish" is written before the post.
Created(v) ==
    LET o == th[v].op IN
    /\ At(v, {"creating"})
    /\ Put(o, [row[o] EXCEPT !.state = "publishing", !.step = "publish"])
    /\ Goto(v, "posting")
    /\ UNCHANGED <<world, call, posted, troubles>>

Posts(v) ==
    /\ At(v, {"posting"})
    /\ posted' = [posted EXCEPT ![th[v].op] = @ + 1]
    /\ Goto(v, "posted")
    /\ UNCHANGED <<world, row, waiting, call, troubles>>

Answered(v) ==
    LET o == th[v].op IN
    /\ At(v, {"posted"})
    /\ Put(o, [row[o] EXCEPT !.state = "publishing", !.step = "none", !.id = TRUE])
    /\ Goto(v, "reading")
    /\ UNCHANGED <<world, call, posted, troubles>>

ReadBack(v) ==
    /\ At(v, {"reading"})
    /\ Ends(v, "published", TRUE)
    /\ UNCHANGED <<world, call, posted, troubles>>

\* Mutated form of Uncertain: a lost answer counts as a refusal.
UncertainOnlyKnown(v, lost) == row[th[v].op].id

\* A POST whose answer was lost, or anything after the post is known.
Uncertain(v, lost) == lost \/ row[th[v].op].id

\* A request fails: refused by the provider, or (of a POST) its answer lost; a
\* 401 asks the owner to connect again.
Fails(v) ==
    /\ At(v, {"creating", "posting", "posted", "reading"})
    /\ \E lost \in IF At(v, {"creating", "posting"}) THEN BOOLEAN ELSE {At(v, {"posted"})} :
         /\ Ends(v, IF Uncertain(v, lost) THEN "uncertain" ELSE "failed", row[th[v].op].id)
         /\ \/ UNCHANGED <<account, troubles>>
            \/ ~lost /\ Trouble /\ account' = [account EXCEPT !.status = "reauth"]
    /\ UNCHANGED <<tombstone, draft, call, runOf, posted>>

\* The adapter returns what became of the items, and the Run records it.
Returned(v) ==
    LET states == {row[<<v, i>>].state : i \in call[v].items} IN
    IF At(v, {"refused"}) THEN "failed"
    ELSE IF "uncertain" \in states THEN "unknown"
    ELSE IF states = {"published"} THEN "succeeded" ELSE "failed"

Finish(v) ==
    /\ At(v, {"finish", "refused"})
    /\ call' = [call EXCEPT ![v] =
                  IF Returned(v) = "unknown" THEN [@ EXCEPT !.state = "awaiting"]
                  ELSE [@ EXCEPT !.state = "told", !.result = Returned(v)]]
    /\ th' = [th EXCEPT ![v] = Idle]
    /\ UNCHANGED <<world, row, waiting, posted, troubles>>

Publish(v) ==
    \/ Dispatch(v) \/ Begin(v) \/ Created(v) \/ Posts(v)
    \/ Answered(v) \/ ReadBack(v) \/ Fails(v) \/ Finish(v)

-----------------------------------------------------------------------------
(***************************************************************************)
(* Reconciliation: the poll, and a Run that looks a publication up.  Both  *)
(* read the receipt and the account, ask the provider and then write, and  *)
(* neither holds the fence.                                                *)
(***************************************************************************)
Known(o) == row[o].state \in Open /\ row[o].id

\* reconcile after its checks: the receipt it will write from is the one read here.
Asks(w, o, rest) ==
    th' = [th EXCEPT ![w] = [pc |-> "reading", op |-> o, left |-> {}, todo |-> rest, seen |-> row[o]]]

\* The provider shows the post: it is recorded unless put refuses, which raises.
Confirms(w, next) ==
    LET o == th[w].op receipt == [th[w].seen EXCEPT !.state = "published", !.step = "none"] IN
    /\ At(w, {"reading"})
    /\ IF Writable(o, receipt)
       THEN Put(o, receipt) /\ Goto(w, next)
       ELSE th' = [th EXCEPT ![w] = Idle] /\ UNCHANGED <<row, waiting>>
    /\ UNCHANGED <<world, call, posted, troubles>>

\* It does not; a 401 writes the account as it was read, also over an erased one.
Misses(w, next) ==
    /\ At(w, {"reading"})
    /\ \/ UNCHANGED <<account, troubles>>
       \/ Trouble /\ account' = [account EXCEPT !.status = "reauth"]
    /\ th' = [th EXCEPT ![w] = [Idle EXCEPT !.pc = next, !.todo = th[w].todo]]
    /\ UNCHANGED <<tombstone, draft, row, waiting, call, runOf, posted>>

PollBegins ==
    /\ At(Poll, {"idle"}) /\ waiting # <<>>
    /\ th' = [th EXCEPT ![Poll] = [Idle EXCEPT !.pc = "list", !.todo = waiting]]
    /\ UNCHANGED <<world, row, waiting, call, posted, troubles>>

\* The next candidate.
PollTakes ==
    LET todo == th[Poll].todo o == Head(todo) rest == Tail(todo)
        onward == th' = [th EXCEPT ![Poll].todo = rest]
        raises == th' = [th EXCEPT ![Poll] = Idle] IN
    /\ At(Poll, {"list"}) /\ todo # <<>>
    /\ IF ~Awaits(runOf[o[1]])
       THEN /\ waiting' = IF call[o[1]].state = "told" THEN Without(waiting, {o}) ELSE waiting
            /\ onward
       ELSE /\ CASE row[o].state = "none"      -> raises
                 [] row[o].state = "published" ->
                        th' = [th EXCEPT ![Poll].pc = "resolve", ![Poll].op = o]
                 [] ~Known(o)                  -> onward
                 [] OTHER -> IF account.status # "active" THEN onward
                             ELSE IF ~account.token THEN raises
                             ELSE Asks(Poll, o, rest)
            /\ UNCHANGED waiting
    /\ UNCHANGED <<world, row, call, posted, troubles>>

PollEnds ==
    /\ At(Poll, {"list"}) /\ th[Poll].todo = <<>>
    /\ th' = [th EXCEPT ![Poll] = Idle]
    /\ UNCHANGED <<world, row, waiting, call, posted, troubles>>

\* resolve_reconciliation: refused unless the Run awaits this very invocation.
PollResolves ==
    LET v == th[Poll].op[1]
        whole == \A i \in call[v].items : row[<<v, i>>].state = "published" IN
    /\ At(Poll, {"resolve"})
    /\ IF call[v].state = "awaiting"
       THEN /\ call' = [call EXCEPT ![v].state = "told",
                                    ![v].result = IF whole THEN "succeeded" ELSE "failed"]
            /\ Goto(Poll, "mark")
       ELSE th' = [th EXCEPT ![Poll] = Idle] /\ UNCHANGED call
    /\ UNCHANGED <<world, row, waiting, posted, troubles>>

\* mark_run_settled for the rows of the invocation.
PollMarks ==
    /\ At(Poll, {"mark"})
    /\ waiting' = Without(waiting, {<<th[Poll].op[1], i>> : i \in Items})
    /\ th' = [th EXCEPT ![Poll] = Idle]
    /\ UNCHANGED <<world, row, call, posted, troubles>>

PollConfirms == Confirms(Poll, "resolve")
PollMisses   == Misses(Poll, "list")

PollSteps == PollBegins \/ PollTakes \/ PollEnds \/ PollResolves \/ PollMarks
             \/ PollConfirms \/ PollMisses

LookupAsks(o) ==
    /\ At(Lookup, {"idle"}) /\ row[o].state = "uncertain" /\ Known(o) /\ Usable /\ Trouble
    /\ Asks(Lookup, o, <<>>)
    /\ UNCHANGED <<world, row, waiting, call, posted>>

-----------------------------------------------------------------------------
(***************************************************************************)
(* The account and the draft                                               *)
(***************************************************************************)
Account(status, token) == account' = [status |-> status, token |-> token]

\* A refresh, or a metrics request, works on the account it has read.
ProfileAsks ==
    /\ At(Profile, {"idle"}) /\ account.status \in {"active", "reauth"} /\ account.token
    /\ Goto(Profile, "asking") /\ Trouble
    /\ UNCHANGED <<world, row, waiting, call, posted>>

ProfileAnswered ==
    /\ At(Profile, {"asking"})
    /\ Account("active", TRUE) \/ Account("reauth", account.token) \/ UNCHANGED account
    /\ Goto(Profile, "idle")
    /\ UNCHANGED <<tombstone, draft, row, waiting, call, runOf, posted, troubles>>

\* Disconnect and deauthorize: the row is revoked, then the token file removed.
Revoke ==
    /\ Trouble /\ account.status # "none"
    /\ \/ Account("revoked", FALSE)
       \/ ~Fenced /\ Account("revoked", account.token)    \* a crash between the two
    /\ UNCHANGED <<tombstone, draft, row, waiting, call, runOf, th, posted>>

\* The provider's data deletion: the token files, then one transaction.
Erase ==
    /\ Trouble /\ ~Fenced /\ account.status # "none"
    /\ \/ /\ Account("none", FALSE) /\ tombstone' = TRUE
          /\ draft' = [draft EXCEPT !.state = "none"]
          /\ row' = [o \in Operations |-> NoRow] /\ waiting' = <<>>
       \/ /\ Account(account.status, FALSE)               \* a crash between the two
          /\ UNCHANGED <<tombstone, draft, row, waiting>>
    /\ UNCHANGED <<call, runOf, th, posted>>

\* The owner's consent: the account, then the tombstone is lifted.
Connect ==
    /\ ~Fenced /\ (~Usable \/ tombstone)
    /\ Account("active", TRUE)
    /\ \/ tombstone' = FALSE /\ UNCHANGED troubles
       \/ UNCHANGED tombstone /\ Trouble                  \* a crash between the two
    /\ UNCHANGED <<draft, row, waiting, call, runOf, th, posted>>

DraftCreate ==
    /\ draft.state \in {"none", "cancelled"} /\ account.status = "active"
    /\ draft.revision < MaxRevision
    /\ draft' = [revision |-> draft.revision + 1, state |-> "draft"]
    /\ UNCHANGED <<account, tombstone, row, waiting, call, runOf, th, posted, troubles>>

\* A change of the draft: its checks ...
AuthorChecks ==
    /\ At(Author, {"idle"}) /\ draft.state \in {"draft", "approved"} /\ Trouble
    /\ ~\E i \in Items : Dispatched(i, draft.revision)
    /\ \E state \in {"draft", "approved", "cancelled"} :
         /\ state = "draft" => account.status = "active"
         /\ state = "approved" => draft.state = "draft"
         /\ th' = [th EXCEPT ![Author].pc = "replace",
                      ![Author].seen = [NoRow EXCEPT !.state = state, !.revision = draft.revision]]
    /\ UNCHANGED <<world, row, waiting, call, posted>>

\* ... and its write, refused when the revision has moved.
AuthorReplaces ==
    LET seen == th[Author].seen IN
    /\ At(Author, {"replace"}) /\ draft.revision < MaxRevision
    /\ draft' = IF draft.state # "none" /\ draft.revision = seen.revision
                THEN [revision |-> draft.revision + 1, state |-> seen.state] ELSE draft
    /\ th' = [th EXCEPT ![Author] = Idle]
    /\ UNCHANGED <<account, tombstone, row, waiting, call, runOf, posted, troubles>>

-----------------------------------------------------------------------------
(***************************************************************************)
(* Crashes and the specification                                           *)
(***************************************************************************)
\* The process stops: an adapter that was entered is not entered again.
Crash ==
    /\ Trouble
    /\ th' = [w \in Threads |-> Idle]
    /\ call' = [v \in Invocations |->
                  [call[v] EXCEPT !.state = IF @ = "executing" THEN "awaiting" ELSE @]]
    /\ UNCHANGED <<world, row, waiting, posted>>

Next ==
    \/ \E v \in Invocations : Approve(v) \/ Publish(v)
    \/ PollSteps
    \/ (\E o \in Operations : LookupAsks(o)) \/ Confirms(Lookup, "idle") \/ Misses(Lookup, "idle")
    \/ ProfileAsks \/ ProfileAnswered \/ Revoke \/ Erase \/ Connect
    \/ DraftCreate \/ AuthorChecks \/ AuthorReplaces
    \/ Crash

Spec == Init /\ [][Next]_vars

\* The worker polls every 30 seconds as long as the process lives, and the
\* provider shows a post at last if it is asked for it again and again.
Fairness ==
    /\ WF_vars(PollSteps)
    /\ SF_vars(PollConfirms)

FairSpec == Spec /\ Fairness

-----------------------------------------------------------------------------
(***************************************************************************)
(* Properties                                                              *)
(***************************************************************************)
Row == [state : {"none", "prepared", "publishing"} \cup Open \cup
                {"failed", "draft", "approved", "cancelled"},
        step : {"none", "create", "publish"}, id : BOOLEAN, revision : 0..MaxRevision]
Call == [state : {"none", "approved", "executing", "awaiting", "told"}, items : SUBSET Items,
         revision : 0..MaxRevision, result : {"succeeded", "failed", None}]
Thread == [pc : {"idle", "begin", "creating", "posting", "posted", "reading", "finish", "refused",
                 "list", "resolve", "mark", "asking", "replace"},
           op : Operations \cup {None}, left : SUBSET Items, todo : Seq(Operations), seen : Row]

TypeOK ==
    /\ account \in [status : {"none", "active", "reauth", "revoked"}, token : BOOLEAN]
    /\ tombstone \in BOOLEAN
    /\ draft \in [revision : 1..MaxRevision, state : {"none", "draft", "approved", "cancelled"}]
    /\ row \in [Operations -> Row]
    /\ waiting \in Seq(Operations)
    /\ call \in [Invocations -> Call]
    /\ runOf \in [Invocations -> Runs]
    /\ th \in [Threads -> Thread]
    /\ posted \in [Operations -> Nat]
    /\ troubles \in 0..MaxTroubles

(***************************************************************************)
(* An item of a draft revision becomes public at most once, whichever      *)
(* calls of whichever Runs name it, when an answer is lost, the process    *)
(* stops between two steps, or the account is erased and connected again.  *)
(***************************************************************************)
PostedOnce ==
    \A i \in Items :
        /\ \A v \in Invocations : posted[<<v, i>>] <= 1
        /\ \A u, v \in Invocations :
             u # v /\ posted[<<u, i>>] > 0 /\ posted[<<v, i>>] > 0
                => call[u].revision # call[v].revision

(***************************************************************************)
(* What the ledger and the Runs say agrees with what is public: a call     *)
(* that succeeded has all its items public, a failed row has none and a    *)
(* published row has one, and a public post whose row was not erased can   *)
(* be told from one that never happened: its row is uncertain, knows the   *)
(* post or was about to publish.                                           *)
(***************************************************************************)
ResultMatchesPosts ==
    /\ \A v \in Invocations :
         call[v].result = "succeeded" => \A i \in call[v].items : posted[<<v, i>>] = 1
    /\ \A o \in Operations :
         /\ row[o].state = "failed" => posted[o] = 0
         /\ row[o].state = "published" => posted[o] = 1
         /\ posted[o] > 0 /\ row[o].state # "none" =>
              row[o].state = "uncertain" \/ row[o].id \/ row[o].step = "publish"

(***************************************************************************)
(* Until the owner connects again, an erased connection has no publication *)
(* rows, whatever a reader that began before the erasure still writes.     *)
(***************************************************************************)
ErasedStaysErased ==
    tombstone => waiting = <<>> /\ \A o \in Operations : row[o].state = "none"

\* A call whose post is known and which the poll may settle.
Settleable(o) == call[o[1]].state = "awaiting" /\ Known(o)

\* A row that ends every poll: of an earlier call of a Run that awaits another.
\* With a third call behind it, of another Run, this keeps a known post waiting.
HeldUp == \E p \in Operations :
    row[p].state = "published" /\ call[p[1]].state = "told" /\ Awaits(runOf[p[1]])

(***************************************************************************)
(* A Run that awaits a call with a known post is told of it at last,       *)
(* unless the account is unusable, the row is erased, or a row of an       *)
(* earlier call of an awaiting Run ends every poll.                        *)
(***************************************************************************)
KnownPostsSettle ==
    \A o \in Operations : Settleable(o) ~> (~Settleable(o) \/ ~Usable \/ HeldUp)

=============================================================================
