---------------------------- MODULE KnowledgeWiki ----------------------------
(***************************************************************************)
(* Publication of wiki pages and memory documents, the dependencies        *)
(* between them, and their consolidation jobs.                             *)
(*                                                                         *)
(* A page holds one claim, a document one direct entry and one summary     *)
(* for each page whose claim it quotes.  A claim cites a revision of a     *)
(* document's direct entry, a summary the claim of a page revision.  The   *)
(* revisions of a page and of a document are numbered from 1; the last is  *)
(* the head.                                                               *)
(*                                                                         *)
(* An editor (a tool call, or the curation child) asks for a change built  *)
(* on what it read, ChangePublisher.publish plans it outside any           *)
(* transaction (derived invalidations, evidence), and commit_catalog then  *)
(* checks the heads and writes in one transaction: three steps of three    *)
(* actors.  Beside them runs one child of the job runner: consolidation    *)
(* and the refresh of summaries.                                           *)
(*                                                                         *)
(* Left out: expired and duplicate entries, redirects, skills, scopes and  *)
(* authority, page merges and splits, the view files of documents, erasure *)
(* (KnowledgeErase).                                                       *)
(***************************************************************************)
EXTENDS Naturals, Sequences, FiniteSets

CONSTANTS
    Docs, Pages,
    Cites,          \* the document whose direct entry a page's claim cites
    Editors,        \* tool calls and the curation child
    Curators,       \* those whose applied changes schedule a consolidation
    Changes,        \* bound: the kinds of change each editor asks for
    Texts,          \* texts of direct entries and of claims
    MaxDoc,         \* bound: revisions of a document
    MaxPage,        \* bound: revisions of a page
    MaxFaults       \* bound: crashes of the process and children that die

Gone == 0           \* the text of a claim its page no longer has
NoSummary == [state |-> "none", ref |-> 0]
Idle == [pc |-> "idle"]

ASSUME WikiAssumption ==
    /\ Cites \in [Pages -> Docs]
    /\ Curators \subseteq Editors
    /\ Changes \in [Editors -> SUBSET {"memory", "page"}]
    /\ Texts \subseteq Nat \ {Gone} /\ Texts # {}
    /\ MaxDoc \in Nat \ {0} /\ MaxPage \in Nat \ {0} /\ MaxFaults \in Nat

VARIABLES
    doc,        \* revisions of each document: text, summaries, body, writer
    page,       \* revisions of each page: the claim's text and what it cites
    inval,      \* evidence_dependency_invalidations: replaced direct entries
    fences,     \* claim_visibility_fences: page revisions whose claim is hidden
    ops,        \* operations: committed changes with the documents they marked
    ed,         \* what each editor is doing
    jobs,       \* memory jobs by unique key
    child,      \* the job runner's child
    faults

store == <<doc, page, inval, fences, ops>>
vars == <<doc, page, inval, fences, ops, ed, jobs, child, faults>>

HeadOf(d) == Len(doc[d])
PageHead(p) == Len(page[p])
DocsNow == [d \in Docs |-> HeadOf(d)]
PagesNow == [p \in Pages |-> PageHead(p)]
Claim(p, i) == page[p][i]
\* claim_locations keeps the last revision that had the claim as its current one.
Standing(pages, p) ==
    CHOOSE i \in DOMAIN pages[p] :
        /\ pages[p][i].text # Gone
        /\ \A k \in DOMAIN pages[p] : pages[p][k].text # Gone => k <= i
\* The claim a reader of the head sees: none when removed or fenced.
Visible(p) == Claim(p, PageHead(p)).text # Gone /\ <<p, PageHead(p)>> \notin fences
Resolves(p, i) == i = Standing(page, p) => <<p, i>> \notin fences
Quotes(rev) == {q \in Pages : rev.sums[q] # NoSummary}

-----------------------------------------------------------------------------
(* What a change needs when it is planned and when it is committed. A plan *)
(* has the change that was asked for, the document and page revisions it   *)
(* writes, each on the head it expects, and the entries it replaces.       *)

Supported(rev) == \A q \in Quotes(rev) : Resolves(q, rev.sums[q].ref)

\* Mutated form: the entries are compared by their text, not by their claim.
MarkedByText(rev, p, claim) ==
    [q \in Pages |->
        IF q \notin Quotes(rev) THEN NoSummary
        ELSE [rev.sums[q] EXCEPT !.state =
                IF q # p \/ claim.text = Gone THEN "restricted"
                ELSE IF Claim(p, rev.sums[q].ref).text # claim.text THEN "stale"
                ELSE "current"]]

\* invalidate_wiki_dependencies: every summary of a dependent document is
\* judged by the claims of this change alone.
Marked(rev, p, claim) ==
    [q \in Pages |->
        IF q \notin Quotes(rev) THEN NoSummary
        ELSE [rev.sums[q] EXCEPT !.state =
                IF q # p \/ claim.text = Gone THEN "restricted"
                ELSE IF Claim(p, rev.sums[q].ref) # claim THEN "stale"
                ELSE "current"]]

Derived(p, base, claim) ==
    LET before == Claim(p, base)
        affected == before.text # Gone /\ before # claim
        last(d) == doc[d][HeadOf(d)]
    IN  [d \in {x \in Docs : /\ affected /\ p \in Quotes(last(x))
                             /\ Marked(last(x), p, claim) # last(x).sums} |->
            [base |-> HeadOf(d),
             new |-> [last(d) EXCEPT !.sums = Marked(last(d), p, claim), !.by = "derived"]]]

PlanPage(r) ==
    [op |-> r, pages |-> [p \in {r.page} |-> [base |-> r.base, new |-> r.new]],
     docs |-> Derived(r.page, r.base, r.new), replaced |-> {}]

PlanMemory(op, d, base, new) ==
    [op |-> op, pages |-> <<>>, docs |-> [x \in {d} |-> [base |-> base, new |-> new]],
     replaced |-> IF new.text = doc[d][base].text THEN {} ELSE {<<d, base>>}]

EvidenceHolds(plan) == \A d \in DOMAIN plan.docs : Supported(plan.docs[d].new)

\* Mutated form: the heads of derived revisions are not asserted.
HeadsMovedAsked(plan) ==
    \/ plan.op.kind # "page" /\ \E d \in DOMAIN plan.docs : HeadOf(d) # plan.docs[d].base
    \/ \E p \in DOMAIN plan.pages : PageHead(p) # plan.pages[p].base

HeadsMoved(plan) ==
    \/ \E d \in DOMAIN plan.docs : HeadOf(d) # plan.docs[d].base
    \/ \E p \in DOMAIN plan.pages : PageHead(p) # plan.pages[p].base

\* Mutated form: only the operation's own invalidations are looked at.
FencedOwn(pages, replaced) ==
    {<<p, Standing(pages, p)>> : p \in
        {q \in Pages : <<Cites[q], pages[q][Standing(pages, q)].cite>> \in replaced \ inval}}

\* Fences are recomputed for every standing claim from every invalidation.
Fenced(pages, replaced) ==
    {<<p, Standing(pages, p)>> : p \in
        {q \in Pages : <<Cites[q], pages[q][Standing(pages, q)].cite>> \in replaced}}

Write(plan) ==
    LET added(f, writes) == [x \in DOMAIN f |->
            IF x \in DOMAIN writes THEN Append(f[x], writes[x].new) ELSE f[x]]
    IN  /\ doc' = added(doc, plan.docs)
        /\ page' = added(page, plan.pages)
        /\ inval' = inval \cup plan.replaced
        /\ fences' = fences \cup Fenced(page', inval')
        /\ ops' = [o \in DOMAIN ops \cup {plan.op} |-> IF o = plan.op THEN plan.docs ELSE ops[o]]

Fits(plan) ==       \* Bound: revisions.
    /\ \A d \in DOMAIN plan.docs : HeadOf(d) < MaxDoc
    /\ \A p \in DOMAIN plan.pages : PageHead(p) < MaxPage

\* commit_catalog: the answer, and whether anything is written.
Outcome(plan) ==
    IF plan.op \in DOMAIN ops
    THEN IF ops[plan.op] = plan.docs THEN "replayed" ELSE "idempotency_conflict"
    ELSE IF HeadsMoved(plan) THEN "head_conflict" ELSE "applied"

-----------------------------------------------------------------------------
(* Editors. *)

Ask(e, r) ==
    /\ ed[e].pc = "idle" /\ r.kind \in Changes[e]
    /\ ed' = [ed EXCEPT ![e] = [pc |-> "asked", change |-> r, read |-> PagesNow]]
    /\ UNCHANGED <<store, jobs, child, faults>>

\* A memory edit changes the direct entry, quotes the claim it sees, or drops
\* a quote; what it leaves alone it carries over from the revision it read.
Edited(d, t, p, quote) ==
    LET last == doc[d][HeadOf(d)]
        sum == CASE quote = "keep" -> last.sums[p]
                 [] quote = "take" -> [state |-> "current", ref |-> PageHead(p)]
                 [] quote = "drop" -> NoSummary
    IN  [text |-> t, sums |-> [last.sums EXCEPT ![p] = sum],
         body |-> HeadOf(d) + 1, by |-> "edit"]

AskMemory(e) == \E d \in Docs, t \in Texts, p \in Pages, quote \in {"keep", "take", "drop"} :
    LET last == doc[d][HeadOf(d)]
        new == Edited(d, t, p, quote)
    IN  /\ HeadOf(d) < MaxDoc                               \* Bound
        /\ quote = "take" => Visible(p)
        /\ <<t, new.sums>> # <<last.text, last.sums>>
        /\ Ask(e, [kind |-> "memory", by |-> e, doc |-> d, base |-> HeadOf(d), new |-> new])

AskPage(e) == \E p \in Pages, t \in Texts \cup {Gone}, r \in 1 .. MaxDoc :
    LET last == Claim(p, PageHead(p))
        new == [text |-> t, cite |-> r]
    IN  /\ PageHead(p) < MaxPage                            \* Bound
        /\ r \in {last.cite, HeadOf(Cites[p])}
        /\ new # last /\ (t = Gone => r = last.cite /\ last.text # Gone)
        /\ Ask(e, [kind |-> "page", by |-> e, page |-> p, base |-> PageHead(p), new |-> new])

PlanOf(r) == IF r.kind = "page" THEN PlanPage(r) ELSE PlanMemory(r, r.doc, r.base, r.new)

Answer(e, code) ==
    ed' = [ed EXCEPT ![e] = [pc |-> "answered", change |-> ed[e].change,
                              read |-> ed[e].read, code |-> code]]

Plan(e) ==
    /\ ed[e].pc = "asked"
    /\ LET plan == PlanOf(ed[e].change) IN
        IF EvidenceHolds(plan)
        THEN ed' = [ed EXCEPT ![e] = [pc |-> "planned", change |-> ed[e].change,
                                      read |-> ed[e].read, plan |-> plan, saw |-> DocsNow]]
        ELSE Answer(e, "evidence_missing")
    /\ UNCHANGED <<store, jobs, child, faults>>

Commit(e) ==
    /\ ed[e].pc = "planned"
    /\ LET plan == ed[e].plan
           code == Outcome(plan)
       IN  /\ Answer(e, code)
           /\ IF code = "applied" THEN Fits(plan) /\ Write(plan) ELSE UNCHANGED store
    /\ UNCHANGED <<jobs, child, faults>>

\* put_job under its unique key: a key that exists, in whatever state, is kept.
WithJobs(table, keys) ==
    [k \in DOMAIN table \cup keys |-> IF k \in DOMAIN table THEN table[k] ELSE "queued"]
ConsolidateKey == <<"consolidate", DocsNow>>

Receive(e) ==
    /\ ed[e].pc = "answered"
    /\ ed' = [ed EXCEPT ![e] = Idle]
    /\ IF e \in Curators /\ ed[e].code = "applied" THEN jobs' = WithJobs(jobs, {ConsolidateKey})
       ELSE UNCHANGED jobs
    /\ UNCHANGED <<store, child, faults>>

-----------------------------------------------------------------------------
(* The job child: consolidate, refresh a summary. *)

EndJob(state) == jobs' = [jobs EXCEPT ![child.key] = state] /\ child' = Idle

StartJob == \E k \in DOMAIN jobs :
    /\ child = Idle /\ jobs[k] = "queued"
    /\ jobs' = [jobs EXCEPT ![k] = "running"]
    /\ child' = [pc |-> k[1], key |-> k]
    /\ UNCHANGED <<store, ed, faults>>

\* Mutated form: one refresh for each document.
SummaryKeyOnce(d, r) == <<"summary", d, 1>>

SummaryKey(d, r) == <<"summary", d, r>>

\* Nothing expires or repeats here: each head gets its summary job.
ReadHeads ==
    /\ child.pc = "consolidate"
    /\ child' = [pc |-> "descend", key |-> child.key, heads |-> DocsNow]
    /\ UNCHANGED <<store, ed, jobs, faults>>

Descend ==
    /\ child.pc = "descend"
    /\ jobs' = WithJobs([jobs EXCEPT ![child.key] = "completed"],
                        {SummaryKey(d, child.heads[d]) : d \in Docs})
    /\ child' = Idle
    /\ UNCHANGED <<store, ed, faults>>

Refreshed(sums) == [q \in Pages |->
    IF sums[q] = NoSummary THEN NoSummary
    ELSE IF ~Visible(q) THEN [sums[q] EXCEPT !.state = "restricted"]
    ELSE IF Claim(q, sums[q].ref) = Claim(q, PageHead(q))
    THEN [sums[q] EXCEPT !.state = "current"]
    ELSE [state |-> "current", ref |-> PageHead(q)]]

RefreshPlan(d, r) ==
    PlanMemory([kind |-> "refresh", doc |-> d, base |-> r], d, r,
               [doc[d][r] EXCEPT !.sums = Refreshed(@), !.by = "refresh"])

\* _refresh_summary up to the commit: superseded, nothing to change, evidence
\* that no longer resolves, or a revision planned from the pages read here.
ReadSummary ==
    /\ child.pc = "summary"
    /\ LET d == child.key[2]
           r == child.key[3]
           plan == RefreshPlan(d, r)
       IN  IF r # HeadOf(d) THEN EndJob("completed")
           ELSE IF Refreshed(doc[d][r].sums) = doc[d][r].sums
           THEN child' = [pc |-> "done", key |-> child.key] /\ UNCHANGED jobs
           ELSE IF ~EvidenceHolds(plan) THEN EndJob("failed")
           ELSE /\ child' = [pc |-> "publish", key |-> child.key, plan |-> plan,
                             saw |-> PagesNow]
                /\ UNCHANGED jobs
    /\ UNCHANGED <<store, ed, faults>>

PublishSummary ==
    /\ child.pc = "publish"
    /\ IF Outcome(child.plan) = "applied"
       THEN /\ Fits(child.plan) /\ Write(child.plan)
            /\ child' = [pc |-> "done", key |-> child.key]
            /\ UNCHANGED jobs
       ELSE EndJob("failed") /\ UNCHANGED store
    /\ UNCHANGED <<ed, faults>>

\* The descendant view job and its file are left out.
FinishSummary ==
    /\ child.pc = "done"
    /\ EndJob("completed")
    /\ UNCHANGED <<store, ed, faults>>

-----------------------------------------------------------------------------
(* Faults. *)

\* The child ends without a result: its job fails.
ChildDies ==
    /\ child # Idle /\ faults < MaxFaults                   \* Bound
    /\ EndJob("failed")
    /\ faults' = faults + 1
    /\ UNCHANGED <<store, ed>>

\* A crash of the process: a running job stays so, and the Run of a tool call may
\* dispatch the same change again.
Crash == \E again \in SUBSET Editors :
    /\ faults < MaxFaults                                 \* Bound
    /\ faults' = faults + 1
    /\ \A e \in again : ed[e].pc \in {"planned", "answered"}
    /\ ed' = [e \in Editors |-> IF e \in again
                                THEN [pc |-> "asked", change |-> ed[e].change, read |-> ed[e].read]
                                ELSE Idle]
    /\ child' = Idle
    /\ UNCHANGED <<store, jobs>>

-----------------------------------------------------------------------------
FirstDoc == [text |-> 1, sums |-> [p \in Pages |-> [state |-> "current", ref |-> 1]],
             body |-> 1, by |-> "edit"]

\* Each page's claim cites the first revision of its document, each document
\* quotes every claim.
Init ==
    /\ doc = [d \in Docs |-> <<FirstDoc>>]
    /\ page = [p \in Pages |-> <<[text |-> 1, cite |-> 1]>>]
    /\ inval = {} /\ fences = {} /\ ops = <<>>
    /\ ed = [e \in Editors |-> Idle]
    /\ jobs = <<>> /\ child = Idle
    /\ faults = 0

Editor(e) == AskMemory(e) \/ AskPage(e) \/ Plan(e) \/ Commit(e) \/ Receive(e)
Child == \/ StartJob \/ ReadHeads \/ Descend
         \/ ReadSummary \/ PublishSummary \/ FinishSummary

Next ==
    \/ \E e \in Editors : Editor(e)
    \/ Child \/ ChildDies \/ Crash

Spec == Init /\ [][Next]_vars

\* The knowledge thread ticks the job runner, and the child process runs.
\* Nothing is assumed of editors.
FairSpec == Spec /\ WF_vars(Child)

-----------------------------------------------------------------------------
(* Properties. *)

\* An edit of a direct entry survives: whatever marks or refreshes summaries
\* later, planned from whichever revision, leaves its text and body as they
\* were.
EditsKept == \A d \in Docs : \A r \in 2 .. HeadOf(d) :
    doc[d][r].by # "edit" =>
        /\ doc[d][r].text = doc[d][r - 1].text
        /\ doc[d][r].body = doc[d][r - 1].body

\* A standing claim whose evidence the next revision of the document replaced
\* is hidden, also when the page was committed after the replacement.
ReplacedFenced == \A p \in Pages :
    LET i == Standing(page, p)
        r == Claim(p, i).cite
        d == Cites[p]
    IN  (r < HeadOf(d) /\ doc[d][r + 1].text # doc[d][r].text) => <<p, i>> \in fences

\* A summary that quotes the page as it was and says so as current.
Outdated(d, p) ==
    LET s == doc[d][HeadOf(d)].sums[p]
    IN  s.state = "current" /\ Claim(p, s.ref) # Claim(p, PageHead(p))

\* The publication of this step began before the other side changed.
Raced(d, p) ==
    \/ \E e \in Editors :
        /\ ed[e].pc = "planned" /\ ed'[e].pc = "answered"
        /\ IF ed[e].change.kind = "page" THEN ed[e].saw[d] # HeadOf(d)
           ELSE ed[e].read[p] # PageHead(p)
    \/ child.pc = "publish" /\ child' # child /\ child.saw[p] # PageHead(p)

\* Only two publications that overlap leave an outdated summary unmarked: a
\* page change marks every summary its publisher could see, and a document
\* change carries no mark away.
SummariesMarked ==
    [][\A d \in Docs, p \in Pages : Outdated(d, p)' /\ ~Outdated(d, p) => Raced(d, p)]_vars

Scheduled(d, r) == \E k \in DOMAIN jobs :
    /\ jobs[k] = "queued"
    /\ k = SummaryKey(d, r) \/ (k[1] = "consolidate" /\ k[2][d] = r)
StaleAt(d, r) == HeadOf(d) = r /\ \E p \in Pages : doc[d][r].sums[p].state = "stale"

\* Consolidation scheduled for a head with a stale summary ends with another
\* head, unless evidence was fenced or a process died meanwhile.
StaleRefreshed == \A d \in Docs : \A r \in 1 .. MaxDoc - 1 :
    (StaleAt(d, r) /\ Scheduled(d, r))
        ~> (HeadOf(d) > r \/ fences # {} \/ faults > 0)

=============================================================================
