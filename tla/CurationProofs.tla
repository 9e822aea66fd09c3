---------------------------- MODULE CurationProofs ---------------------------
(***************************************************************************)
(* The two components that curation joins, proved one after the other.     *)
(*                                                                         *)
(* KnowledgeWiki, what curation publishes, for every number of documents,  *)
(* pages, editors, revisions and faults: its type invariant, that no edit  *)
(* of a direct entry is lost, that a claim whose evidence was replaced is  *)
(* hidden, and that only overlapping publications leave an outdated        *)
(* summary unmarked.                                                       *)
(*                                                                         *)
(* KnowledgeLearning, the jobs and batches that curation comes from (the   *)
(* instance L), for every set of events, edits and receipts, every         *)
(* threshold, batch size and number of faults: its type invariant, that an *)
(* event is in one live batch, that the counter covers what waits for a    *)
(* review, and that what was decided stays decided.                        *)
(***************************************************************************)
EXTENDS KnowledgeWiki, LearningCatalog, Integers, WellFoundedInduction,
        FiniteSetTheorems, TLAPS

-----------------------------------------------------------------------------
(* The inductive invariant. *)

Summary == [state : {"none", "current", "stale", "restricted"}, ref : Nat]
DocRev  == [text : Nat, sums : [Pages -> Summary], body : Nat, by : {"edit", "derived", "refresh"}]
PageRev == [text : Nat, cite : Nat \ {0}]

\* Documents and pages have revisions, and a page's first had a claim.
TypeOK ==
    /\ doc \in [Docs -> Seq(DocRev)]
    /\ page \in [Pages -> Seq(PageRev)]
    /\ \A d \in Docs : HeadOf(d) \in Nat \ {0}
    /\ \A p \in Pages : PageHead(p) \in Nat \ {0} /\ Claim(p, 1).text # Gone

\* A summary quotes a claim that some revision of its page had.
Refers(rev) == \A p \in Pages : rev.sums[p] # NoSummary =>
    rev.sums[p].ref \in 1..PageHead(p) /\ Claim(p, rev.sums[p].ref).text # Gone
Quoted == \A d \in Docs : \A i \in 1..HeadOf(d) : Refers(doc[d][i])

\* Every replaced direct entry is an invalidation, and every claim that cites
\* one is hidden.
Replaced == \A d \in Docs : \A i \in 1..(HeadOf(d) - 1) :
    doc[d][i + 1].text # doc[d][i].text => <<d, i>> \in inval
Covered == Fenced(page, inval) \subseteq fences

Store == TypeOK /\ Quoted /\ EditsKept /\ Replaced /\ Covered

\* A planned revision of d, on the head it expects.
DocWrite(d, w, replaced) ==
    /\ w.base \in 1..HeadOf(d) /\ w.new \in DocRev /\ Refers(w.new)
    /\ w.new.by # "edit" => w.new.text = doc[d][w.base].text /\ w.new.body = doc[d][w.base].body
    /\ w.new.text # doc[d][w.base].text => <<d, w.base>> \in replaced

PageWrite(p, w) == w.base \in 1..PageHead(p) /\ w.new \in PageRev

Planned(plan) ==
    /\ DOMAIN plan.docs \subseteq Docs /\ DOMAIN plan.pages \subseteq Pages
    /\ \A d \in DOMAIN plan.docs : DocWrite(d, plan.docs[d], plan.replaced)
    /\ \A p \in DOMAIN plan.pages : PageWrite(p, plan.pages[p])

\* What was asked for.
Request(r) ==
    \/ /\ r.kind = "memory"
       /\ r.doc \in Docs /\ r.base \in 1..HeadOf(r.doc) /\ r.new \in DocRev
       /\ Refers(r.new) /\ r.new.by = "edit"
    \/ /\ r.kind = "page"
       /\ r.page \in Pages /\ PageWrite(r.page, r) /\ r.new # Claim(r.page, r.base)

\* The summaries sums of a revision of d made from its revision base: what was
\* current there and was not carried over is the claim seen at the time.
Carries(sums, d, base, seen) == \A p \in Pages :
    \/ sums[p] = doc[d][base].sums[p]
    \/ sums[p].state # "current"
    \/ Claim(p, sums[p].ref) = Claim(p, seen[p])

\* Revisions that were seen are there.
SeenPages(seen) == \A p \in Pages : seen[p] \in 1..PageHead(p)
SeenDocs(seen) == \A d \in Docs : seen[d] \in 1..HeadOf(d)

\* The plan of a new claim of page p: in a document that has not moved since,
\* what stays current quotes this claim, and what is not in the plan was
\* outdated already.
Marks(plan, p, base, claim, saw) == \A d \in Docs : saw[d] = HeadOf(d) =>
    IF d \in DOMAIN plan.docs
    THEN \A q \in Pages : plan.docs[d].new.sums[q].state = "current" =>
             q = p /\ Claim(p, plan.docs[d].new.sums[q].ref) = claim
    ELSE LET s == doc[d][HeadOf(d)].sums[p] IN
         s.state = "current" => Claim(p, s.ref) = claim \/ Claim(p, s.ref) # Claim(p, base)

\* What an editor's step relies on.
Editing(t) ==
    /\ t.pc \in {"idle", "asked", "planned", "answered"}
    /\ t.pc # "idle" =>
        /\ Request(t.change) /\ SeenPages(t.read)
        /\ t.change.kind = "memory" =>
             Carries(t.change.new.sums, t.change.doc, t.change.base, t.read)
    /\ t.pc = "planned" =>
        /\ Planned(t.plan) /\ SeenDocs(t.saw)
        /\ t.change.kind = "memory" =>
             /\ DOMAIN t.plan.docs = {t.change.doc} /\ DOMAIN t.plan.pages = {}
             /\ t.plan.docs[t.change.doc].base = t.change.base
             /\ t.plan.docs[t.change.doc].new = t.change.new
        /\ t.change.kind = "page" =>
             /\ DOMAIN t.plan.pages = {t.change.page}
             /\ t.plan.pages[t.change.page].base = t.change.base
             /\ t.plan.pages[t.change.page].new = t.change.new
             /\ Marks(t.plan, t.change.page, t.change.base, t.change.new, t.saw)

\* What the job child's step relies on.
Working(t) ==
    /\ t.pc \in {"idle", "consolidate", "descend", "summary", "publish", "done"}
    /\ t.pc = "summary" => t.key[2] \in Docs
    /\ t.pc = "publish" =>
        /\ Planned(t.plan) /\ SeenPages(t.saw)
        /\ DOMAIN t.plan.docs = {t.key[2]} /\ DOMAIN t.plan.pages = {}
        /\ Carries(t.plan.docs[t.key[2]].new.sums, t.key[2], t.plan.docs[t.key[2]].base, t.saw)

\* The jobs that are queued.
Keyed == \A k \in DOMAIN jobs :
    k[1] = "consolidate" \/ (k[1] = "summary" /\ k[2] \in Docs)

Editings == \A e \in Editors : Editing(ed[e])

IInv == Store /\ Editings /\ Working(child) /\ Keyed /\ DOMAIN ed = Editors

-----------------------------------------------------------------------------
(* Revisions are only added. *)

Grown ==
    /\ \A d \in Docs : /\ HeadOf(d) <= HeadOf(d)'
                       /\ \A i \in 1..HeadOf(d) : doc'[d][i] = doc[d][i]
    /\ \A p \in Pages : /\ PageHead(p) <= PageHead(p)'
                        /\ \A i \in 1..PageHead(p) : Claim(p, i)' = Claim(p, i)

\* The heads are numbers, now and then.
Heads ==
    /\ \A d \in Docs : HeadOf(d) \in Nat \ {0} /\ HeadOf(d)' \in Nat \ {0}
    /\ \A p \in Pages : PageHead(p) \in Nat \ {0} /\ PageHead(p)' \in Nat \ {0}

LEMMA HeadsTyped == ASSUME TypeOK, TypeOK' PROVE Heads
BY DEF TypeOK, Heads

LEMMA RefersStable == ASSUME Heads, Grown, NEW rev, Refers(rev) PROVE Refers(rev)'
<1>1. ASSUME NEW p \in Pages, rev.sums[p] # NoSummary
      PROVE  /\ rev.sums[p].ref \in 1..PageHead(p)'
             /\ Claim(p, rev.sums[p].ref)'.text # Gone
  <2>1. rev.sums[p].ref \in 1..PageHead(p) /\ Claim(p, rev.sums[p].ref).text # Gone
    BY <1>1 DEF Refers
  <2>2. Claim(p, rev.sums[p].ref)' = Claim(p, rev.sums[p].ref)
    BY <2>1 DEF Grown
  <2>3. /\ PageHead(p) \in Nat /\ PageHead(p)' \in Nat /\ PageHead(p) <= PageHead(p)'
    BY DEF Grown, Heads
  <2> QED
    BY <2>1, <2>2, <2>3
<1> QED
  BY <1>1 DEF Refers

LEMMA DocWriteStable ==
    ASSUME Heads, Grown, NEW d \in Docs, NEW w, NEW replaced, DocWrite(d, w, replaced)
    PROVE  DocWrite(d, w, replaced)'
<1>1. w.base \in 1..HeadOf(d) /\ Refers(w.new)'
  BY RefersStable DEF DocWrite
<1>2. doc'[d][w.base] = doc[d][w.base] /\ w.base \in 1..HeadOf(d)'
  BY <1>1 DEF Grown, Heads
<1> QED
  BY <1>1, <1>2 DEF DocWrite

LEMMA PageWriteStable ==
    ASSUME Heads, Grown, NEW p \in Pages, NEW w, PageWrite(p, w) PROVE PageWrite(p, w)'
BY DEF Heads, Grown, PageWrite

LEMMA PlannedStable == ASSUME Heads, Grown, NEW plan, Planned(plan) PROVE Planned(plan)'
<1>1. \A d \in DOMAIN plan.docs : DocWrite(d, plan.docs[d], plan.replaced)'
  BY DocWriteStable DEF Planned
<1>2. \A p \in DOMAIN plan.pages : PageWrite(p, plan.pages[p])'
  BY PageWriteStable DEF Planned
<1> QED
  BY <1>1, <1>2 DEF Planned

LEMMA RequestStable == ASSUME Heads, Grown, NEW r, Request(r) PROVE Request(r)'
<1>1. CASE r.kind = "memory"
  <2>1. /\ r.doc \in Docs /\ r.base \in 1..HeadOf(r.doc) /\ r.new \in DocRev
        /\ Refers(r.new)' /\ r.new.by = "edit"
    BY <1>1, RefersStable DEF Request
  <2>2. r.base \in 1..HeadOf(r.doc)'
    BY <2>1 DEF Heads, Grown
  <2> QED
    BY <1>1, <2>1, <2>2 DEF Request
<1>2. CASE r.kind = "page"
  <2>1. r.page \in Pages /\ PageWrite(r.page, r) /\ r.new # Claim(r.page, r.base)
    BY <1>2 DEF Request
  <2>2. PageWrite(r.page, r)' /\ Claim(r.page, r.base)' = Claim(r.page, r.base)
    BY <2>1, PageWriteStable DEF PageWrite, Grown
  <2> QED
    BY <1>2, <2>1, <2>2 DEF Request
<1> QED
  BY <1>1, <1>2 DEF Request

LEMMA SeenStable ==
    ASSUME Heads, Grown, NEW seen
    PROVE  (SeenPages(seen) => SeenPages(seen)') /\ (SeenDocs(seen) => SeenDocs(seen)')
BY DEF Heads, Grown, SeenPages, SeenDocs

\* What a revision carries over, and what it takes from the pages seen.
LEMMA CarriesStable ==
    ASSUME Heads, Grown, NEW d \in Docs, NEW w \in DocRev, Refers(w), NEW base \in 1..HeadOf(d),
           NEW seen, SeenPages(seen), Carries(w.sums, d, base, seen)
    PROVE  Carries(w.sums, d, base, seen)'
<1>1. doc'[d][base] = doc[d][base]
  BY DEF Grown
<1>2. ASSUME NEW p \in Pages, w.sums[p] # doc[d][base].sums[p], w.sums[p].state = "current"
      PROVE  Claim(p, w.sums[p].ref)' = Claim(p, seen[p])'
  <2>1. w.sums[p] # NoSummary
    BY <1>2 DEF NoSummary
  <2>2. w.sums[p].ref \in 1..PageHead(p) /\ seen[p] \in 1..PageHead(p)
    BY <2>1 DEF Refers, SeenPages
  <2>3. Claim(p, w.sums[p].ref) = Claim(p, seen[p])
    BY <1>2 DEF Carries
  <2> QED
    BY <2>2, <2>3 DEF Grown
<1> QED
  BY <1>1, <1>2 DEF Carries

LEMMA MarksStable ==
    ASSUME Heads, Grown, Quoted, NEW plan, Planned(plan), NEW p \in Pages, NEW base \in 1..PageHead(p),
           NEW claim, NEW saw, SeenDocs(saw), Marks(plan, p, base, claim, saw)
    PROVE  Marks(plan, p, base, claim, saw)'
<1>1. ASSUME NEW d \in Docs, saw[d] = HeadOf(d)'
      PROVE  saw[d] = HeadOf(d) /\ HeadOf(d)' = HeadOf(d) /\ doc'[d][HeadOf(d)] = doc[d][HeadOf(d)]
  BY <1>1 DEF Heads, Grown, SeenDocs
<1>2. ASSUME NEW d \in Docs, saw[d] = HeadOf(d)', d \in DOMAIN plan.docs, NEW q \in Pages,
             plan.docs[d].new.sums[q].state = "current"
      PROVE  q = p /\ Claim(p, plan.docs[d].new.sums[q].ref)' = claim
  <2>1. q = p /\ Claim(p, plan.docs[d].new.sums[q].ref) = claim
    BY <1>1, <1>2 DEF Marks
  <2>2. plan.docs[d].new.sums[q] # NoSummary
    BY <1>2 DEF NoSummary
  <2>3. Refers(plan.docs[d].new)
    BY <1>2 DEF Planned, DocWrite
  <2>4. plan.docs[d].new.sums[p].ref \in 1..PageHead(p)
    BY <2>1, <2>2, <2>3 DEF Refers
  <2> QED
    BY <2>1, <2>4 DEF Grown
<1>3. ASSUME NEW d \in Docs, saw[d] = HeadOf(d)', d \notin DOMAIN plan.docs, NEW s,
             s = doc'[d][HeadOf(d)'].sums[p], s.state = "current"
      PROVE  Claim(p, s.ref)' = claim \/ Claim(p, s.ref)' # Claim(p, base)'
  <2>1. s = doc[d][HeadOf(d)].sums[p]
    BY <1>1, <1>3
  <2>2. Claim(p, s.ref) = claim \/ Claim(p, s.ref) # Claim(p, base)
    BY <1>1, <1>3, <2>1 DEF Marks
  <2>3. Refers(doc[d][HeadOf(d)]) /\ s # NoSummary
    BY <1>3 DEF Quoted, Heads, NoSummary
  <2>4. s.ref \in 1..PageHead(p)
    BY <2>1, <2>3 DEF Refers
  <2>5. Claim(p, s.ref)' = Claim(p, s.ref) /\ Claim(p, base)' = Claim(p, base)
    BY <2>4 DEF Grown
  <2> QED
    BY <2>2, <2>5
<1> QED
  BY <1>2, <1>3 DEF Marks

LEMMA EditingStable == ASSUME Heads, Grown, Quoted, NEW t, Editing(t) PROVE Editing(t)'
<1>1. ASSUME t.pc # "idle"
      PROVE  /\ Request(t.change)' /\ SeenPages(t.read)'
             /\ t.change.kind = "memory" =>
                  Carries(t.change.new.sums, t.change.doc, t.change.base, t.read)'
  <2>1. Request(t.change)' /\ SeenPages(t.read)'
    BY <1>1, RequestStable, SeenStable DEF Editing
  <2>2. ASSUME t.change.kind = "memory"
        PROVE  Carries(t.change.new.sums, t.change.doc, t.change.base, t.read)'
    <3>1. /\ t.change.doc \in Docs /\ t.change.new \in DocRev /\ Refers(t.change.new)
          /\ t.change.base \in 1..HeadOf(t.change.doc) /\ SeenPages(t.read)
          /\ Carries(t.change.new.sums, t.change.doc, t.change.base, t.read)
      BY <1>1, <2>2 DEF Editing, Request
    <3> QED
      BY <3>1, CarriesStable
  <2> QED
    BY <2>1, <2>2
<1>2. ASSUME t.pc = "planned" PROVE Planned(t.plan)' /\ SeenDocs(t.saw)'
  BY <1>2, PlannedStable, SeenStable DEF Editing
<1>3. ASSUME t.pc = "planned", t.change.kind = "page"
      PROVE  Marks(t.plan, t.change.page, t.change.base, t.change.new, t.saw)'
  <2>1. /\ Planned(t.plan) /\ SeenDocs(t.saw) /\ t.change.page \in Pages
        /\ t.change.base \in 1..PageHead(t.change.page)
        /\ Marks(t.plan, t.change.page, t.change.base, t.change.new, t.saw)
    BY <1>3 DEF Editing, Request, PageWrite
  <2> QED
    BY <2>1, MarksStable
<1> QED
  BY <1>1, <1>2, <1>3 DEF Editing

LEMMA WorkingStable == ASSUME Heads, Grown, NEW t, Working(t) PROVE Working(t)'
<1>1. ASSUME t.pc = "publish"
      PROVE  /\ Planned(t.plan)' /\ SeenPages(t.saw)'
             /\ Carries(t.plan.docs[t.key[2]].new.sums, t.key[2], t.plan.docs[t.key[2]].base, t.saw)'
  <2> DEFINE d == t.key[2]
             w == t.plan.docs[d]
  <2>1. /\ Planned(t.plan) /\ SeenPages(t.saw) /\ d \in DOMAIN t.plan.docs
        /\ Carries(w.new.sums, d, w.base, t.saw)
    BY <1>1 DEF Working
  <2>2. d \in Docs /\ DocWrite(d, w, t.plan.replaced)
    BY <2>1 DEF Planned
  <2>3. w.new \in DocRev /\ Refers(w.new) /\ w.base \in 1..HeadOf(d)
    BY <2>2 DEF DocWrite
  <2>4. Planned(t.plan)' /\ SeenPages(t.saw)'
    BY <2>1, PlannedStable, SeenStable
  <2> HIDE DEF d, w
  <2>5. Carries(w.new.sums, d, w.base, t.saw)'
    BY <2>1, <2>2, <2>3, CarriesStable
  <2> QED
    BY <2>4, <2>5 DEF d, w
<1> QED
  BY <1>1 DEF Working

-----------------------------------------------------------------------------
(* A commit. *)

LEMMA Appended ==
    ASSUME NEW S, NEW s \in Seq(S), NEW x \in S, NEW u, u = Append(s, x)
    PROVE  /\ u \in Seq(S) /\ Len(u) = Len(s) + 1 /\ u[Len(s) + 1] = x
           /\ \A i \in 1..Len(s) : u[i] = s[i]
OBVIOUS

LEMMA WriteKeeps ==
    ASSUME Store, NEW plan, Planned(plan), ~HeadsMoved(plan), Write(plan)
    PROVE  /\ Store' /\ Heads /\ Grown
           /\ \A d \in Docs : IF d \in DOMAIN plan.docs
                THEN HeadOf(d)' = HeadOf(d) + 1 /\ doc'[d][HeadOf(d)'] = plan.docs[d].new
                ELSE doc'[d] = doc[d]
           /\ \A p \in Pages : IF p \in DOMAIN plan.pages
                THEN PageHead(p)' = PageHead(p) + 1 /\ Claim(p, PageHead(p))' = plan.pages[p].new
                ELSE page'[p] = page[p]
<1>1. /\ doc \in [Docs -> Seq(DocRev)] /\ page \in [Pages -> Seq(PageRev)]
      /\ \A d \in Docs : HeadOf(d) \in Nat \ {0}
      /\ \A p \in Pages : PageHead(p) \in Nat \ {0} /\ Claim(p, 1).text # Gone
  BY DEF Store, TypeOK
<1>2. ASSUME NEW d \in Docs
      PROVE  IF d \in DOMAIN plan.docs
             THEN doc'[d] = Append(doc[d], plan.docs[d].new) /\ plan.docs[d].base = HeadOf(d)
             ELSE doc'[d] = doc[d]
  BY <1>1 DEF Write, HeadsMoved
<1>3. ASSUME NEW p \in Pages
      PROVE  IF p \in DOMAIN plan.pages
             THEN page'[p] = Append(page[p], plan.pages[p].new) /\ plan.pages[p].base = PageHead(p)
             ELSE page'[p] = page[p]
  BY <1>1 DEF Write, HeadsMoved
<1>4. ASSUME NEW d \in Docs
      PROVE  /\ doc'[d] \in Seq(DocRev) /\ HeadOf(d)' \in Nat \ {0} /\ HeadOf(d) <= HeadOf(d)'
             /\ \A i \in 1..HeadOf(d) : doc'[d][i] = doc[d][i]
             /\ d \in DOMAIN plan.docs =>
                  HeadOf(d)' = HeadOf(d) + 1 /\ doc'[d][HeadOf(d) + 1] = plan.docs[d].new
  <2>1. CASE d \in DOMAIN plan.docs
    <3>1. plan.docs[d].new \in DocRev /\ doc[d] \in Seq(DocRev)
      BY <1>1, <2>1 DEF Planned, DocWrite
    <3> QED
      BY <1>1, <1>2, <2>1, <3>1, Appended DEF HeadOf
  <2>2. CASE d \notin DOMAIN plan.docs
    BY <1>1, <1>2, <2>2 DEF HeadOf
  <2> QED
    BY <2>1, <2>2
<1>5. ASSUME NEW p \in Pages
      PROVE  /\ page'[p] \in Seq(PageRev) /\ PageHead(p)' \in Nat \ {0} /\ PageHead(p) <= PageHead(p)'
             /\ \A i \in 1..PageHead(p) : page'[p][i] = page[p][i]
             /\ p \in DOMAIN plan.pages =>
                  PageHead(p)' = PageHead(p) + 1 /\ page'[p][PageHead(p) + 1] = plan.pages[p].new
  <2>1. CASE p \in DOMAIN plan.pages
    <3>1. plan.pages[p].new \in PageRev /\ page[p] \in Seq(PageRev)
      BY <1>1, <2>1 DEF Planned, PageWrite
    <3> QED
      BY <1>1, <1>3, <2>1, <3>1, Appended DEF PageHead
  <2>2. CASE p \notin DOMAIN plan.pages
    BY <1>1, <1>3, <2>2 DEF PageHead
  <2> QED
    BY <2>1, <2>2
<1>6. Heads /\ Grown
  BY <1>1, <1>4, <1>5 DEF Heads, Grown, Claim
<1>7. TypeOK'
  <2>1. doc' \in [Docs -> Seq(DocRev)]
    BY <1>1, <1>4 DEF Write
  <2>2. page' \in [Pages -> Seq(PageRev)]
    BY <1>1, <1>5 DEF Write
  <2>3. \A p \in Pages : Claim(p, 1)'.text # Gone
    BY <1>1, <1>5 DEF Claim
  <2> QED
    BY <1>4, <1>5, <2>1, <2>2, <2>3 DEF TypeOK
<1>8. Quoted'
  <2>1. ASSUME NEW d \in Docs, NEW i \in 1..HeadOf(d)', NEW rev, rev = doc'[d][i]
        PROVE  Refers(rev)'
    <3>1. CASE i \in 1..HeadOf(d)
      <4>1. Refers(rev)
        BY <1>4, <2>1, <3>1 DEF Store, Quoted
      <4> QED
        BY <1>6, <4>1, RefersStable
    <3>2. CASE i \notin 1..HeadOf(d)
      <4>1. d \in DOMAIN plan.docs /\ i = HeadOf(d) + 1
        BY <1>1, <1>2, <1>4, <3>2 DEF HeadOf
      <4>2. Refers(rev)
        BY <1>4, <2>1, <4>1 DEF Planned, DocWrite
      <4> QED
        BY <1>6, <4>2, RefersStable
    <3> QED
      BY <3>1, <3>2
  <2> QED
    BY <2>1 DEF Quoted
<1>9. EditsKept'
  <2>1. ASSUME NEW d \in Docs, NEW r \in 2..HeadOf(d)', doc'[d][r].by # "edit"
        PROVE  doc'[d][r].text = doc'[d][r - 1].text /\ doc'[d][r].body = doc'[d][r - 1].body
    <3>1. CASE r \in 2..HeadOf(d)
      <4>1. /\ r \in 1..HeadOf(d) /\ r - 1 \in 1..HeadOf(d)
        BY <1>1, <3>1
      <4>2. doc'[d][r] = doc[d][r] /\ doc'[d][r - 1] = doc[d][r - 1]
        BY <1>4, <4>1
      <4> QED
        BY <2>1, <3>1, <4>2 DEF Store, EditsKept
    <3>2. CASE r \notin 2..HeadOf(d)
      <4>1. d \in DOMAIN plan.docs /\ r = HeadOf(d) + 1
        BY <1>1, <1>2, <1>4, <3>2 DEF HeadOf
      <4>2. DocWrite(d, plan.docs[d], plan.replaced) /\ plan.docs[d].base = HeadOf(d)
        BY <1>2, <4>1 DEF Planned
      <4>3. r - 1 = HeadOf(d) /\ HeadOf(d) \in 1..HeadOf(d)
        <5>1. HeadOf(d) \in Nat \ {0}
          BY <1>1
        <5> QED
          BY <4>1, <5>1
      <4>4. doc'[d][r] = plan.docs[d].new /\ doc'[d][r - 1] = doc[d][HeadOf(d)]
        BY <1>4, <4>1, <4>3
      <4> QED
        BY <2>1, <4>2, <4>4 DEF DocWrite
    <3> QED
      BY <3>1, <3>2
  <2> QED
    BY <2>1 DEF EditsKept
<1>10. Replaced'
  <2>1. ASSUME NEW d \in Docs, NEW i \in 1..(HeadOf(d)' - 1), doc'[d][i + 1].text # doc'[d][i].text
        PROVE  <<d, i>> \in inval'
    <3>1. CASE i < HeadOf(d)
      <4>1. i \in 1..(HeadOf(d) - 1) /\ doc'[d][i + 1] = doc[d][i + 1] /\ doc'[d][i] = doc[d][i]
        BY <1>1, <1>4, <3>1
      <4> QED
        BY <2>1, <4>1 DEF Store, Replaced, Write
    <3>2. CASE ~(i < HeadOf(d))
      <4>1. d \in DOMAIN plan.docs /\ i = HeadOf(d)
        BY <1>1, <1>2, <1>4, <3>2 DEF HeadOf
      <4>2. DocWrite(d, plan.docs[d], plan.replaced) /\ plan.docs[d].base = HeadOf(d)
        BY <1>2, <4>1 DEF Planned
      <4>3. doc'[d][i + 1] = plan.docs[d].new /\ doc'[d][i] = doc[d][HeadOf(d)]
        BY <1>1, <1>4, <4>1
      <4> QED
        BY <2>1, <4>1, <4>2, <4>3 DEF DocWrite, Write
    <3> QED
      BY <1>1, <3>1, <3>2
  <2> QED
    BY <2>1 DEF Replaced
<1>11. Covered'
  BY DEF Write, Covered
<1>12. \A d \in Docs : d \in DOMAIN plan.docs => doc'[d][HeadOf(d)'] = plan.docs[d].new
  BY <1>4
<1>13. \A p \in Pages : p \in DOMAIN plan.pages => Claim(p, PageHead(p))' = plan.pages[p].new
  BY <1>5 DEF Claim
<1> QED
  BY <1>2, <1>3, <1>4, <1>5, <1>6, <1>7, <1>8, <1>9, <1>10, <1>11, <1>12, <1>13 DEF Store

-----------------------------------------------------------------------------
(* Steps of an editor and of the job child. *)

LEMMA Quiet == ASSUME Store, UNCHANGED <<doc, page, inval, fences>> PROVE Store' /\ Heads /\ Grown
<1>1. TypeOK' /\ Quoted'
  BY DEF Store, TypeOK, HeadOf, PageHead, Claim, Quoted, Refers
<1>2. EditsKept' /\ Replaced'
  BY DEF Store, EditsKept, Replaced, HeadOf
<1>3. Covered'
  BY DEF Store, Covered
<1>4. Heads
  BY <1>1, HeadsTyped DEF Store
<1>5. Grown
  BY <1>4 DEF Grown, Heads, HeadOf, PageHead, Claim
<1> QED
  BY <1>1, <1>2, <1>3, <1>4, <1>5 DEF Store

LEMMA EditorTurns ==
    ASSUME IInv, Store', Heads, Grown, Keyed', child' = child,
           NEW e \in Editors, NEW t, ed' = [ed EXCEPT ![e] = t], Editing(t)'
    PROVE  IInv'
<1>1. ASSUME NEW c, c = child PROVE Working(c)'
  BY <1>1, WorkingStable DEF IInv
<1>2. ASSUME NEW x \in Editors, NEW u, u = ed'[x] PROVE Editing(u)'
  <2>1. CASE x = e
    BY <1>2, <2>1 DEF IInv
  <2>2. CASE x # e
    <3>1. u = ed[x] /\ Editing(u)
      BY <1>2, <2>2 DEF IInv, Editings
    <3> QED
      BY <3>1, EditingStable DEF IInv, Store
  <2> QED
    BY <2>1, <2>2
<1> QED
  BY <1>1, <1>2 DEF IInv, Editings

LEMMA ChildTurns ==
    ASSUME IInv, Store', Heads, Grown, Keyed', ed' = ed, NEW t, child' = t, Working(t)'
    PROVE  IInv'
<1>1. ASSUME NEW x \in Editors, NEW u, u = ed'[x] PROVE Editing(u)'
  <2>1. u = ed[x] /\ Editing(u)
    BY <1>1 DEF IInv, Editings
  <2> QED
    BY <2>1, EditingStable DEF IInv, Store
<1> QED
  BY <1>1 DEF IInv, Editings

LEMMA SeenNow == ASSUME TypeOK PROVE SeenPages(PagesNow) /\ SeenDocs(DocsNow)
BY DEF TypeOK, SeenPages, SeenDocs, PagesNow, DocsNow

LEMMA InitInv == Init => IInv
<1> SUFFICES ASSUME Init PROVE IInv
  OBVIOUS
<1>1. FirstDoc \in DocRev /\ FirstDoc.by = "edit" /\ \A p \in Pages : FirstDoc.sums[p].ref = 1
  BY DEF FirstDoc, DocRev, Summary
<1>2. \A d \in Docs : doc[d] = <<FirstDoc>> /\ HeadOf(d) = 1 /\ doc[d][1] = FirstDoc
  BY DEF Init, HeadOf
<1>3. \A p \in Pages : /\ page[p] = <<[text |-> 1, cite |-> 1]>> /\ PageHead(p) = 1
                       /\ Claim(p, 1).text = 1
  BY DEF Init, PageHead, Claim
<1>4. TypeOK
  <2>1. [text |-> 1, cite |-> 1] \in PageRev
    BY DEF PageRev
  <2>2. <<FirstDoc>> \in Seq(DocRev) /\ <<[text |-> 1, cite |-> 1]>> \in Seq(PageRev)
    BY <1>1, <2>1
  <2> QED
    BY <1>2, <1>3, <2>2 DEF TypeOK, Init, Gone
<1>5. Quoted
  BY <1>1, <1>2, <1>3 DEF Quoted, Refers, Gone
<1>6. EditsKept
  BY <1>2 DEF EditsKept
<1>7. Replaced
  BY <1>2 DEF Replaced
<1>8. Covered
  BY DEF Init, Covered, Fenced
<1>9. Editings /\ Working(child) /\ Keyed /\ DOMAIN ed = Editors
  BY DEF Init, Editings, Editing, Working, Keyed, Idle
<1> QED
  BY <1>4, <1>5, <1>6, <1>7, <1>8, <1>9 DEF IInv, Store

LEMMA AskMemoryPreserves == ASSUME IInv, NEW e \in Editors, AskMemory(e) PROVE IInv'
<1> DEFINE Asked(d, new) == [kind |-> "memory", by |-> e, doc |-> d, base |-> HeadOf(d), new |-> new]
<1>0. PICK d \in Docs, text \in Texts, p \in Pages, quote \in {"keep", "take", "drop"} :
         /\ quote = "take" => Visible(p)
         /\ Ask(e, Asked(d, Edited(d, text, p, quote)))
  BY DEF AskMemory
<1>1. PICK new, r : /\ new = Edited(d, text, p, quote) /\ r = Asked(d, new)
                    /\ quote = "take" => Visible(p)
                    /\ Ask(e, r)
  BY <1>0
<1>2. PICK t : t = [pc |-> "asked", change |-> r, read |-> PagesNow]
  OBVIOUS
<1>3. Store' /\ Heads /\ Grown
  BY <1>1, Quiet DEF IInv, Ask, store
<1>4. /\ HeadOf(d) \in Nat \ {0} /\ HeadOf(d) \in 1..HeadOf(d)
      /\ doc[d][HeadOf(d)] \in DocRev /\ Refers(doc[d][HeadOf(d)])
      /\ PageHead(p) \in Nat \ {0} /\ text \in Nat
  BY WikiAssumption DEF IInv, Store, TypeOK, Quoted, HeadOf
<1>5. ASSUME NEW q \in Pages
      PROVE  \/ new.sums[q] = doc[d][HeadOf(d)].sums[q]
             \/ q = p /\ quote = "take" /\ new.sums[q] = [state |-> "current", ref |-> PageHead(p)]
             \/ new.sums[q] = NoSummary
  BY <1>1, <1>4 DEF DocRev, Edited
<1>6. new \in DocRev /\ new.by = "edit"
  <2>1. \A q \in Pages : new.sums[q] \in Summary
    BY <1>4, <1>5 DEF DocRev, Summary, NoSummary
  <2> QED
    BY <1>1, <1>4, <2>1 DEF DocRev, Edited
<1>7. Refers(new)
  <2>1. quote = "take" => Claim(p, PageHead(p)).text # Gone
    BY <1>1 DEF Visible
  <2> QED
    BY <1>4, <1>5, <2>1 DEF Refers
<1>8. Request(r)
  BY <1>1, <1>4, <1>6, <1>7 DEF Request
<1>9. SeenPages(PagesNow) /\ Carries(new.sums, d, HeadOf(d), PagesNow)
  BY <1>5, SeenNow DEF Carries, NoSummary, PagesNow, IInv, Store
<1>10. Editing(t)
  BY <1>1, <1>2, <1>8, <1>9 DEF Editing
<1>11. ed' = [ed EXCEPT ![e] = t] /\ child' = child /\ Keyed'
  BY <1>1, <1>2 DEF Ask, IInv, Keyed
<1> QED
  BY <1>3, <1>10, <1>11, EditingStable, EditorTurns DEF IInv, Store

LEMMA AskPagePreserves == ASSUME IInv, NEW e \in Editors, AskPage(e) PROVE IInv'
<1>1. PICK p \in Pages, text \in Texts \cup {Gone}, cite \in 1..MaxDoc :
         LET new == [text |-> text, cite |-> cite]
             r == [kind |-> "page", by |-> e, page |-> p, base |-> PageHead(p), new |-> new]
         IN  new # Claim(p, PageHead(p)) /\ Ask(e, r)
  BY Zenon DEF AskPage
<1>2. PICK new, r :
         /\ new = [text |-> text, cite |-> cite] /\ new # Claim(p, PageHead(p))
         /\ r = [kind |-> "page", by |-> e, page |-> p, base |-> PageHead(p), new |-> new]
         /\ Ask(e, r)
  BY <1>1
<1>3. PICK t : t = [pc |-> "asked", change |-> r, read |-> PagesNow]
  OBVIOUS
<1>4. Store' /\ Heads /\ Grown
  BY <1>2, Quiet DEF IInv, Ask, store
<1>5. PageHead(p) \in 1..PageHead(p) /\ new \in PageRev
  BY <1>2, WikiAssumption DEF IInv, Store, TypeOK, PageRev, Gone
<1>6. Request(r)
  BY <1>2, <1>5 DEF Request, PageWrite
<1>7. Editing(t)
  BY <1>2, <1>3, <1>6, SeenNow DEF Editing, IInv, Store
<1>8. ed' = [ed EXCEPT ![e] = t] /\ child' = child /\ Keyed'
  BY <1>2, <1>3 DEF Ask, IInv, Keyed
<1> QED
  BY <1>4, <1>7, <1>8, EditingStable, EditorTurns DEF IInv, Store

\* The marks of a new claim keep what is quoted; only a quote of this very
\* claim stays current.
LEMMA MarkedKeeps ==
    ASSUME NEW rev \in DocRev, Refers(rev), NEW p, NEW claim
    PROVE  /\ Marked(rev, p, claim) \in [Pages -> Summary]
           /\ \A q \in Pages :
                /\ Marked(rev, p, claim)[q] # NoSummary =>
                      rev.sums[q] # NoSummary /\ Marked(rev, p, claim)[q].ref = rev.sums[q].ref
                /\ Marked(rev, p, claim)[q].state = "current" =>
                      q = p /\ Claim(p, rev.sums[q].ref) = claim /\ rev.sums[q] # NoSummary
<1>1. ASSUME NEW q \in Pages
      PROVE  /\ Marked(rev, p, claim)[q] \in Summary
             /\ Marked(rev, p, claim)[q] # NoSummary =>
                   rev.sums[q] # NoSummary /\ Marked(rev, p, claim)[q].ref = rev.sums[q].ref
             /\ Marked(rev, p, claim)[q].state = "current" =>
                   q = p /\ Claim(p, rev.sums[q].ref) = claim /\ rev.sums[q] # NoSummary
  <2>1. rev.sums[q] \in Summary
    BY DEF DocRev
  <2>2. CASE q \notin Quotes(rev)
    BY <2>2 DEF Marked, NoSummary, Summary
  <2>3. CASE q \in Quotes(rev)
    BY <2>1, <2>3 DEF Marked, Quotes, Summary
  <2> QED
    BY <2>2, <2>3
<1>2. DOMAIN Marked(rev, p, claim) = Pages /\ Marked(rev, p, claim) \in [Pages -> Summary]
  BY <1>1 DEF Marked
<1> QED
  BY <1>1, <1>2

\* A plan of one document.
OfDoc(plan, d, base, new) ==
    /\ Planned(plan) /\ DOMAIN plan.docs = {d} /\ DOMAIN plan.pages = {}
    /\ plan.docs[d].base = base /\ plan.docs[d].new = new

LEMMA MemoryPlan ==
    ASSUME NEW op, NEW d \in Docs, NEW base \in 1..HeadOf(d), NEW new \in DocRev, Refers(new),
           new.by # "edit" => new.text = doc[d][base].text /\ new.body = doc[d][base].body
    PROVE  OfDoc(PlanMemory(op, d, base, new), d, base, new)
<1> DEFINE plan == PlanMemory(op, d, base, new)
<1>1. /\ plan.docs = [x \in {d} |-> [base |-> base, new |-> new]] /\ plan.pages = <<>>
      /\ plan.replaced = IF new.text = doc[d][base].text THEN {} ELSE {<<d, base>>}
  BY DEF PlanMemory
<1>2. /\ DOMAIN plan.docs = {d} /\ DOMAIN plan.pages = {}
      /\ plan.docs[d].base = base /\ plan.docs[d].new = new
  BY <1>1
<1> HIDE DEF plan
<1>3. Planned(plan)
  BY <1>1, <1>2 DEF Planned, DocWrite
<1> QED
  BY <1>2, <1>3 DEF plan, OfDoc

LEMMA PagePlan ==
    ASSUME Store, NEW r, r.kind = "page", Request(r), NEW plan, plan = PlanPage(r)
    PROVE  /\ Planned(plan) /\ DOMAIN plan.pages = {r.page}
           /\ plan.pages[r.page].base = r.base /\ plan.pages[r.page].new = r.new
           /\ Marks(plan, r.page, r.base, r.new, DocsNow)
<1> DEFINE p == r.page
           last(d) == doc[d][HeadOf(d)]
           marks(d) == Marked(last(d), p, r.new)
           before == Claim(p, r.base)
<1>1. p \in Pages /\ PageWrite(p, r) /\ r.new # before
  BY DEF Request
<1>2. /\ plan.pages = [x \in {p} |-> [base |-> r.base, new |-> r.new]]
      /\ plan.docs = Derived(p, r.base, r.new) /\ plan.replaced = {}
  BY DEF PlanPage
<1>3. /\ DOMAIN plan.docs = {x \in Docs : /\ before.text # Gone /\ before # r.new
                                         /\ p \in Quotes(last(x)) /\ marks(x) # last(x).sums}
      /\ \A d \in DOMAIN plan.docs :
           plan.docs[d] = [base |-> HeadOf(d),
                           new |-> [last(d) EXCEPT !.sums = marks(d), !.by = "derived"]]
  BY <1>2 DEF Derived
<1>4. ASSUME NEW d \in Docs PROVE HeadOf(d) \in 1..HeadOf(d) /\ last(d) \in DocRev /\ Refers(last(d))
  <2>1. HeadOf(d) \in 1..HeadOf(d) /\ doc[d] \in Seq(DocRev)
    BY DEF Store, TypeOK
  <2> QED
    BY <2>1 DEF Store, Quoted, HeadOf
<1>5. ASSUME NEW d \in Docs
      PROVE  /\ marks(d) \in [Pages -> Summary]
             /\ \A q \in Pages :
                  /\ marks(d)[q] # NoSummary =>
                        last(d).sums[q] # NoSummary /\ marks(d)[q].ref = last(d).sums[q].ref
                  /\ marks(d)[q].state = "current" =>
                        q = p /\ Claim(p, last(d).sums[q].ref) = r.new /\ last(d).sums[q] # NoSummary
  BY <1>4, MarkedKeeps
<1> HIDE DEF last, marks, before
<1>6. ASSUME NEW d \in DOMAIN plan.docs
      PROVE  /\ d \in Docs /\ plan.docs[d].base = HeadOf(d) /\ plan.docs[d].new \in DocRev
             /\ plan.docs[d].new.sums = marks(d) /\ plan.docs[d].new.by = "derived"
             /\ plan.docs[d].new.text = last(d).text /\ plan.docs[d].new.body = last(d).body
  <2>1. d \in Docs /\ plan.docs[d] = [base |-> HeadOf(d),
                     new |-> [last(d) EXCEPT !.sums = marks(d), !.by = "derived"]]
    BY <1>3
  <2>2. last(d) \in DocRev /\ marks(d) \in [Pages -> Summary]
    BY <1>4, <1>5, <2>1
  <2>3. plan.docs[d].base = HeadOf(d)
    BY <2>1
  <2>4. PICK new : new = plan.docs[d].new
    OBVIOUS
  <2>5. PICK rev, sums, by : rev = last(d) /\ sums = marks(d) /\ by = "derived"
    OBVIOUS
  <2>6. new = [rev EXCEPT !.sums = sums, !.by = by]
    BY <2>1, <2>4, <2>5
  <2>7. rev \in DocRev /\ sums \in [Pages -> Summary] /\ by \in {"derived", "refresh"}
    BY <2>2, <2>5
  <2>8. /\ new \in DocRev /\ new.sums = sums /\ new.by = by
        /\ new.text = rev.text /\ new.body = rev.body
    BY <2>6, <2>7 DEF DocRev
  <2> QED
    BY <2>1, <2>3, <2>4, <2>5, <2>8
<1>7. Planned(plan)
  <2>1. ASSUME NEW d \in DOMAIN plan.docs PROVE DocWrite(d, plan.docs[d], plan.replaced)
    <3>1. Refers(plan.docs[d].new)
      BY <1>4, <1>5, <1>6 DEF Refers
    <3>2. HeadOf(d) \in 1..HeadOf(d)
      BY <1>4, <1>6
    <3> QED
      BY <1>6, <3>1, <3>2 DEF DocWrite, last
  <2>2. \A x \in DOMAIN plan.pages : PageWrite(x, plan.pages[x])
    BY <1>1, <1>2 DEF PageWrite
  <2> QED
    BY <1>1, <1>2, <1>3, <2>1, <2>2 DEF Planned
<1>8. ASSUME NEW d \in DOMAIN plan.docs, NEW q \in Pages, plan.docs[d].new.sums[q].state = "current"
      PROVE  q = p /\ Claim(p, plan.docs[d].new.sums[q].ref) = r.new
  <2>1. marks(d)[q].state = "current" /\ marks(d)[q] # NoSummary /\ d \in Docs
    BY <1>6, <1>8 DEF NoSummary
  <2> QED
    BY <1>5, <1>6, <2>1
<1>9. ASSUME NEW d \in Docs, d \notin DOMAIN plan.docs, last(d).sums[p].state = "current"
      PROVE  \/ Claim(p, last(d).sums[p].ref) = r.new
             \/ Claim(p, last(d).sums[p].ref) # before
  <2>1. last(d).sums[p] # NoSummary /\ p \in Quotes(last(d))
    BY <1>1, <1>9 DEF NoSummary, Quotes
  <2>2. CASE before.text = Gone
    BY <1>1, <1>4, <2>1, <2>2 DEF Refers
  <2>3. CASE before.text # Gone
    <3>1. marks(d) = last(d).sums
      BY <1>1, <1>3, <1>9, <2>1, <2>3
    <3> QED
      BY <1>1, <1>5, <1>9, <3>1
  <2> QED
    BY <2>2, <2>3
<1>10. Marks(plan, p, r.base, r.new, DocsNow)
  BY <1>8, <1>9 DEF Marks, last, before
<1> QED
  BY <1>1, <1>2, <1>7, <1>10

LEMMA PlanPreserves == ASSUME IInv, NEW e \in Editors, Plan(e) PROVE IInv'
<1>1. PICK old, r, plan : old = ed[e] /\ r = old.change /\ plan = PlanOf(r)
  OBVIOUS
<1>2. /\ old.pc = "asked" /\ Editing(old) /\ Request(r) /\ SeenPages(old.read)
      /\ r.kind = "memory" => Carries(r.new.sums, r.doc, r.base, old.read)
      /\ r.kind \in {"memory", "page"}
  BY <1>1 DEF Plan, IInv, Editings, Editing, Request
<1>3. Store' /\ Heads /\ Grown
  BY Quiet DEF Plan, IInv, store
<1>4. child' = child /\ Keyed'
  BY DEF Plan, IInv, Keyed
<1>5. ASSUME NEW t, ed' = [ed EXCEPT ![e] = t], Editing(t) PROVE IInv'
  BY <1>3, <1>4, <1>5, EditingStable, EditorTurns DEF IInv, Store
<1>6. CASE EvidenceHolds(plan)
  <2>1. PICK t : t = [pc |-> "planned", change |-> r, read |-> old.read, plan |-> plan, saw |-> DocsNow]
    OBVIOUS
  <2>2. ed' = [ed EXCEPT ![e] = t]
    BY <1>1, <1>6, <2>1 DEF Plan
  <2>3. SeenDocs(DocsNow)
    BY SeenNow DEF IInv, Store
  <2>4. CASE r.kind = "memory"
    <3>1. /\ r.doc \in Docs /\ r.base \in 1..HeadOf(r.doc) /\ r.new \in DocRev
          /\ Refers(r.new) /\ r.new.by = "edit" /\ plan = PlanMemory(r, r.doc, r.base, r.new)
      BY <1>1, <1>2, <2>4 DEF Request, PlanOf
    <3>2. PICK d, base, new : d = r.doc /\ base = r.base /\ new = r.new
      OBVIOUS
    <3>3. /\ d \in Docs /\ base \in 1..HeadOf(d) /\ new \in DocRev /\ Refers(new)
          /\ new.by # "edit" => new.text = doc[d][base].text /\ new.body = doc[d][base].body
          /\ plan = PlanMemory(r, d, base, new)
      BY <3>1, <3>2
    <3>4. OfDoc(plan, d, base, new)
      BY <3>3, MemoryPlan
    <3>5. Editing(t)
      BY <1>2, <2>1, <2>3, <2>4, <3>2, <3>4 DEF Editing, OfDoc
    <3> QED
      BY <1>5, <2>2, <3>5
  <2>5. CASE r.kind = "page"
    <3>1. plan = PlanPage(r)
      BY <1>1, <2>5 DEF PlanOf
    <3>2. /\ Planned(plan) /\ DOMAIN plan.pages = {r.page}
          /\ plan.pages[r.page].base = r.base /\ plan.pages[r.page].new = r.new
          /\ Marks(plan, r.page, r.base, r.new, DocsNow)
      BY <1>2, <2>5, <3>1, PagePlan DEF IInv
    <3>3. Editing(t)
      BY <1>2, <2>1, <2>3, <2>5, <3>2 DEF Editing
    <3> QED
      BY <1>5, <2>2, <3>3
  <2> QED
    BY <1>2, <2>4, <2>5
<1>7. CASE ~EvidenceHolds(plan)
  <2>1. PICK t : t = [pc |-> "answered", change |-> r, read |-> old.read, code |-> "evidence_missing"]
    OBVIOUS
  <2>2. ed' = [ed EXCEPT ![e] = t]
    BY <1>1, <1>7, <2>1 DEF Plan, Answer
  <2>3. Editing(t)
    BY <1>2, <2>1 DEF Editing
  <2> QED
    BY <1>5, <2>2, <2>3
<1> QED
  BY <1>6, <1>7

\* What an editor commits, when it commits.
LEMMA Committed ==
    ASSUME IInv, NEW e \in Editors, Commit(e), NEW plan, plan = ed[e].plan
    PROVE  /\ ed[e].pc = "planned" /\ Editing(ed[e]) /\ Planned(plan)
           /\ IF Outcome(plan) = "applied" THEN ~HeadsMoved(plan) /\ Write(plan)
              ELSE UNCHANGED store
           /\ ed' = [ed EXCEPT ![e] = [pc |-> "answered", change |-> ed[e].change,
                                       read |-> ed[e].read, code |-> Outcome(plan)]]
           /\ UNCHANGED <<jobs, child, faults>>
<1>1. ed[e].pc = "planned" /\ Editing(ed[e]) /\ Planned(plan)
  BY DEF Commit, IInv, Editings, Editing
<1>2. Outcome(plan) = "applied" => ~HeadsMoved(plan)
  BY DEF Outcome
<1> QED
  BY <1>1, <1>2 DEF Commit, Answer

LEMMA CommitPreserves == ASSUME IInv, NEW e \in Editors, Commit(e) PROVE IInv'
<1>1. PICK old, plan : old = ed[e] /\ plan = ed[e].plan
  OBVIOUS
<1>2. Store' /\ Heads /\ Grown
  <2>1. CASE Outcome(plan) = "applied"
    BY <1>1, <2>1, Committed, WriteKeeps DEF IInv
  <2>2. CASE Outcome(plan) # "applied"
    BY <1>1, <2>2, Committed, Quiet DEF IInv, store
  <2> QED
    BY <2>1, <2>2
<1>3. PICK t : t = [pc |-> "answered", change |-> old.change, read |-> old.read, code |-> Outcome(plan)]
  OBVIOUS
<1>4. ed' = [ed EXCEPT ![e] = t] /\ child' = child /\ jobs' = jobs /\ Editing(old) /\ old.pc # "idle"
  BY <1>1, <1>3, Committed
<1>5. Editing(t)
  BY <1>3, <1>4 DEF Editing
<1> QED
  BY <1>2, <1>4, <1>5, EditingStable, EditorTurns DEF IInv, Store, Keyed

LEMMA ReceivePreserves == ASSUME IInv, NEW e \in Editors, Receive(e) PROVE IInv'
<1>1. Store' /\ Heads /\ Grown
  BY Quiet DEF Receive, IInv, store
<1>2. Keyed'
  BY DEF Receive, WithJobs, ConsolidateKey, IInv, Keyed
<1>3. PICK t : t = Idle
  OBVIOUS
<1>4. ed' = [ed EXCEPT ![e] = t] /\ child' = child /\ Editing(t)
  BY <1>3 DEF Receive, Editing, Idle
<1> QED
  BY <1>1, <1>2, <1>4, EditingStable, EditorTurns DEF IInv, Store

\* A job that ends is one that was there.
LEMMA EndJobKeyed == ASSUME Keyed, NEW state, EndJob(state) PROVE Keyed'
BY DEF EndJob, Keyed

LEMMA IdleWorks == Working(Idle)
BY DEF Working, Idle

\* The child's step touches no document: its next place is enough.
LEMMA QuietChild ==
    ASSUME IInv, UNCHANGED <<store, ed>>, Keyed', NEW t, child' = t, Working(t) PROVE IInv'
<1>1. Store' /\ Heads /\ Grown
  BY Quiet DEF IInv, store
<1> QED
  BY <1>1, WorkingStable, ChildTurns

LEMMA EndJobPreserves == ASSUME IInv, UNCHANGED <<store, ed>>, NEW state, EndJob(state) PROVE IInv'
<1>1. PICK t : t = Idle
  OBVIOUS
<1>2. Working(t) /\ child' = t
  BY <1>1, IdleWorks DEF EndJob
<1>3. Keyed'
  BY EndJobKeyed DEF IInv
<1> QED
  BY <1>2, <1>3, QuietChild

LEMMA StartJobPreserves == ASSUME IInv, StartJob PROVE IInv'
<1>1. PICK k \in DOMAIN jobs : /\ jobs' = [jobs EXCEPT ![k] = "running"]
                              /\ child' = [pc |-> k[1], key |-> k]
  BY DEF StartJob
<1>2. k[1] = "consolidate" \/ (k[1] = "summary" /\ k[2] \in Docs)
  BY DEF IInv, Keyed
<1>3. PICK t : t = [pc |-> k[1], key |-> k]
  OBVIOUS
<1>4. Working(t)
  BY <1>2, <1>3 DEF Working
<1>5. Keyed'
  BY <1>1 DEF IInv, Keyed
<1> QED
  BY <1>1, <1>3, <1>4, <1>5, QuietChild DEF StartJob

LEMMA ReadHeadsPreserves == ASSUME IInv, ReadHeads PROVE IInv'
<1>1. PICK t : t = [pc |-> "descend", key |-> child.key, heads |-> DocsNow]
  OBVIOUS
<1>2. Working(t) /\ child' = t
  BY <1>1 DEF Working, ReadHeads
<1>3. Keyed'
  BY DEF ReadHeads, IInv, Keyed
<1> QED
  BY <1>2, <1>3, QuietChild DEF ReadHeads

LEMMA DescendPreserves == ASSUME IInv, Descend PROVE IInv'
<1>1. PICK t : t = Idle
  OBVIOUS
<1>2. Working(t) /\ child' = t
  BY <1>1, IdleWorks DEF Descend
<1>3. Keyed'
  BY DEF Descend, WithJobs, SummaryKey, IInv, Keyed
<1> QED
  BY <1>2, <1>3, QuietChild DEF Descend

\* A refresh quotes claims that can be seen, and calls current what the pages
\* say now.
LEMMA RefreshedKeeps ==
    ASSUME TypeOK, NEW rev \in DocRev, Refers(rev)
    PROVE  /\ Refreshed(rev.sums) \in [Pages -> Summary]
           /\ \A q \in Pages :
                /\ Refreshed(rev.sums)[q] # NoSummary =>
                      /\ Refreshed(rev.sums)[q].ref \in 1..PageHead(q)
                      /\ Claim(q, Refreshed(rev.sums)[q].ref).text # Gone
                /\ Refreshed(rev.sums)[q].state = "current" =>
                      Claim(q, Refreshed(rev.sums)[q].ref) = Claim(q, PageHead(q))
<1>1. ASSUME NEW q \in Pages, NEW s, s = Refreshed(rev.sums)[q]
      PROVE  /\ s \in Summary
             /\ s # NoSummary => s.ref \in 1..PageHead(q) /\ Claim(q, s.ref).text # Gone
             /\ s.state = "current" => Claim(q, s.ref) = Claim(q, PageHead(q))
  <2>1. rev.sums[q] \in Summary /\ PageHead(q) \in Nat \ {0}
    BY DEF DocRev, TypeOK
  <2>2. rev.sums[q] # NoSummary =>
          rev.sums[q].ref \in 1..PageHead(q) /\ Claim(q, rev.sums[q].ref).text # Gone
    BY DEF Refers
  <2>3. CASE rev.sums[q] = NoSummary
    BY <1>1, <2>1, <2>3 DEF Refreshed, NoSummary, Summary
  <2>4. CASE rev.sums[q] # NoSummary /\ ~Visible(q)
    BY <1>1, <2>1, <2>2, <2>4 DEF Refreshed, Summary
  <2>5. CASE rev.sums[q] # NoSummary /\ Visible(q)
    <3>1. Claim(q, PageHead(q)).text # Gone
      BY <2>5 DEF Visible
    <3> QED
      BY <1>1, <2>1, <2>2, <2>5, <3>1 DEF Refreshed, Summary
  <2> QED
    BY <2>3, <2>4, <2>5
<1>2. DOMAIN Refreshed(rev.sums) = Pages /\ Refreshed(rev.sums) \in [Pages -> Summary]
  BY <1>1 DEF Refreshed
<1> QED
  BY <1>1, <1>2

LEMMA ReadSummaryPreserves == ASSUME IInv, ReadSummary PROVE IInv'
<1>1. PICK d, r, plan, rev : /\ d = child.key[2] /\ r = child.key[3] /\ plan = RefreshPlan(d, r)
                            /\ rev = doc[d][r]
  OBVIOUS
<1>2. d \in Docs /\ UNCHANGED <<store, ed>> /\ child.pc = "summary"
  BY <1>1 DEF ReadSummary, IInv, Working
<1>3. ASSUME NEW state, EndJob(state) PROVE IInv'
  BY <1>2, <1>3, EndJobPreserves
<1>4. ASSUME child' = [pc |-> "done", key |-> child.key], UNCHANGED jobs PROVE IInv'
  <2>1. PICK t : t = [pc |-> "done", key |-> child.key]
    OBVIOUS
  <2>2. Working(t) /\ child' = t /\ Keyed'
    BY <1>4, <2>1 DEF Working, IInv, Keyed
  <2> QED
    BY <1>2, <2>2, QuietChild
<1>5. ASSUME r = HeadOf(d), UNCHANGED jobs,
             child' = [pc |-> "publish", key |-> child.key, plan |-> plan, saw |-> PagesNow]
      PROVE  IInv'
  <2>1. PICK t : t = [pc |-> "publish", key |-> child.key, plan |-> plan, saw |-> PagesNow]
    OBVIOUS
  <2>2. HeadOf(d) \in 1..HeadOf(d) /\ rev \in DocRev /\ Refers(rev)
    <3>1. HeadOf(d) \in 1..HeadOf(d) /\ doc[d] \in Seq(DocRev)
      BY <1>2 DEF IInv, Store, TypeOK
    <3>2. doc[d][HeadOf(d)] \in DocRev /\ Refers(doc[d][HeadOf(d)])
      BY <1>2, <3>1 DEF IInv, Store, Quoted, HeadOf
    <3> QED
      BY <1>1, <1>5, <3>1, <3>2
  <2>3. PICK new, sums : new = [rev EXCEPT !.sums = sums, !.by = "refresh"] /\ sums = Refreshed(rev.sums)
    OBVIOUS
  <2>4. /\ sums \in [Pages -> Summary]
        /\ \A q \in Pages :
             /\ sums[q] # NoSummary => sums[q].ref \in 1..PageHead(q) /\ Claim(q, sums[q].ref).text # Gone
             /\ sums[q].state = "current" => Claim(q, sums[q].ref) = Claim(q, PageHead(q))
    BY <2>2, <2>3, RefreshedKeeps DEF IInv, Store
  <2>5. /\ new \in DocRev /\ new.sums = sums /\ new.by = "refresh"
        /\ new.text = rev.text /\ new.body = rev.body
    BY <2>2, <2>3, <2>4 DEF DocRev
  <2>6. Refers(new) /\ Carries(new.sums, d, r, PagesNow)
    BY <2>4, <2>5 DEF Refers, Carries, PagesNow
  <2>7. PICK op : op = [kind |-> "refresh", doc |-> d, base |-> r]
    OBVIOUS
  <2>8. plan = PlanMemory(op, d, r, new)
    BY <1>1, <2>3, <2>7 DEF RefreshPlan
  <2>9. OfDoc(plan, d, r, new)
    BY <1>1, <1>2, <1>5, <2>2, <2>5, <2>6, <2>8, MemoryPlan
  <2>10. SeenPages(PagesNow)
    BY SeenNow DEF IInv, Store
  <2>11. Working(t)
    BY <1>1, <2>1, <2>6, <2>9, <2>10 DEF Working, OfDoc
  <2>12. Keyed'
    BY <1>5 DEF IInv, Keyed
  <2> QED
    BY <1>2, <1>5, <2>1, <2>11, <2>12, QuietChild
<1> QED
  BY <1>1, <1>3, <1>4, <1>5 DEF ReadSummary

\* What the child publishes, when it publishes.
LEMMA Published ==
    ASSUME IInv, PublishSummary, NEW plan, plan = child.plan
    PROVE  /\ child.pc = "publish" /\ Working(child) /\ Planned(plan)
           /\ \/ ~HeadsMoved(plan) /\ Write(plan) /\ child' = [pc |-> "done", key |-> child.key]
                 /\ UNCHANGED jobs
              \/ UNCHANGED store /\ EndJob("failed")
           /\ UNCHANGED <<ed, faults>>
BY DEF PublishSummary, Outcome, IInv, Working

LEMMA PublishSummaryPreserves == ASSUME IInv, PublishSummary PROVE IInv'
<1>1. PICK plan, t : plan = child.plan /\ t = [pc |-> "done", key |-> child.key]
  OBVIOUS
<1>2. CASE UNCHANGED store /\ EndJob("failed")
  BY <1>2, EndJobPreserves DEF PublishSummary
<1>3. CASE ~HeadsMoved(plan) /\ Write(plan) /\ child' = t /\ UNCHANGED jobs
  <2>1. Store' /\ Heads /\ Grown
    BY <1>1, <1>3, Published, WriteKeeps DEF IInv
  <2>2. Working(t) /\ Keyed'
    BY <1>1, <1>3 DEF Working, IInv, Keyed
  <2> QED
    BY <1>3, <2>1, <2>2, WorkingStable, ChildTurns DEF PublishSummary
<1> QED
  BY <1>1, <1>2, <1>3, Published

LEMMA CrashPreserves == ASSUME IInv, Crash PROVE IInv'
<1>1. PICK again \in SUBSET Editors :
         /\ \A e \in again : ed[e].pc \in {"planned", "answered"}
         /\ ed' = [e \in Editors |-> IF e \in again
                      THEN [pc |-> "asked", change |-> ed[e].change, read |-> ed[e].read] ELSE Idle]
         /\ child' = Idle /\ UNCHANGED <<store, jobs>>
  BY DEF Crash
<1>2. Store' /\ Heads /\ Grown /\ Keyed'
  BY <1>1, Quiet DEF IInv, store, Keyed
<1>3. ASSUME NEW e \in Editors, NEW t, t = ed'[e] PROVE Editing(t)'
  <2>1. CASE e \in again
    <3>1. t = [pc |-> "asked", change |-> ed[e].change, read |-> ed[e].read]
      BY <1>1, <1>3, <2>1
    <3>2. Editing(t)
      BY <1>1, <2>1, <3>1 DEF IInv, Editings, Editing
    <3> QED
      BY <1>2, <3>2, EditingStable DEF IInv, Store
  <2>2. CASE e \notin again
    <3>1. t.pc = "idle"
      BY <1>1, <1>3, <2>2 DEF Idle
    <3> QED
      BY <3>1 DEF Editing
  <2> QED
    BY <2>1, <2>2
<1>4. ASSUME NEW c, c = child' PROVE Working(c)'
  BY <1>1, <1>4 DEF Working, Idle
<1> QED
  BY <1>1, <1>2, <1>3, <1>4 DEF IInv, Editings

LEMMA StutterPreserves == ASSUME IInv, UNCHANGED vars PROVE IInv'
<1>1. Keyed' /\ UNCHANGED <<store, ed>> /\ child' = child
  BY DEF vars, store, Keyed, IInv
<1>2. PICK t : t = child
  OBVIOUS
<1> QED
  BY <1>1, <1>2, QuietChild DEF IInv

LEMMA NextPreserves == ASSUME IInv, [Next]_vars PROVE IInv'
<1>1. ASSUME NEW e \in Editors, Editor(e) PROVE IInv'
  BY <1>1, AskMemoryPreserves, AskPagePreserves, PlanPreserves, CommitPreserves, ReceivePreserves
     DEF Editor
<1>2. CASE Child
  BY <1>2, StartJobPreserves, ReadHeadsPreserves, DescendPreserves, ReadSummaryPreserves,
     PublishSummaryPreserves, EndJobPreserves DEF Child, FinishSummary
<1>3. CASE ChildDies
  BY <1>3, EndJobPreserves DEF ChildDies
<1> QED
  BY <1>1, <1>2, <1>3, CrashPreserves, StutterPreserves DEF Next

-----------------------------------------------------------------------------
(* Which commits make a summary outdated. *)

LEMMA OutdatedStays ==
    ASSUME NEW d \in Docs, NEW p \in Pages, doc'[d] = doc[d], page'[p] = page[p]
    PROVE  Outdated(d, p)' = Outdated(d, p)
BY DEF Outdated, HeadOf, PageHead, Claim

\* A revision of a document: only where it carries a quote from an older page.
LEMMA DocOutdates ==
    ASSUME Store, NEW plan, Planned(plan), ~HeadsMoved(plan), Write(plan),
           NEW c, DOMAIN plan.docs = {c}, DOMAIN plan.pages = {},
           NEW seen, Carries(plan.docs[c].new.sums, c, plan.docs[c].base, seen),
           NEW d \in Docs, NEW p \in Pages, Outdated(d, p)', ~Outdated(d, p)
    PROVE  seen[p] # PageHead(p)
<1>1. page'[p] = page[p] /\ PageHead(p)' = PageHead(p) /\ \A i : Claim(p, i)' = Claim(p, i)
  BY WriteKeeps DEF PageHead, Claim
<1>2. d \in DOMAIN plan.docs
  BY <1>1, WriteKeeps, OutdatedStays
<1>3. PICK s : s = plan.docs[d].new.sums[p]
  OBVIOUS
<1>4. doc'[d][HeadOf(d)'].sums[p] = s /\ c = d /\ plan.docs[d].base = HeadOf(d)
  BY <1>2, <1>3, WriteKeeps DEF HeadsMoved
<1>5. s.state = "current" /\ Claim(p, s.ref) # Claim(p, PageHead(p))
  BY <1>1, <1>4 DEF Outdated
<1>6. s # doc[d][HeadOf(d)].sums[p]
  BY <1>5 DEF Outdated
<1> QED
  BY <1>3, <1>4, <1>5, <1>6 DEF Carries

\* A revision of a page: only where a document moved after the plan.
LEMMA PageOutdates ==
    ASSUME Store, NEW plan, Planned(plan), ~HeadsMoved(plan), Write(plan),
           NEW c, DOMAIN plan.pages = {c}, NEW base, plan.pages[c].base = base,
           NEW claim, plan.pages[c].new = claim, NEW saw, Marks(plan, c, base, claim, saw),
           NEW d \in Docs, NEW p \in Pages, Outdated(d, p)', ~Outdated(d, p), saw[d] = HeadOf(d)
    PROVE  FALSE
<1>1. c \in Pages /\ base = PageHead(c)
  BY DEF Planned, HeadsMoved
<1>2. Claim(c, PageHead(c))' = claim /\ (p # c => page'[p] = page[p])
  BY <1>1, WriteKeeps
<1>3. CASE d \in DOMAIN plan.docs
  <2>1. PICK new, s : new = plan.docs[d].new /\ s = new.sums[p]
    OBVIOUS
  <2>2. doc'[d][HeadOf(d)'] = new /\ Refers(new)
    BY <1>3, <2>1, WriteKeeps DEF Planned, DocWrite
  <2>3. s.state = "current" /\ Claim(p, s.ref)' # Claim(p, PageHead(p))'
    BY <2>1, <2>2 DEF Outdated
  <2>4. p = c /\ Claim(p, s.ref) = claim
    BY <1>3, <2>1, <2>3 DEF Marks
  <2>5. s.ref \in 1..PageHead(p)
    BY <2>1, <2>2, <2>3 DEF Refers, NoSummary
  <2>6. Claim(p, s.ref)' = Claim(p, s.ref)
    BY <2>5, WriteKeeps DEF Grown
  <2> QED
    BY <1>2, <2>3, <2>4, <2>6
<1>4. CASE d \notin DOMAIN plan.docs
  <2>1. doc'[d] = doc[d] /\ p = c
    BY <1>2, <1>4, WriteKeeps, OutdatedStays
  <2>2. PICK s : s = doc[d][HeadOf(d)].sums[p]
    OBVIOUS
  <2>3. s.state = "current" /\ Claim(p, s.ref)' # Claim(p, PageHead(p))'
    BY <2>1, <2>2 DEF Outdated, HeadOf
  <2>4. Claim(p, s.ref) = claim \/ Claim(p, s.ref) # Claim(p, base)
    BY <1>4, <2>1, <2>2, <2>3 DEF Marks
  <2>5. Claim(p, s.ref) = Claim(p, PageHead(p))
    BY <2>2, <2>3 DEF Outdated
  <2>6. Refers(doc[d][HeadOf(d)])
    BY DEF Store, TypeOK, Quoted
  <2>7. s.ref \in 1..PageHead(p)
    BY <2>2, <2>3, <2>6 DEF Refers, NoSummary
  <2>8. Claim(p, s.ref)' = Claim(p, s.ref)
    BY <2>7, WriteKeeps DEF Grown
  <2> QED
    BY <1>1, <1>2, <2>1, <2>3, <2>4, <2>5, <2>8
<1> QED
  BY <1>3, <1>4

LEMMA CommitRaced ==
    ASSUME IInv, NEW e \in Editors, Commit(e), NEW d \in Docs, NEW p \in Pages,
           Outdated(d, p)', ~Outdated(d, p)
    PROVE  Raced(d, p)
<1>1. PICK old, plan, r : old = ed[e] /\ plan = ed[e].plan /\ r = old.change
  OBVIOUS
<1>2. /\ old.pc = "planned" /\ Editing(old) /\ Planned(plan) /\ plan = old.plan
      /\ ed'[e].pc = "answered" /\ r.kind \in {"memory", "page"}
  BY <1>1, Committed DEF Editing, Request, IInv
<1>3. ~HeadsMoved(plan) /\ Write(plan)
  <2>1. CASE UNCHANGED store
    BY <2>1, OutdatedStays DEF store
  <2> QED
    BY <1>1, <2>1, Committed
<1>4. CASE r.kind = "memory"
  <2>1. PICK c, seen : c = r.doc /\ seen = old.read
    OBVIOUS
  <2>2. /\ DOMAIN plan.docs = {c} /\ DOMAIN plan.pages = {}
        /\ Carries(plan.docs[c].new.sums, c, plan.docs[c].base, seen)
    BY <1>1, <1>2, <1>4, <2>1 DEF Editing
  <2>3. seen[p] # PageHead(p)
    BY <1>2, <1>3, <2>2, DocOutdates DEF IInv
  <2> QED
    BY <1>1, <1>2, <1>4, <2>1, <2>3 DEF Raced
<1>5. CASE r.kind = "page"
  <2>1. PICK c, base, claim, saw : c = r.page /\ base = r.base /\ claim = r.new /\ saw = old.saw
    OBVIOUS
  <2>2. /\ DOMAIN plan.pages = {c} /\ plan.pages[c].base = base /\ plan.pages[c].new = claim
        /\ Marks(plan, c, base, claim, saw)
    BY <1>1, <1>2, <1>5, <2>1 DEF Editing
  <2>3. saw[d] # HeadOf(d)
    BY <1>2, <1>3, <2>2, PageOutdates DEF IInv
  <2> QED
    BY <1>1, <1>2, <1>5, <2>1, <2>3 DEF Raced
<1> QED
  BY <1>2, <1>4, <1>5

LEMMA PublishRaced ==
    ASSUME IInv, PublishSummary, NEW d \in Docs, NEW p \in Pages, Outdated(d, p)', ~Outdated(d, p)
    PROVE  Raced(d, p)
<1>1. PICK plan, c, seen : plan = child.plan /\ c = child.key[2] /\ seen = child.saw
  OBVIOUS
<1>2. child.pc = "publish" /\ Working(child) /\ Planned(plan)
  BY <1>1, Published
<1>3. ~HeadsMoved(plan) /\ Write(plan) /\ child' = [pc |-> "done", key |-> child.key]
  <2>1. CASE UNCHANGED store
    BY <2>1, OutdatedStays DEF store
  <2> QED
    BY <1>1, <2>1, Published
<1>4. /\ DOMAIN plan.docs = {c} /\ DOMAIN plan.pages = {}
      /\ Carries(plan.docs[c].new.sums, c, plan.docs[c].base, seen)
  BY <1>1, <1>2 DEF Working
<1>5. seen[p] # PageHead(p)
  BY <1>2, <1>3, <1>4, DocOutdates DEF IInv
<1>6. child' # child
  BY <1>2, <1>3
<1> QED
  BY <1>1, <1>2, <1>5, <1>6 DEF Raced

-----------------------------------------------------------------------------
(* The theorems. *)

\* The invariant of every step of editors, the job child and a crash.
THEOREM Invariance == Spec => []IInv
BY InitInv, NextPreserves, PTL DEF Spec

\* Documents and pages are sequences of revisions of their types.
THEOREM TypeCorrect == Spec => []TypeOK
<1>1. IInv => TypeOK
  BY DEF IInv, Store
<1> QED
  BY <1>1, Invariance, PTL

\* No mark and no refresh changes the text or the body an edit wrote.
THEOREM NoEditLost == Spec => []EditsKept
<1>1. IInv => EditsKept
  BY DEF IInv, Store
<1> QED
  BY <1>1, Invariance, PTL

\* A nonempty set of numbers up to n has a greatest.
LEMMA Greatest ==
    ASSUME NEW n \in Nat, NEW S, S \subseteq 1..n, S # {}
    PROVE  \E m \in S : \A k \in S : k <= m
<1> DEFINE R == OpToRel(<, Nat)
           T == {n - k : k \in S}
<1>1. \A k, m \in Nat : <<k, m>> \in R <=> k < m
  BY DEF OpToRel
<1>2. IsWellFoundedOn(R, Nat)
  BY NatLessThanWellFounded
<1>3. T \subseteq Nat /\ T # {}
  <2>1. \A k \in S : k \in 1..n /\ n - k \in Nat
    OBVIOUS
  <2> QED
    BY <2>1
<1> HIDE DEF R
<1>4. PICK x \in T : \A y \in T : ~(<<y, x>> \in R)
  <2> HIDE DEF T
  <2> QED
    BY <1>2, <1>3, WFMin
<1>5. PICK m \in S : x = n - m
  OBVIOUS
<1>6. ASSUME NEW k \in S PROVE k <= m
  <2>1. n - k \in T /\ ~(<<n - k, x>> \in R)
    BY <1>4
  <2>2. ~(n - k < n - m)
    BY <1>1, <1>3, <1>5, <2>1
  <2> QED
    BY <2>2
<1> QED
  BY <1>6

\* A page's standing claim is one of its revisions.
LEMMA StandingClaim == ASSUME TypeOK, NEW p \in Pages PROVE Standing(page, p) \in 1..PageHead(p)
<1> DEFINE S == {i \in 1..PageHead(p) : page[p][i].text # Gone}
<1>1. PageHead(p) \in Nat /\ DOMAIN page[p] = 1..PageHead(p) /\ 1 \in S
  BY DEF TypeOK, PageHead, Claim
<1>2. \E m \in S : \A k \in S : k <= m
  <2>1. S \subseteq 1..PageHead(p) /\ S # {}
    BY <1>1
  <2> HIDE DEF S
  <2> QED
    BY <1>1, <2>1, Greatest
<1>3. \E i \in DOMAIN page[p] : /\ page[p][i].text # Gone
                               /\ \A k \in DOMAIN page[p] : page[p][k].text # Gone => k <= i
  BY <1>1, <1>2
<1>4. Standing(page, p) \in DOMAIN page[p]
  BY <1>3 DEF Standing
<1> QED
  BY <1>1, <1>4

\* A claim whose evidence was replaced is hidden, also when the page was
\* committed after the replacement.
THEOREM ReplacedHidden == Spec => []ReplacedFenced
<1>1. ASSUME IInv PROVE ReplacedFenced
  <2> SUFFICES ASSUME NEW p \in Pages, NEW i, NEW r, NEW d,
                      i = Standing(page, p), r = Claim(p, i).cite, d = Cites[p],
                      r < HeadOf(d), doc[d][r + 1].text # doc[d][r].text
               PROVE  <<p, i>> \in fences
    BY DEF ReplacedFenced
  <2>1. i \in 1..PageHead(p) /\ page[p] \in Seq(PageRev)
    BY <1>1, StandingClaim DEF IInv, Store, TypeOK
  <2>2. r \in Nat \ {0} /\ d \in Docs
    <3>1. page[p][i] \in PageRev
      BY <2>1 DEF PageHead
    <3> QED
      BY <3>1, WikiAssumption DEF Claim, PageRev
  <2>3. HeadOf(d) \in Nat
    BY <1>1, <2>2 DEF IInv, Store, TypeOK
  <2>4. <<d, r>> \in inval
    BY <1>1, <2>2, <2>3 DEF IInv, Store, Replaced
  <2>5. <<p, i>> \in Fenced(page, inval)
    BY <2>4 DEF Fenced, Claim
  <2> QED
    BY <1>1, <2>5 DEF IInv, Store, Covered
<1> QED
  BY <1>1, Invariance, PTL

\* A summary becomes outdated unmarked only by publications that overlap.
THEOREM MarkedUnlessRaced == Spec => SummariesMarked
<1>1. ASSUME IInv, [Next]_vars, NEW d \in Docs, NEW p \in Pages, Outdated(d, p)', ~Outdated(d, p)
      PROVE  Raced(d, p)
  <2>1. CASE UNCHANGED store
    BY <1>1, <2>1, OutdatedStays DEF store
  <2>2. UNCHANGED store \/ (\E e \in Editors : Commit(e)) \/ PublishSummary
    BY <1>1 DEF Next, Editor, Child, AskMemory, AskPage, Ask, Plan, Receive, StartJob, ReadHeads,
       Descend, ReadSummary, FinishSummary, ChildDies, Crash, vars, store
  <2> QED
    BY <1>1, <2>1, <2>2, CommitRaced, PublishRaced
<1>2. IInv /\ [Next]_vars =>
        [\A d \in Docs, p \in Pages : Outdated(d, p)' /\ ~Outdated(d, p) => Raced(d, p)]_vars
  BY <1>1
<1> QED
  BY <1>2, Invariance, PTL DEF Spec, SummariesMarked

-----------------------------------------------------------------------------
(***************************************************************************)
(* The jobs and batches that curation comes from: KnowledgeLearning over   *)
(* the catalog of LearningCatalog.  Its threads, children and bounds are   *)
(* the variables and constants declared here.                              *)
(***************************************************************************)
CONSTANTS Decision, MaxJobs, MaxAttempts, MaxDeaths, MayRevoke
VARIABLES outbox, pc, batchRun, jobRun, authority, deaths

L == INSTANCE KnowledgeLearning WITH MaxFaults <- MaxDeaths, faults <- deaths

\* What the two modules assume of the constants, for the instance.
Assumptions == L!CatalogAssumption /\ L!LearningAssumption

(* The inductive invariant of the curation batches. *)

BatchId == Job \X Nat \X Nat
Ended == {"completed", "cancelled"}
BatchRec == [of : Job, items : SUBSET Job, state : L!LiveBatch \cup Ended]
JobRec == [state : L!JobState, batch : BatchId \cup {L!NoBatch}]
AdmRec == [state : {"none", "collected", "open", "sealed"}, batch : BatchId \cup {L!NoBatch},
           round : L!Adm \cup {L!None}, valid : BOOLEAN]

JobsTypeOK ==
    /\ job \in [Job -> JobRec]
    /\ L!Ids \subseteq BatchId /\ batches \in [L!Ids -> BatchRec]
    /\ adm \in [L!Adm -> AdmRec]
    /\ rounds \in [L!Adm -> {"none", "ready", "running", "completed", "cancelled"}]
    /\ counter \in [turns : Nat, receipts : Nat]
    /\ outbox \in Seq(Experience)
    /\ pc \in L!Up \cup {"dead", "closing", "stopped", "starting"}
    /\ batchRun \in [of : BatchId \cup {L!NoBatch}, cancel : BOOLEAN, result : {L!None, "ended"}]
    /\ jobRun \in [of : Job \cup {L!NoBatch}, cancel : BOOLEAN,
                   result : {L!None, "awaiting_answer", "completed", "failed", "parked"}]
    /\ authority \in BOOLEAN /\ deaths \in Nat

Live(b) == batches[b].state \in L!LiveBatch

\* A batch holds finitely many events, never more than it may.
Sized == \A b \in L!Ids : /\ IsFiniteSet(batches[b].items)
                          /\ Cardinality(batches[b].items) <= BatchLimit

\* A first attempt is named by an event it holds and by how many batches that
\* held the event had ended; it is one more of them once it has ended itself.
Named ==
    /\ IsFiniteSet(L!Ids)
    /\ \A b \in L!Ids : b[3] = 0 =>
          /\ b[1] \in batches[b].items
          /\ IF Live(b) THEN b[2] <= L!Generation(b[1]) ELSE b[2] < L!Generation(b[1])

\* What a job or an admission names as its batch holds the event.
HeldJobs == \A j \in Job : job[j].batch # L!NoBatch =>
    job[j].batch \in L!Ids /\ j \in batches[job[j].batch].items
HeldAdm == \A a \in L!Adm : adm[a].batch # L!NoBatch =>
    adm[a].batch \in L!Ids /\ L!JobOf(a) \in batches[adm[a].batch].items

\* The events of a live batch are its own, in the state the batch gives them.
LiveJobs == \A b \in L!Ids : Live(b) => \A j \in batches[b].items :
    job[j] = [state |-> IF batches[b].state = "running" THEN "running" ELSE "waiting", batch |-> b]

\* An event waits for a batch that was not claimed; before that it has none.
Waits == \A j \in Job : job[j].state = "waiting" =>
    job[j].batch # L!NoBatch /\ batches[job[j].batch].state \in {"collecting", "ready"}
Free == \A j \in Job : job[j].state \in {"none", "queued"} => job[j].batch = L!NoBatch

BatchStore ==
    /\ job \in [Job -> JobRec]
    /\ L!Ids \subseteq BatchId /\ batches \in [L!Ids -> BatchRec]
    /\ Sized /\ Named /\ HeldJobs /\ LiveJobs /\ Waits /\ Free

\* The batch in a child runs until its decisions are committed; the job in a
\* child was claimed outside any batch; a stopped service has no child.
BatchChild == batchRun # L!Idle =>
    /\ batchRun.of \in L!Ids
    /\ batchRun.result = L!None => batches[batchRun.of].state = "running"
JobChild == jobRun # L!Idle =>
    jobRun.of \in Job /\ job[jobRun.of] = [state |-> "running", batch |-> L!NoBatch]
Stopped == pc \in {"stopped", "starting"} => batchRun = L!Idle /\ jobRun = L!Idle

Waiting(A) == {a \in A : adm[a].state = "open" /\ adm[a].valid /\ L!Counted(a)}

\* The counter covers what waits for a round, which is finite.
Counts ==
    /\ IsFiniteSet(Waiting(Learning)) /\ IsFiniteSet(Waiting(Experience))
    /\ Cardinality(Waiting(Learning)) <= counter.turns
    /\ Cardinality(Waiting(Experience)) <= counter.receipts
    /\ counter.turns < Threshold /\ counter.receipts < Threshold

BatchInv == JobsTypeOK /\ BatchStore /\ HeldAdm /\ BatchChild /\ JobChild /\ Stopped /\ Counts

\* The library's facts are about this module's Cardinality: the instance's is the same.
LEMMA SameSize == ASSUME NEW S PROVE L!Cardinality(S) = Cardinality(S)
BY DEF L!Cardinality, Cardinality

LEMMA Covers == ASSUME Counts PROVE CounterCovers
<1>1. \A A \in {Learning, Experience} :
        {a \in A : adm[a].state = "open" /\ adm[a].valid /\ Counted(a)} = Waiting(A)
  BY DEF Waiting, Counted, L!Counted, Urgent, L!Urgent
<1> QED BY <1>1 DEF Counts, CounterCovers

LEMMA BatchesOwn == ASSUME BatchInv PROVE BatchOwnsJobs
<1>0. Ids = L!Ids /\ LiveBatch = L!LiveBatch
  BY DEF Ids, L!Ids, LiveBatch, L!LiveBatch
<1>1. ASSUME NEW b \in Ids, batches[b].state \in LiveBatch
      PROVE /\ \A j \in batches[b].items : job[j].batch = b
            /\ \A j \in batches[b].items :
                  job[j].state = IF batches[b].state = "running" THEN "running" ELSE "waiting"
            /\ Cardinality(batches[b].items) <= BatchLimit
  <2>1. \A j \in batches[b].items :
           job[j] = [state |-> IF batches[b].state = "running" THEN "running" ELSE "waiting", batch |-> b]
    BY <1>0, <1>1 DEF BatchInv, BatchStore, LiveJobs, Live
  <2>2. Cardinality(batches[b].items) <= BatchLimit
    BY <1>0 DEF BatchInv, BatchStore, Sized
  <2> QED BY <2>1, <2>2
<1>2. \A j \in Job : job[j].state = "waiting" => batches[job[j].batch].state \in {"collecting", "ready"}
  BY DEF BatchInv, BatchStore, Waits
<1> QED BY <1>1, <1>2 DEF BatchOwnsJobs

LEMMA InitBatchInv == ASSUME Assumptions, L!Init PROVE BatchInv
<1>1. L!Ids = {} /\ batches \in [L!Ids -> BatchRec]
  BY DEF L!Init, L!Ids
<1>2. JobsTypeOK
  BY <1>1
     DEF L!Init, JobsTypeOK, JobRec, L!JobState, AdmRec, L!Idle, L!NoBatch, L!Up,
          Assumptions, L!CatalogAssumption, L!LearningAssumption
<1>3. BatchStore
  <2>1. IsFiniteSet(L!Ids)
    BY <1>1, FS_EmptySet
  <2> QED BY <1>1, <1>2, <2>1
             DEF L!Init, BatchStore, JobsTypeOK, Sized, Named, HeldJobs, LiveJobs, Waits, Free
<1>4. Counts
  <2>1. Waiting(Learning) = {} /\ Waiting(Experience) = {}
    BY DEF L!Init, Waiting, L!Adm
  <2>2. Cardinality({}) = 0 /\ IsFiniteSet({})
    BY FS_EmptySet
  <2> QED BY <2>1, <2>2 DEF L!Init, Counts, Assumptions, L!CatalogAssumption, L!LearningAssumption
<1> QED BY <1>2, <1>3, <1>4 DEF L!Init, BatchInv, HeldAdm, BatchChild, JobChild, Stopped

-----------------------------------------------------------------------------
(* Batches are only added, gain events and end; ended ones stay. *)

Evolves ==
    /\ L!Ids \subseteq L!Ids' /\ IsFiniteSet(L!Ids')
    /\ \A b \in L!Ids : /\ batches[b].items \subseteq batches'[b].items
                        /\ ~Live(b) => batches'[b] = batches[b]
    /\ \A b \in L!Ids' \ L!Ids : b[3] = 0 =>
          /\ b[1] \in batches'[b].items /\ b[2] = L!Generation(b[1])
          /\ batches'[b].state \in L!LiveBatch

\* The batches that held j and ended.
EndedWith(j) == {b \in L!Ids : j \in batches[b].items /\ batches[b].state \notin L!LiveBatch}

LEMMA NamedStays ==
    ASSUME Named, Evolves, L!Ids' \subseteq BatchId PROVE Named'
<1> SUFFICES ASSUME NEW b \in L!Ids', b[3] = 0
    PROVE /\ b[1] \in batches'[b].items
          /\ IF Live(b)' THEN b[2] <= L!Generation(b[1])' ELSE b[2] < L!Generation(b[1])'
  BY DEF Named, Evolves
<1> DEFINE j == b[1]  E == EndedWith(j)  F == EndedWith(j)'
<1>1. E \subseteq F /\ F \subseteq L!Ids' /\ E \subseteq L!Ids
  BY DEF Evolves, EndedWith, Live
<1>2. IsFiniteSet(E) /\ IsFiniteSet(F) /\ Cardinality(E) <= Cardinality(F)
      /\ Cardinality(E) \in Nat /\ Cardinality(F) \in Nat
  BY <1>1, FS_Subset, FS_CardinalityType DEF Evolves, Named
<1>3. L!Generation(j) = Cardinality(E) /\ L!Generation(j)' = Cardinality(F)
  <2>1. L!Generation(j) = L!Cardinality(E) /\ L!Generation(j)' = L!Cardinality(F)
    BY DEF L!Generation, EndedWith
  <2> QED BY <2>1, SameSize
<1>4. b[2] \in Nat
  BY DEF BatchId
<1>5. CASE b \notin L!Ids
  BY <1>5, <1>2, <1>3, <1>4 DEF Evolves, Live
<1>6. CASE b \in L!Ids /\ (Live(b)' \/ ~Live(b))
  BY <1>6, <1>2, <1>3, <1>4 DEF Evolves, Named, Live
<1>7. CASE b \in L!Ids /\ Live(b) /\ ~Live(b)'
  <2>1. b \in F /\ b \notin E /\ j \in batches'[b].items
    BY <1>7 DEF Named, Evolves, Live, EndedWith
  <2>2. E \cup {b} \subseteq F
    BY <2>1, <1>1
  <2>3. Cardinality(E \cup {b}) = Cardinality(E) + 1 /\ Cardinality(E \cup {b}) <= Cardinality(F)
    BY <2>1, <2>2, <1>2, FS_AddElement, FS_Subset
  <2> QED BY <2>1, <2>3, <1>2, <1>3, <1>4, <1>7 DEF Named
<1> QED BY <1>5, <1>6, <1>7
-----------------------------------------------------------------------------
(* What the transactions do to jobs and batches: an event enters a batch,  *)
(* batches are made ready, one is claimed, batches end.                    *)

\* Decisions that were recorded stay.
JobsDecided == \A j \in Job : job[j].state \in L!Settled => job'[j] = job[j]

\* The events J enter the batch b, which collects or is new.
Enters(b, J, rec) ==
    /\ b \in BatchId /\ J \subseteq Job /\ \A j \in J : L!Queued(j)
    /\ rec \in BatchRec /\ rec.state \in {"collecting", "ready"}
    /\ IsFiniteSet(rec.items) /\ Cardinality(rec.items) <= BatchLimit
    /\ IF b \in L!Ids
       THEN batches[b].state = "collecting" /\ rec.items = batches[b].items \cup J
       ELSE rec.items = J /\ (b[3] = 0 => b[1] \in J /\ b[2] = L!Generation(b[1]))
    /\ batches' = L!Put(b, rec)
    /\ job' = [j \in Job |-> IF j \in J THEN [state |-> "waiting", batch |-> b] ELSE job[j]]

LEMMA NoBatchIsNone == ASSUME NEW b \in BatchId PROVE b # L!NoBatch
BY DEF BatchId, L!NoBatch

LEMMA EntersKeeps ==
    ASSUME BatchStore, NEW b, NEW J, NEW rec, Enters(b, J, rec)
    PROVE BatchStore' /\ Evolves /\ JobsDecided
<1>1. L!Ids' = L!Ids \cup {b} /\ L!Ids' \subseteq BatchId /\ batches' \in [L!Ids' -> BatchRec]
  BY DEF Enters, L!Put, BatchStore, L!Ids
<1>2. batches'[b] = rec /\ \A c \in L!Ids \ {b} : batches'[c] = batches[c]
  BY DEF Enters, L!Put
<1>3. IsFiniteSet(L!Ids')
  BY <1>1, FS_AddElement DEF BatchStore, Named
<1>4. Evolves
  BY <1>1, <1>2, <1>3 DEF Evolves, Enters, Live, L!LiveBatch
<1>5. Named'
  BY <1>1, <1>4, NamedStays DEF BatchStore
<1>6. job' \in [Job -> JobRec]
  BY DEF Enters, BatchStore, JobRec, L!JobState
<1>7. Sized'
  BY <1>1, <1>2 DEF Enters, BatchStore, Sized
<1>8. ASSUME NEW j \in Job
      PROVE IF j \in J THEN job'[j] = [state |-> "waiting", batch |-> b] ELSE job'[j] = job[j]
  BY DEF Enters
<1>9. HeldJobs'
  BY <1>1, <1>2, <1>8 DEF Enters, BatchStore, HeldJobs
<1>10. LiveJobs'
  <2> SUFFICES ASSUME NEW c \in L!Ids', Live(c)', NEW j \in batches'[c].items
               PROVE job'[j] = [state |-> IF batches'[c].state = "running" THEN "running" ELSE "waiting",
                                batch |-> c]
    BY DEF LiveJobs
  <2>1. j \in Job
    BY <1>1 DEF BatchRec
  <2>2. CASE c = b /\ j \in J
    BY <2>2, <1>2, <1>8, <2>1 DEF Enters
  <2>3. CASE c = b /\ j \notin J
    BY <2>3, <1>2, <1>8, <2>1 DEF Enters, BatchStore, LiveJobs, Live, L!LiveBatch
  <2>4. CASE c # b
    <3>1. c \in L!Ids /\ batches'[c] = batches[c] /\ Live(c)
      BY <2>4, <1>1, <1>2 DEF Live
    <3>2. job[j] = [state |-> IF batches[c].state = "running" THEN "running" ELSE "waiting", batch |-> c]
      BY <3>1 DEF BatchStore, LiveJobs
    <3>3. j \notin J
      BY <3>2 DEF Enters, L!Queued
    <3> QED BY <3>1, <3>2, <3>3, <1>8, <2>1
  <2> QED BY <2>2, <2>3, <2>4
<1>11. Waits' /\ Free'
  <2>1. b # L!NoBatch
    BY NoBatchIsNone DEF Enters
  <2>2. ASSUME NEW j \in Job, job'[j].state = "waiting"
        PROVE job'[j].batch # L!NoBatch /\ batches'[job'[j].batch].state \in {"collecting", "ready"}
    <3>1. CASE j \in J
      BY <3>1, <1>8, <1>2, <2>1 DEF Enters
    <3>2. CASE j \notin J
      <4>1. job[j].state = "waiting" /\ job'[j] = job[j]
        BY <3>2, <1>8, <2>2
      <4>2. job[j].batch # L!NoBatch /\ batches[job[j].batch].state \in {"collecting", "ready"}
            /\ job[j].batch \in L!Ids
        BY <4>1 DEF BatchStore, Waits, HeldJobs
      <4> QED BY <4>1, <4>2, <1>2 DEF Enters
    <3> QED BY <3>1, <3>2
  <2>3. Free'
    BY <1>8 DEF Free, L!Queued, BatchStore
  <2> QED BY <2>2, <2>3 DEF Waits
<1>12. JobsDecided
  BY <1>8 DEF Enters, JobsDecided, L!Queued, L!Settled
<1> QED BY <1>1, <1>4, <1>5, <1>6, <1>7, <1>9, <1>10, <1>11, <1>12 DEF BatchStore

\* The live batches S end: each of their events is queued again or decided.
\* Events without a batch may be taken up, fail or be decided beside it.
Ends(S, end) ==
    /\ S \subseteq L!Ids /\ end \in Ended /\ \A b \in S : Live(b)
    /\ batches' = [b \in L!Ids |-> IF b \in S THEN [batches[b] EXCEPT !.state = end] ELSE batches[b]]
    /\ job' \in [Job -> JobRec]
    /\ \A j \in Job :
          IF job[j].batch \in S
          THEN \/ job'[j] = [state |-> "queued", batch |-> L!NoBatch]
               \/ job'[j].batch = job[j].batch /\ job'[j].state \in L!Settled
          ELSE \/ job'[j] = job[j]
               \/ /\ job[j].batch = L!NoBatch /\ job[j].state \notin L!Settled
                  /\ job'[j].batch = L!NoBatch /\ job'[j].state # "waiting"

LEMMA EndsKeeps ==
    ASSUME BatchStore, NEW S, NEW end, Ends(S, end)
    PROVE BatchStore' /\ Evolves /\ JobsDecided
<1>1. L!Ids' = L!Ids /\ L!Ids' \subseteq BatchId
  BY DEF Ends, BatchStore, L!Ids
<1>2. ASSUME NEW b \in L!Ids
      PROVE batches'[b] = IF b \in S THEN [batches[b] EXCEPT !.state = end] ELSE batches[b]
  BY DEF Ends
<1>3. batches' \in [L!Ids' -> BatchRec]
  BY <1>1 DEF Ends, BatchStore, BatchRec
<1>4. ASSUME NEW b \in L!Ids
      PROVE /\ batches'[b].items = batches[b].items
            /\ b \in S => ~Live(b)'
            /\ b \notin S => batches'[b] = batches[b]
  <2>1. batches[b] \in BatchRec
    BY DEF BatchStore
  <2> QED BY <2>1, <1>2 DEF Live, Ends, Ended, L!LiveBatch, BatchRec
<1>5. Evolves
  BY <1>1, <1>4 DEF Evolves, Ends, BatchStore, Named
<1>6. Named'
  BY <1>1, <1>5, NamedStays DEF BatchStore
<1>7. Sized'
  BY <1>1, <1>4 DEF BatchStore, Sized
<1>8. HeldJobs'
  <2> SUFFICES ASSUME NEW j \in Job, job'[j].batch # L!NoBatch
               PROVE job'[j].batch \in L!Ids' /\ j \in batches'[job'[j].batch].items
    BY DEF HeldJobs
  <2>1. job'[j].batch = job[j].batch
    BY DEF Ends
  <2> QED BY <2>1, <1>1, <1>4 DEF BatchStore, HeldJobs
<1>9. LiveJobs'
  <2> SUFFICES ASSUME NEW b \in L!Ids', Live(b)', NEW j \in batches'[b].items
               PROVE job'[j] = [state |-> IF batches'[b].state = "running" THEN "running" ELSE "waiting",
                                batch |-> b]
    BY DEF LiveJobs
  <2>1. b \in L!Ids /\ b \notin S /\ batches'[b] = batches[b] /\ Live(b)
    BY <1>1, <1>4 DEF Live
  <2>2. job[j] = [state |-> IF batches[b].state = "running" THEN "running" ELSE "waiting", batch |-> b]
    BY <2>1 DEF BatchStore, LiveJobs
  <2>3. j \in Job /\ b # L!NoBatch
    BY <1>1, <1>3, NoBatchIsNone DEF BatchRec
  <2>4. job'[j] = job[j]
    BY <2>1, <2>2, <2>3 DEF Ends
  <2> QED BY <2>1, <2>2, <2>4
<1>10. Waits'
  <2> SUFFICES ASSUME NEW j \in Job, job'[j].state = "waiting"
               PROVE job'[j].batch # L!NoBatch /\ batches'[job'[j].batch].state \in {"collecting", "ready"}
    BY DEF Waits
  <2>1. job'[j] = job[j] /\ job[j].batch \notin S
    BY DEF Ends, L!Settled
  <2>2. job[j].batch # L!NoBatch /\ batches[job[j].batch].state \in {"collecting", "ready"}
        /\ job[j].batch \in L!Ids
    BY <2>1 DEF BatchStore, Waits, HeldJobs
  <2> QED BY <2>1, <2>2, <1>4
<1>11. Free'
  <2> SUFFICES ASSUME NEW j \in Job, job'[j].state \in {"none", "queued"} PROVE job'[j].batch = L!NoBatch
    BY DEF Free
  <2> QED BY DEF Ends, BatchStore, Free, L!Queued, L!Settled
<1>12. JobsDecided
  <2> SUFFICES ASSUME NEW j \in Job, job[j].state \in L!Settled PROVE job'[j] = job[j]
    BY DEF JobsDecided
  <2>1. CASE job[j].batch \in S
    <3>1. j \in batches[job[j].batch].items /\ Live(job[j].batch)
      BY <2>1, <1>1, NoBatchIsNone DEF BatchStore, HeldJobs, Ends
    <3>2. job[j] = [state |-> IF batches[job[j].batch].state = "running" THEN "running" ELSE "waiting",
                    batch |-> job[j].batch]
      BY <3>1, <2>1 DEF Ends, BatchStore, LiveJobs
    <3>3. job[j].state \in {"running", "waiting"}
      BY <3>2
    <3> QED BY <3>3 DEF L!Settled
  <2>2. CASE job[j].batch \notin S
    BY <2>2 DEF Ends
  <2> QED BY <2>1, <2>2
<1> QED BY <1>1, <1>3, <1>5, <1>6, <1>7, <1>8, <1>9, <1>10, <1>11, <1>12 DEF BatchStore, Ends

\* Collecting batches are made ready; jobs stay.
Readies ==
    /\ DOMAIN batches' = L!Ids /\ batches' \in [L!Ids -> BatchRec]
    /\ \A b \in L!Ids : \/ batches'[b] = batches[b]
                        \/ batches[b].state = "collecting" /\ batches'[b] = [batches[b] EXCEPT !.state = "ready"]
    /\ job' = job

LEMMA ReadiesKeeps ==
    ASSUME BatchStore, Readies
    PROVE BatchStore' /\ Evolves /\ JobsDecided
<1>1. L!Ids' = L!Ids /\ L!Ids' \subseteq BatchId
  BY DEF Readies, BatchStore, L!Ids
<1>2. ASSUME NEW b \in L!Ids
      PROVE /\ batches'[b].items = batches[b].items
            /\ ~Live(b) => batches'[b] = batches[b]
            /\ Live(b)' <=> Live(b)
            /\ batches'[b].state = "running" <=> batches[b].state = "running"
            /\ batches[b].state \in {"collecting", "ready"} => batches'[b].state \in {"collecting", "ready"}
  <2>1. batches[b] \in BatchRec
    BY DEF BatchStore
  <2> QED BY <2>1 DEF Readies, BatchRec, Live, L!LiveBatch
<1>3. Evolves
  BY <1>1, <1>2 DEF Evolves, BatchStore, Named
<1>4. Named'
  BY <1>1, <1>3, NamedStays DEF BatchStore
<1>5. Sized' /\ HeldJobs' /\ Free'
  BY <1>1, <1>2 DEF Readies, BatchStore, Sized, HeldJobs, Free, L!Queued
<1>6. LiveJobs'
  BY <1>1, <1>2 DEF Readies, BatchStore, LiveJobs
<1>7. Waits'
  BY <1>1, <1>2 DEF Readies, BatchStore, Waits, HeldJobs
<1>8. JobsDecided
  BY DEF Readies, JobsDecided
<1> QED BY <1>1, <1>3, <1>4, <1>5, <1>6, <1>7, <1>8 DEF BatchStore, Readies

\* A batch that was not claimed runs, with its events.
Runs(b) ==
    /\ b \in L!Ids /\ batches[b].state \in {"collecting", "ready"}
    /\ batches' = [batches EXCEPT ![b].state = "running"]
    /\ job' = [j \in Job |-> IF j \in batches[b].items THEN [job[j] EXCEPT !.state = "running"] ELSE job[j]]

LEMMA RunsKeeps ==
    ASSUME BatchStore, NEW b, Runs(b)
    PROVE BatchStore' /\ Evolves /\ JobsDecided
<1>1. L!Ids' = L!Ids /\ L!Ids' \subseteq BatchId /\ b \in L!Ids
  BY DEF Runs, BatchStore, L!Ids
<1>2. batches[b] \in BatchRec /\ batches' \in [L!Ids' -> BatchRec]
  BY <1>1 DEF Runs, BatchStore, BatchRec, L!LiveBatch
<1>3. ASSUME NEW c \in L!Ids
      PROVE /\ batches'[c].items = batches[c].items
            /\ IF c = b THEN batches'[c].state = "running" ELSE batches'[c] = batches[c]
  BY <1>2 DEF Runs, BatchStore, BatchRec
<1>4. Live(b) /\ \A j \in batches[b].items : job[j] = [state |-> "waiting", batch |-> b]
  <2>1. Live(b) /\ batches[b].state # "running" /\ b \in L!Ids
    BY DEF Runs, Live, L!LiveBatch
  <2> QED BY <2>1 DEF BatchStore, LiveJobs
<1>5. ASSUME NEW j \in Job
      PROVE job'[j] = IF j \in batches[b].items THEN [state |-> "running", batch |-> b] ELSE job[j]
  BY <1>4 DEF Runs
<1>6. Evolves
  BY <1>1, <1>3, <1>4 DEF Evolves, BatchStore, Named
<1>7. Named'
  BY <1>1, <1>6, NamedStays DEF BatchStore
<1>8. job' \in [Job -> JobRec] /\ Sized'
  BY <1>1, <1>3 DEF Runs, BatchStore, Sized, JobRec, L!JobState
<1>9. HeldJobs'
  BY <1>1, <1>3, <1>5 DEF BatchStore, HeldJobs
<1>10. LiveJobs'
  <2> SUFFICES ASSUME NEW c \in L!Ids, Live(c)', NEW j \in batches[c].items
               PROVE job'[j] = [state |-> IF batches'[c].state = "running" THEN "running" ELSE "waiting",
                                batch |-> c]
    BY <1>1, <1>3 DEF LiveJobs
  <2>1. j \in Job
    BY DEF BatchStore, BatchRec
  <2>2. CASE c = b
    BY <2>2, <2>1, <1>3, <1>5
  <2>3. CASE c # b
    <3>1. job[j] = [state |-> IF batches[c].state = "running" THEN "running" ELSE "waiting", batch |-> c]
      BY <2>3, <1>3 DEF BatchStore, LiveJobs, Live
    <3>2. j \notin batches[b].items
      BY <3>1, <2>3, <1>4
    <3> QED BY <3>1, <3>2, <2>1, <2>3, <1>3, <1>5
  <2> QED BY <2>2, <2>3
<1>11. Waits'
  <2> SUFFICES ASSUME NEW j \in Job, job'[j].state = "waiting"
               PROVE job'[j].batch # L!NoBatch /\ batches'[job'[j].batch].state \in {"collecting", "ready"}
    BY DEF Waits
  <2>1. job'[j] = job[j] /\ j \notin batches[b].items
    BY <1>5
  <2>2. job[j].batch # L!NoBatch /\ batches[job[j].batch].state \in {"collecting", "ready"}
        /\ job[j].batch \in L!Ids /\ j \in batches[job[j].batch].items
    BY <2>1 DEF BatchStore, Waits, HeldJobs
  <2> QED BY <2>1, <2>2, <1>3
<1>12. Free'
  BY <1>5 DEF BatchStore, Free, L!Queued
<1>13. JobsDecided
  BY <1>4, <1>5 DEF JobsDecided, L!Settled
<1> QED BY <1>1, <1>2, <1>6, <1>7, <1>8, <1>9, <1>10, <1>11, <1>12, <1>13 DEF BatchStore

LEMMA SameKeeps ==
    ASSUME BatchStore, UNCHANGED <<job, batches>>
    PROVE BatchStore' /\ Evolves /\ JobsDecided
<1>1. Readies
  BY DEF BatchStore, Readies, L!Ids
<1> QED BY <1>1, ReadiesKeeps

-----------------------------------------------------------------------------
(* What a step that keeps the store leaves to be shown.                    *)

Kept == BatchStore' /\ Evolves /\ JobsDecided

\* The variables beside the store have their types.
Others ==
    /\ adm \in [L!Adm -> AdmRec]
    /\ rounds \in [L!Adm -> {"none", "ready", "running", "completed", "cancelled"}]
    /\ counter \in [turns : Nat, receipts : Nat]
    /\ outbox \in Seq(Experience)
    /\ pc \in L!Up \cup {"dead", "closing", "stopped", "starting"}
    /\ batchRun \in [of : BatchId \cup {L!NoBatch}, cancel : BOOLEAN, result : {L!None, "ended"}]
    /\ jobRun \in [of : Job \cup {L!NoBatch}, cancel : BOOLEAN,
                   result : {L!None, "awaiting_answer", "completed", "failed", "parked"}]
    /\ authority \in BOOLEAN /\ deaths \in Nat

LEMMA PartsOf == ASSUME BatchInv
    PROVE BatchStore /\ Others /\ HeldAdm /\ BatchChild /\ JobChild /\ Stopped /\ Counts
BY DEF BatchInv, JobsTypeOK, Others

LEMMA BatchParts ==
    ASSUME BatchStore', Others', HeldAdm', BatchChild', JobChild', Stopped', Counts'
    PROVE  BatchInv'
BY DEF BatchInv, JobsTypeOK, Others, BatchStore

\* Admissions keep their batches.
LEMMA HeldStays ==
    ASSUME HeldAdm, Evolves, Others, Others', BatchStore', \A a \in L!Adm : adm'[a].batch = adm[a].batch
    PROVE  HeldAdm'
BY DEF HeldAdm, Evolves, L!JobOf

\* What waits for a round is no more than before.
LEMMA CountsStay ==
    ASSUME Counts, Others, counter' = counter,
           \A a \in L!Adm : adm'[a].state = "open" /\ adm'[a].valid => adm[a].state = "open" /\ adm[a].valid
    PROVE  Counts'
<1>1. ASSUME NEW A \in {Learning, Experience}
      PROVE IsFiniteSet(Waiting(A)') /\ Cardinality(Waiting(A)') <= Cardinality(Waiting(A))
            /\ Cardinality(Waiting(A)') \in Nat /\ Cardinality(Waiting(A)) \in Nat
  <2>1. ASSUME NEW a \in Waiting(A)' PROVE a \in Waiting(A)
    <3>1. a \in L!Adm /\ adm'[a].state = "open" /\ adm'[a].valid
      BY DEF Waiting, L!Adm
    <3>2. L!Counted(a) /\ a \in A
      BY DEF Waiting, L!Counted
    <3> QED BY <3>1, <3>2 DEF Waiting
  <2>2. IsFiniteSet(Waiting(A))
    BY DEF Counts
  <2>3. Waiting(A)' \subseteq Waiting(A)
    BY <2>1
  <2> QED BY <2>2, <2>3, FS_Subset, FS_CardinalityType
<1>2. counter.turns \in Nat /\ counter.receipts \in Nat
  BY DEF Others
<1> QED BY <1>1, <1>2 DEF Counts

\* The child's batch is not among those that changed their state.
LEMMA ChildRuns ==
    ASSUME BatchChild, Evolves, UNCHANGED batchRun,
           batchRun # L!Idle /\ batches[batchRun.of].state = "running" =>
               batches'[batchRun.of].state = "running"
    PROVE  BatchChild'
BY DEF BatchChild, Evolves

\* Nothing happened to batches, jobs and admissions.
LEMMA QuietStep ==
    ASSUME BatchInv, UNCHANGED <<job, batches, adm, counter>>,
           Others', BatchChild', JobChild', Stopped'
    PROVE  BatchInv' /\ Kept
<1>1. Kept
  BY PartsOf, SameKeeps DEF Kept
<1>2. HeldAdm'
  BY <1>1, PartsOf, HeldStays DEF Kept
<1>3. Counts'
  BY PartsOf, CountsStay
<1> QED BY <1>1, <1>2, <1>3, BatchParts DEF Kept

\* Events without a batch are taken up, fail or are decided.
Beside ==
    /\ batches' = batches /\ job' \in [Job -> JobRec]
    /\ \A j \in Job : \/ job'[j] = job[j]
                      \/ /\ job[j].batch = L!NoBatch /\ job[j].state \notin L!Settled
                         /\ job'[j].batch = L!NoBatch /\ job'[j].state # "waiting"

LEMMA BesideKeeps ==
    ASSUME BatchStore, Beside
    PROVE  Kept
<1>1. batches' = [b \in L!Ids |-> IF b \in {} THEN [batches[b] EXCEPT !.state = "completed"] ELSE batches[b]]
  BY DEF Beside, BatchStore
<1>2. Ends({}, "completed")
  BY <1>1 DEF Beside, Ends, Ended
<1> QED BY <1>2, EndsKeeps DEF Kept

LEMMA RoundsTyped ==
    ASSUME NEW b, NEW js, NEW bs, NEW rs,
           rs \in [L!Adm -> {"none", "ready", "running", "completed", "cancelled"}]
    PROVE  L!FinishRounds(b, js, bs, rs) \in [L!Adm -> {"none", "ready", "running", "completed", "cancelled"}]
BY DEF L!FinishRounds

LEMMA StartTyped ==
    ASSUME Others, NEW b
    PROVE  L!StartRounds(b) \in [L!Adm -> {"none", "ready", "running", "completed", "cancelled"}]
BY DEF L!StartRounds, Others

-----------------------------------------------------------------------------
(* One lemma for each action that writes to the store.                     *)

LEMMA JobOfTyped == ASSUME Assumptions, NEW a \in L!Adm PROVE L!JobOf(a) \in Job
BY DEF Assumptions, L!CatalogAssumption, L!LearningAssumption, L!Adm, L!JobOf

\* The name of a first attempt is new when its event is queued.
LEMMA NewName ==
    ASSUME BatchStore, NEW j \in Job, L!Queued(j)
    PROVE  <<j, L!Generation(j), 0>> \in BatchId \ L!Ids
<1> DEFINE new == <<j, L!Generation(j), 0>>
<1>1. L!Generation(j) \in Nat
  <2>1. IsFiniteSet(EndedWith(j))
    BY FS_Subset DEF EndedWith, BatchStore, Named
  <2>2. L!Generation(j) = L!Cardinality(EndedWith(j))
    BY DEF L!Generation, EndedWith
  <2> QED BY <2>1, <2>2, SameSize, FS_CardinalityType
<1>2. new \in BatchId /\ new[1] = j /\ new[2] = L!Generation(j) /\ new[3] = 0
  BY <1>1 DEF BatchId
<1>3. ASSUME new \in L!Ids PROVE FALSE
  <2>1. j \in batches[new].items /\ Live(new)
    BY <1>1, <1>2, <1>3 DEF BatchStore, Named
  <2>2. job[j] = [state |-> IF batches[new].state = "running" THEN "running" ELSE "waiting", batch |-> new]
    BY <2>1, <1>3 DEF BatchStore, LiveJobs
  <2> QED BY <2>2 DEF L!Queued
<1> QED BY <1>2, <1>3

LEMMA OneMore ==
    ASSUME NEW S, NEW x, IsFiniteSet(S)
    PROVE  IsFiniteSet(S \cup {x}) /\ Cardinality(S \cup {x}) <= Cardinality(S) + 1
<1>1. IsFiniteSet(S \cup {x})
      /\ Cardinality(S \cup {x}) = IF x \in S THEN Cardinality(S) ELSE Cardinality(S) + 1
  BY FS_AddElement
<1>2. Cardinality(S) \in Nat
  BY FS_CardinalityType
<1> QED BY <1>1, <1>2

LEMMA PutEnters ==
    ASSUME BatchStore, Assumptions, NEW j \in Job, L!Queued(j), L!PutInBatch(j)
    PROVE  \E b, rec : Enters(b, {j}, rec)
<1> DEFINE Open == {b \in L!Ids : /\ batches[b].state = "collecting" /\ L!SameKind(batches[b].of, j)
                                  /\ L!Cardinality(batches[b].items) < BatchLimit}
           New == <<j, L!Generation(j), 0>>
           First == [of |-> j, items |-> {j},
                     state |-> IF j \in L!Urgent \ Learning THEN "ready" ELSE "collecting"]
           Joined(b) == [batches[b] EXCEPT !.items = batches[b].items \cup {j},
                           !.state = IF L!Cardinality(batches[b].items \cup {j}) = BatchLimit
                                     THEN "ready" ELSE batches[b].state]
<1>1. PICK b \in (IF Open = {} THEN {New} ELSE Open) :
          /\ batches' = L!Put(b, IF Open = {} THEN First ELSE Joined(b))
          /\ job' = [job EXCEPT ![j] = [state |-> "waiting", batch |-> b]]
  BY DEF L!PutInBatch
<1>2. job' = [i \in Job |-> IF i \in {j} THEN [state |-> "waiting", batch |-> b] ELSE job[i]]
  BY <1>1 DEF BatchStore
<1>3. CASE Open = {}
  <2>1. b = New /\ New \in BatchId \ L!Ids /\ batches' = L!Put(b, First)
    BY <1>1, <1>3, NewName
  <2>2. New[1] = j /\ New[2] = L!Generation(j)
    OBVIOUS
  <2>3. IsFiniteSet({j}) /\ Cardinality({j}) = 1 /\ 1 <= BatchLimit
    <3>1. IsFiniteSet({j}) /\ Cardinality({j}) = 1
      BY FS_Singleton
    <3>2. 1 <= BatchLimit
      BY DEF Assumptions, L!CatalogAssumption, L!LearningAssumption
    <3> QED BY <3>1, <3>2
  <2>4. First \in BatchRec /\ First.state \in {"collecting", "ready"} /\ First.items = {j}
    BY DEF BatchRec, L!LiveBatch
  <2>5. Enters(b, {j}, First)
    BY <2>1, <2>2, <2>3, <2>4, <1>2 DEF Enters
  <2> QED BY <2>5
<1>4. CASE Open # {}
  <2>1. b \in L!Ids /\ batches[b].state = "collecting" /\ Cardinality(batches[b].items) < BatchLimit
        /\ batches' = L!Put(b, Joined(b))
    BY <1>1, <1>4, SameSize
  <2> DEFINE I == batches[b].items \cup {j}
  <2>2. batches[b] \in BatchRec /\ b \in BatchId
    BY <2>1 DEF BatchStore
  <2>3. IsFiniteSet(I) /\ Cardinality(I) <= BatchLimit
    <3>1. IsFiniteSet(batches[b].items) /\ Cardinality(batches[b].items) \in Nat
      BY <2>1, FS_CardinalityType DEF BatchStore, Sized
    <3>2. IsFiniteSet(I) /\ Cardinality(I) <= Cardinality(batches[b].items) + 1
      BY <3>1, OneMore
    <3>3. Cardinality(I) \in Nat /\ BatchLimit \in Nat
      BY <3>2, FS_CardinalityType DEF Assumptions, L!CatalogAssumption, L!LearningAssumption
    <3> QED BY <3>1, <3>2, <3>3, <2>1
  <2>4. Joined(b) \in BatchRec /\ Joined(b).state \in {"collecting", "ready"} /\ Joined(b).items = I
    BY <2>1, <2>2 DEF BatchRec, L!LiveBatch
  <2>5. Enters(b, {j}, Joined(b))
    BY <2>1, <2>2, <2>3, <2>4, <1>2 DEF Enters
  <2> QED BY <2>5
<1> QED BY <1>3, <1>4

\* What enters a batch changes neither the children's batch nor their job.
LEMMA EntersChildren ==
    ASSUME BatchInv, NEW b, NEW J, NEW rec, Enters(b, J, rec), UNCHANGED <<batchRun, jobRun>>
    PROVE  BatchChild' /\ JobChild'
<1>1. Evolves
  BY PartsOf, EntersKeeps
<1>2. batchRun # L!Idle /\ batches[batchRun.of].state = "running" =>
          batches'[batchRun.of].state = "running"
  BY PartsOf DEF BatchChild, Enters, L!Put
<1>3. JobChild'
  BY PartsOf DEF JobChild, Enters, L!Queued
<1> QED BY <1>1, <1>2, <1>3, PartsOf, ChildRuns

\* What an event beside the batches does not change: the children.
LEMMA BesideChildren ==
    ASSUME BatchInv, Beside, UNCHANGED <<batchRun, jobRun>>,
           jobRun # L!Idle => job'[jobRun.of] = job[jobRun.of]
    PROVE  BatchChild' /\ JobChild'
BY PartsOf DEF BatchChild, JobChild, Beside, L!Ids

LEMMA IngestPreserves ==
    ASSUME BatchInv, NEW j \in Job, L!Ingest(j) PROVE BatchInv' /\ Kept
<1>1. Beside /\ (jobRun # L!Idle => job'[jobRun.of] = job[jobRun.of])
  <2>1. job[j] \in JobRec /\ job[j].batch = L!NoBatch /\ job[j].state = "none"
    BY PartsOf DEF L!Ingest, BatchStore, Free
  <2>2. job'[j] = [state |-> "queued", batch |-> L!NoBatch] /\ \A i \in Job \ {j} : job'[i] = job[i]
    BY <2>1, PartsOf DEF L!Ingest, BatchStore, JobRec
  <2>3. job' \in [Job -> JobRec]
    BY <2>1, PartsOf DEF L!Ingest, BatchStore, JobRec, L!JobState
  <2>4. jobRun # L!Idle => jobRun.of \in Job \ {j}
    BY <2>1, PartsOf DEF JobChild
  <2> QED BY <2>1, <2>2, <2>3, <2>4 DEF Beside, L!Ingest, L!Settled
<1>2. Kept /\ BatchChild' /\ JobChild'
  BY <1>1, PartsOf, BesideKeeps, BesideChildren DEF L!Ingest
<1>3. Others' /\ Stopped'
  BY PartsOf DEF Others, Stopped, L!Ingest
<1>4. HeldAdm' /\ Counts'
  BY <1>2, <1>3, PartsOf, HeldStays, CountsStay DEF Kept, L!Ingest
<1> QED BY <1>2, <1>3, <1>4, BatchParts DEF Kept

LEMMA CollectPreserves ==
    ASSUME BatchInv, Assumptions, NEW a \in L!Adm, L!Collect(a) PROVE BatchInv' /\ Kept
<1> DEFINE j == L!JobOf(a)
<1>1. j \in Job
  BY JobOfTyped
<1>2. Kept /\ BatchChild' /\ JobChild'
  <2>1. CASE L!Queued(j)
    <3>1. L!PutInBatch(j)
      BY <2>1 DEF L!Collect
    <3>2. PICK b, rec : Enters(b, {j}, rec)
      BY <1>1, <2>1, <3>1, PartsOf, PutEnters
    <3> QED BY <3>2, PartsOf, EntersKeeps, EntersChildren DEF Kept, L!Collect
  <2>2. CASE ~L!Queued(j)
    <3>1. UNCHANGED <<job, batches, batchRun, jobRun>>
      BY <2>2 DEF L!Collect
    <3>2. Kept
      BY <3>1, PartsOf, SameKeeps DEF Kept
    <3>3. BatchChild' /\ JobChild'
      BY <3>1, PartsOf DEF BatchChild, JobChild, L!Ids
    <3> QED BY <3>2, <3>3
  <2> QED BY <2>1, <2>2
<1>3. job'[j].batch \in BatchId \cup {L!NoBatch}
  BY <1>1, <1>2 DEF Kept, BatchStore, JobRec
<1>4. ASSUME NEW x \in L!Adm
      PROVE \/ adm'[x] = adm[x]
            \/ /\ x = a /\ adm'[x] \in AdmRec
               /\ adm'[x].state = "collected" /\ adm'[x].batch = job'[j].batch
  <2>1. CASE adm' = adm
    BY <2>1
  <2>2. CASE adm' = [adm EXCEPT ![a].state = "collected", ![a].batch = job'[j].batch]
    <3>1. x # a => adm'[x] = adm[x]
      BY <2>2, PartsOf DEF Others
    <3>2. adm[a] \in AdmRec
          /\ adm'[a] = [adm[a] EXCEPT !.state = "collected", !.batch = job'[j].batch]
      BY <2>2, PartsOf DEF Others
    <3>3. /\ adm'[a] \in AdmRec
          /\ adm'[a].state = "collected" /\ adm'[a].batch = job'[j].batch
      BY <3>2, <1>3 DEF AdmRec
    <3> QED BY <3>1, <3>3
  <2> QED BY <2>1, <2>2 DEF L!Collect
<1>5. Others' /\ Stopped'
  <2>1. adm' \in [L!Adm -> AdmRec]
    BY <1>4, PartsOf DEF L!Collect, Others
  <2> QED BY <2>1, PartsOf DEF Others, Stopped, L!Collect
<1>6. HeldAdm'
  <2> SUFFICES ASSUME NEW x \in L!Adm, adm'[x].batch # L!NoBatch
               PROVE adm'[x].batch \in L!Ids' /\ L!JobOf(x) \in batches'[adm'[x].batch].items
    BY DEF HeldAdm, L!JobOf
  <2>1. CASE adm'[x] = adm[x]
    BY <2>1, <1>2, PartsOf DEF Kept, Evolves, HeldAdm
  <2>2. CASE x = a /\ adm'[x].batch = job'[j].batch
    BY <2>2, <1>1, <1>2 DEF Kept, BatchStore, HeldJobs
  <2> QED BY <2>1, <2>2, <1>4
<1>7. Counts'
  BY <1>4, PartsOf, CountsStay DEF L!Collect
<1> QED BY <1>2, <1>5, <1>6, <1>7, BatchParts DEF Kept

\* What counting or sealing does to what waits.
LEMMA AdmitCounts ==
    ASSUME BatchInv, Assumptions, NEW a \in L!Adm, NEW urgent \in BOOLEAN, L!Admit(a, urgent)
    PROVE  Counts' /\ counter' \in [turns : Nat, receipts : Nat]
<1> DEFINE turns == counter.turns + (IF a \in Learning /\ L!Counted(a) THEN 1 ELSE 0)
           receipts == counter.receipts + (IF a \in Experience THEN 1 ELSE 0)
           Sealed == urgent \/ turns >= Threshold \/ receipts >= Threshold
           W == L!SealWindow(a)
<1>1. turns \in Nat /\ receipts \in Nat /\ Threshold \in Nat \ {0} /\ counter \in [turns : Nat, receipts : Nat]
  BY PartsOf DEF Others, Assumptions, L!CatalogAssumption, L!LearningAssumption
<1>2. Learning \cap Experience = {} /\ (a \in Experience => L!Counted(a))
  BY DEF Assumptions, L!CatalogAssumption, L!LearningAssumption, L!Counted
<1>3. CASE Sealed
  <2>1. /\ adm' = [x \in L!Adm |-> IF x \in W THEN [adm[x] EXCEPT !.state = "sealed", !.round = a] ELSE adm[x]]
        /\ counter' = L!AfterSeal(a)
    BY <1>3 DEF L!Admit
  <2>2. ASSUME NEW x \in L!Adm, adm'[x].state = "open", adm'[x].valid
        PROVE x \notin W /\ adm[x].state = "open" /\ adm[x].valid
    <3>1. adm[x] \in AdmRec
      BY PartsOf DEF Others
    <3>2. x \in W => adm'[x].state = "sealed"
      BY <2>1, <3>1 DEF AdmRec
    <3> QED BY <3>2, <2>1, <2>2
  <2>3. CASE L!Counted(a)
    <3>1. ASSUME NEW A \in {Learning, Experience} PROVE Waiting(A)' = {}
      <4>1. ASSUME NEW x \in Waiting(A)' PROVE FALSE
        <5>1. x \in L!Adm /\ adm'[x].state = "open" /\ adm'[x].valid
          BY DEF Waiting, L!Adm
        <5>2. x \in W
          BY <5>1, <2>2, <2>3 DEF L!SealWindow
        <5> QED BY <5>1, <5>2, <2>2
      <4> QED BY <4>1
    <3>2. counter' = [turns |-> 0, receipts |-> 0]
      BY <2>1, <2>3 DEF L!AfterSeal
    <3>3. IsFiniteSet({}) /\ Cardinality({}) = 0
      BY FS_EmptySet
    <3>4. Waiting(Learning)' = {} /\ Waiting(Experience)' = {}
      BY <3>1
    <3>5. counter'.turns = 0 /\ counter'.receipts = 0 /\ counter' \in [turns : Nat, receipts : Nat]
      BY <3>2
    <3> QED BY <3>3, <3>4, <3>5, <1>1 DEF Counts
  <2>4. CASE ~L!Counted(a)
    <3>1. counter' = counter
      BY <2>1, <2>4 DEF L!AfterSeal
    <3> QED BY <3>1, <2>2, <1>1, PartsOf, CountsStay
  <2> QED BY <2>3, <2>4
<1>4. CASE ~Sealed
  <2>1. /\ adm' = [adm EXCEPT ![a].state = "open"]
        /\ counter' = [turns |-> turns, receipts |-> receipts]
    BY <1>4 DEF L!Admit
  <2>2. turns < Threshold /\ receipts < Threshold
    BY <1>1, <1>4
  <2>3. L!Counted(a)
    BY <1>4 DEF L!Admit, L!Counted
  <2>4. ASSUME NEW A \in {Learning, Experience}
        PROVE /\ Waiting(A)' \subseteq IF a \in A THEN Waiting(A) \cup {a} ELSE Waiting(A)
              /\ IsFiniteSet(Waiting(A)')
              /\ Cardinality(Waiting(A)') <= Cardinality(Waiting(A)) + (IF a \in A THEN 1 ELSE 0)
              /\ Cardinality(Waiting(A)') \in Nat /\ Cardinality(Waiting(A)) \in Nat
    <3>1. ASSUME NEW x \in Waiting(A)', x # a PROVE x \in Waiting(A)
      <4>1. x \in L!Adm /\ x \in A /\ L!Counted(x) /\ adm'[x].state = "open" /\ adm'[x].valid
        BY DEF Waiting, L!Adm, L!Counted
      <4>2. adm'[x] = adm[x]
        BY <2>1, <3>1, <4>1, PartsOf DEF Others
      <4> QED BY <4>1, <4>2 DEF Waiting
    <3>2. a \in Waiting(A)' => a \in A
      BY DEF Waiting
    <3>3. Waiting(A)' \subseteq IF a \in A THEN Waiting(A) \cup {a} ELSE Waiting(A)
      BY <3>1, <3>2
    <3>4. IsFiniteSet(Waiting(A)) /\ Cardinality(Waiting(A)) \in Nat
      BY PartsOf, FS_CardinalityType DEF Counts
    <3>5. /\ IsFiniteSet(Waiting(A) \cup {a}) /\ Cardinality(Waiting(A) \cup {a}) <= Cardinality(Waiting(A)) + 1
          /\ Cardinality(Waiting(A) \cup {a}) \in Nat
      BY <3>4, OneMore, FS_CardinalityType
    <3>6. CASE a \in A
      <4>1. IsFiniteSet(Waiting(A)') /\ Cardinality(Waiting(A)') <= Cardinality(Waiting(A) \cup {a})
            /\ Cardinality(Waiting(A)') \in Nat
        BY <3>3, <3>5, <3>6, FS_Subset, FS_CardinalityType
      <4> QED BY <3>3, <3>4, <3>5, <3>6, <4>1
    <3>7. CASE a \notin A
      <4>1. IsFiniteSet(Waiting(A)') /\ Cardinality(Waiting(A)') <= Cardinality(Waiting(A))
            /\ Cardinality(Waiting(A)') \in Nat
        BY <3>3, <3>4, <3>7, FS_Subset, FS_CardinalityType
      <4> QED BY <3>3, <3>4, <3>7, <4>1
    <3> QED BY <3>6, <3>7
  <2>5. counter'.turns = turns /\ counter'.receipts = receipts /\ counter' \in [turns : Nat, receipts : Nat]
    BY <2>1, <1>1
  <2>6. Cardinality(Waiting(Learning)) <= counter.turns /\ Cardinality(Waiting(Experience)) <= counter.receipts
        /\ counter.turns \in Nat /\ counter.receipts \in Nat
    BY PartsOf DEF Counts, Others
  <2>7. /\ IsFiniteSet(Waiting(Learning)') /\ Cardinality(Waiting(Learning)') <= turns
        /\ IsFiniteSet(Waiting(Experience)') /\ Cardinality(Waiting(Experience)') <= receipts
    <3>1. IsFiniteSet(Waiting(Learning)') /\ Cardinality(Waiting(Learning)') <= turns
      BY <2>3, <2>4, <2>6
    <3>2. IsFiniteSet(Waiting(Experience)') /\ Cardinality(Waiting(Experience)') <= receipts
      BY <2>4, <2>6
    <3> QED BY <3>1, <3>2
  <2> QED BY <2>2, <2>5, <2>7 DEF Counts
<1> QED BY <1>3, <1>4

LEMMA AdmitPreserves ==
    ASSUME BatchInv, Assumptions, NEW a \in L!Adm, NEW urgent \in BOOLEAN, L!Admit(a, urgent)
    PROVE  BatchInv' /\ Kept
<1>1. Readies
  <2>1. \A b \in L!Ids : batches[b] \in BatchRec
    BY PartsOf DEF BatchStore
  <2>2. CASE batches' = batches
    BY <2>1, <2>2, PartsOf DEF Readies, L!Admit, BatchStore, L!Ids
  <2>3. CASE batches' = [b \in L!Ids |-> IF \E x \in L!SealWindow(a) : adm[x].batch = b THEN L!Ready(b, batches)
                                         ELSE batches[b]]
    <3>1. ASSUME NEW b \in L!Ids
          PROVE /\ L!Ready(b, batches) \in BatchRec
                /\ \/ L!Ready(b, batches) = batches[b]
                   \/ batches[b].state = "collecting"
                      /\ L!Ready(b, batches) = [batches[b] EXCEPT !.state = "ready"]
      BY <2>1 DEF L!Ready, BatchRec, L!LiveBatch
    <3>2. batches' \in [L!Ids -> BatchRec] /\ DOMAIN batches' = L!Ids
      BY <2>1, <2>3, <3>1
    <3>3. \A b \in L!Ids : \/ batches'[b] = batches[b]
                           \/ batches[b].state = "collecting" /\ batches'[b] = [batches[b] EXCEPT !.state = "ready"]
      BY <2>3, <3>1
    <3> QED BY <3>2, <3>3 DEF Readies, L!Admit
  <2> QED BY <2>2, <2>3 DEF L!Admit
<1>2. Kept
  BY <1>1, PartsOf, ReadiesKeeps DEF Kept
<1>3. ASSUME NEW x \in L!Adm
      PROVE adm'[x] \in AdmRec /\ adm'[x].batch = adm[x].batch
  <2>1. adm[x] \in AdmRec
    BY PartsOf DEF Others
  <2>2. \/ adm'[x] = adm[x] \/ adm'[x] = [adm[x] EXCEPT !.state = "sealed", !.round = a]
        \/ adm'[x] = [adm[x] EXCEPT !.state = "open"]
    <3>1. \/ adm' = [y \in L!Adm |-> IF y \in L!SealWindow(a) THEN [adm[y] EXCEPT !.state = "sealed", !.round = a]
                                     ELSE adm[y]]
          \/ adm' = [adm EXCEPT ![a].state = "open"]
      BY DEF L!Admit
    <3>2. adm \in [L!Adm -> AdmRec]
      BY PartsOf DEF Others
    <3> QED BY <3>1, <3>2
  <2> QED BY <2>1, <2>2 DEF AdmRec
<1>4. adm' \in [L!Adm -> AdmRec]
  <2>1. DOMAIN adm' = L!Adm /\ adm' = [x \in DOMAIN adm' |-> adm'[x]]
    BY PartsOf DEF L!Admit, Others
  <2> QED BY <2>1, <1>3
<1>5. Counts' /\ counter' \in [turns : Nat, receipts : Nat]
  BY AdmitCounts
<1>6. rounds' \in [L!Adm -> {"none", "ready", "running", "completed", "cancelled"}]
  BY PartsOf DEF L!Admit, Others
<1>7. Others' /\ Stopped'
  BY <1>4, <1>5, <1>6, PartsOf DEF Others, Stopped, L!Admit
<1>8. HeldAdm'
  BY <1>2, <1>3, <1>7, PartsOf, HeldStays DEF Kept
<1>9. BatchChild' /\ JobChild'
  <2>1. batchRun # L!Idle /\ batches[batchRun.of].state = "running" => batches'[batchRun.of].state = "running"
    BY <1>1, PartsOf DEF BatchChild, Readies
  <2> QED BY <2>1, <1>1, <1>2, PartsOf, ChildRuns DEF Kept, JobChild, L!Admit, Readies
<1> QED BY <1>2, <1>5, <1>7, <1>8, <1>9, BatchParts DEF Kept

\* Batches that end leave the children alone, if they are not the child's and
\* the job in a child did not change.
LEMMA EndsChildren ==
    ASSUME BatchInv, NEW S, NEW end, Ends(S, end), UNCHANGED <<batchRun, jobRun>>,
           batchRun # L!Idle => batchRun.of \notin S,
           jobRun # L!Idle => job'[jobRun.of] = job[jobRun.of]
    PROVE  BatchChild' /\ JobChild'
<1>1. Evolves
  BY PartsOf, EndsKeeps
<1>2. batchRun # L!Idle /\ batches[batchRun.of].state = "running" =>
          batches'[batchRun.of].state = "running"
  BY PartsOf DEF BatchChild, Ends
<1> QED BY <1>1, <1>2, PartsOf, ChildRuns DEF JobChild

LEMMA InvalidatePreserves ==
    ASSUME BatchInv, Assumptions, NEW e \in L!Urgent, L!Invalidate(e) PROVE BatchInv' /\ Kept
<1> DEFINE Old == {a \in L!Adm : L!JobOf(a) = Replaces[e] /\ adm[a].state \in {"open", "sealed"}}
           Hit == {adm[a].round : a \in {x \in Old : adm[x].valid}} \ {L!None}
           Cut == {b \in {adm[a].batch : a \in {x \in L!Adm : adm[x].round \in Hit}} :
                      batches[b].state \in {"collecting", "ready"}}
           S == Cut \cap L!Ids
<1>1. /\ adm' = [a \in L!Adm |-> IF a \in Old THEN [adm[a] EXCEPT !.valid = FALSE] ELSE adm[a]]
      /\ rounds' = [r \in L!Adm |-> IF r \in Hit THEN "cancelled" ELSE rounds[r]]
      /\ batches' = [b \in L!Ids |-> IF b \in Cut THEN [batches[b] EXCEPT !.state = "cancelled"]
                                     ELSE batches[b]]
      /\ job' = [j \in Job |-> IF job[j].batch \in Cut /\ job[j].state \in {"waiting", "queued"}
                               THEN [job[j] EXCEPT !.state = "cancelled"] ELSE job[j]]
      /\ UNCHANGED <<counter, outbox, pc, batchRun, jobRun, authority, deaths>>
  BY DEF L!Invalidate
<1>2. Ends(S, "cancelled")
  <2>1. batches' = [b \in L!Ids |-> IF b \in S THEN [batches[b] EXCEPT !.state = "cancelled"] ELSE batches[b]]
    BY <1>1
  <2>2. S \subseteq L!Ids /\ \A b \in S : batches[b].state \in {"collecting", "ready"} /\ Live(b)
    BY DEF Live, L!LiveBatch
  <2>3. job' \in [Job -> JobRec]
    <3>1. ASSUME NEW j \in Job PROVE [job[j] EXCEPT !.state = "cancelled"] \in JobRec
      BY PartsOf DEF BatchStore, JobRec, L!JobState
    <3> QED BY <3>1, <1>1, PartsOf DEF BatchStore
  <2>4. ASSUME NEW j \in Job
        PROVE  IF job[j].batch \in S
               THEN \/ job'[j] = [state |-> "queued", batch |-> L!NoBatch]
                    \/ job'[j].batch = job[j].batch /\ job'[j].state \in L!Settled
               ELSE \/ job'[j] = job[j]
                    \/ /\ job[j].batch = L!NoBatch /\ job[j].state \notin L!Settled
                       /\ job'[j].batch = L!NoBatch /\ job'[j].state # "waiting"
    <3>1. job[j] \in JobRec
      BY PartsOf DEF BatchStore
    <3>2. CASE job[j].batch \in S
      <4>1. job[j].state = "waiting"
        <5>1. job[j].batch # L!NoBatch
          BY <3>2, PartsOf, NoBatchIsNone DEF BatchStore
        <5>2. j \in batches[job[j].batch].items
          BY <5>1, PartsOf DEF BatchStore, HeldJobs
        <5>3. job[j] = [state |-> IF batches[job[j].batch].state = "running" THEN "running" ELSE "waiting",
                        batch |-> job[j].batch]
          BY <5>2, <2>2, <3>2, PartsOf DEF BatchStore, LiveJobs
        <5>4. batches[job[j].batch].state # "running"
          BY <2>2, <3>2
        <5> QED BY <5>3, <5>4
      <4>2. job'[j] = [job[j] EXCEPT !.state = "cancelled"]
        BY <4>1, <3>2, <1>1
      <4> QED BY <4>2, <3>1, <3>2 DEF JobRec, L!Settled
    <3>3. CASE job[j].batch \notin S /\ job'[j] # job[j]
      <4>1. job[j].batch \in Cut /\ job[j].state \in {"waiting", "queued"}
            /\ job'[j] = [job[j] EXCEPT !.state = "cancelled"]
        BY <3>3, <1>1
      <4>2. job[j].batch = L!NoBatch
        BY <4>1, <3>3, PartsOf DEF BatchStore, HeldJobs
      <4> QED BY <4>1, <4>2, <3>1, <3>3 DEF JobRec, L!Settled
    <3> QED BY <3>2, <3>3
  <2> QED BY <2>1, <2>2, <2>3, <2>4 DEF Ends, Ended
<1>3. Kept
  BY <1>2, PartsOf, EndsKeeps DEF Kept
<1>4. BatchChild' /\ JobChild'
  <2>1. jobRun # L!Idle => job'[jobRun.of] = job[jobRun.of]
    BY <1>1, PartsOf DEF JobChild
  <2>2. CASE batchRun # L!Idle => batchRun.of \notin S
    BY <2>1, <2>2, <1>1, <1>2, PartsOf, EndsChildren
  <2>3. CASE batchRun # L!Idle /\ batchRun.of \in S
    <3>1. batchRun.result # L!None
      BY <2>3, PartsOf DEF BatchChild
    <3> QED BY <2>1, <3>1, <1>1, <1>3, PartsOf DEF Kept, Evolves, BatchChild, JobChild
  <2> QED BY <2>2, <2>3
<1>5. ASSUME NEW a \in L!Adm
      PROVE  /\ adm'[a] \in AdmRec /\ adm'[a].batch = adm[a].batch
             /\ adm'[a].state = adm[a].state /\ (adm'[a].valid => adm[a].valid)
  <2>1. adm[a] \in AdmRec
    BY PartsOf DEF Others
  <2>2. adm'[a] = adm[a] \/ adm'[a] = [adm[a] EXCEPT !.valid = FALSE]
    BY <1>1
  <2> QED BY <2>1, <2>2 DEF AdmRec
<1>6. Others' /\ Stopped'
  <2>1. adm' \in [L!Adm -> AdmRec]
    BY <1>1, <1>5
  <2>2. rounds' \in [L!Adm -> {"none", "ready", "running", "completed", "cancelled"}]
    BY <1>1, PartsOf DEF Others
  <2> QED BY <2>1, <2>2, <1>1, PartsOf DEF Others, Stopped
<1>7. HeldAdm' /\ Counts'
  BY <1>1, <1>3, <1>5, <1>6, PartsOf, HeldStays, CountsStay DEF Kept
<1> QED BY <1>3, <1>4, <1>6, <1>7, BatchParts DEF Kept

LEMMA CollectPendingPreserves ==
    ASSUME BatchInv, Assumptions, NEW j \in Job, L!CollectPending(j) PROVE BatchInv' /\ Kept
<1>1. L!Queued(j) /\ UNCHANGED <<adm, rounds, counter, outbox, pc, batchRun, jobRun, authority, deaths>>
  BY DEF L!CollectPending, L!UrgentFirst, L!Plain
<1>2. Kept /\ BatchChild' /\ JobChild'
  <2>1. CASE L!PutInBatch(j)
    <3>1. PICK b, rec : Enters(b, {j}, rec)
      BY <1>1, <2>1, PartsOf, PutEnters
    <3> QED BY <3>1, <1>1, PartsOf, EntersKeeps, EntersChildren DEF Kept
  <2>2. CASE job' = [job EXCEPT ![j].state = "failed"] /\ UNCHANGED batches
    <3>1. job[j] \in JobRec /\ job[j].batch = L!NoBatch /\ job[j].state = "queued"
      BY <1>1, PartsOf DEF BatchStore, Free, L!Queued
    <3>2. job' \in [Job -> JobRec] /\ job'[j].batch = L!NoBatch /\ job'[j].state = "failed"
          /\ \A i \in Job \ {j} : job'[i] = job[i]
      BY <2>2, <3>1, PartsOf DEF BatchStore, JobRec, L!JobState
    <3>3. Beside
      BY <2>2, <3>1, <3>2 DEF Beside, L!Settled
    <3>4. jobRun # L!Idle => job'[jobRun.of] = job[jobRun.of]
      BY <3>1, <3>2, PartsOf DEF JobChild
    <3> QED BY <3>3, <3>4, <1>1, PartsOf, BesideKeeps, BesideChildren
  <2> QED BY <2>1, <2>2 DEF L!CollectPending
<1>3. Others' /\ Stopped'
  BY <1>1, PartsOf DEF Others, Stopped
<1>4. HeldAdm' /\ Counts'
  BY <1>1, <1>2, <1>3, PartsOf, HeldStays, CountsStay DEF Kept
<1> QED BY <1>2, <1>3, <1>4, BatchParts DEF Kept

LEMMA RecoverPreserves ==
    ASSUME BatchInv, Assumptions, NEW b \in L!Ids, L!Recover(b) PROVE BatchInv' /\ Kept
<1> DEFINE J == L!ReleasedBy(b)
           Bound == {a \in L!Adm : L!JobOf(a) \in J /\ adm[a].batch = b /\ adm[a].valid /\ L!RoundDue(a)}
           new == <<b[1], b[2], b[3] + 1>>
           rec == [of |-> batches[b].of, items |-> J, state |-> "ready"]
           Rounds == [L!Adm -> {"none", "ready", "running", "completed", "cancelled"}]
<1>1. J \subseteq Job /\ \A j \in J : L!Queued(j) /\ job[j].batch = L!NoBatch
  BY DEF L!ReleasedBy, Assumptions, L!CatalogAssumption, L!LearningAssumption
<1>2. b \in BatchId /\ b # L!NoBatch /\ batches[b] \in BatchRec
  BY PartsOf, NoBatchIsNone DEF BatchStore
<1>3. J \subseteq batches[b].items
  BY <1>2, PartsOf DEF L!ReleasedBy, HeldAdm
<1>4. UNCHANGED <<counter, outbox, batchRun, jobRun, authority, deaths>> /\ pc = "recover"
  BY DEF L!Recover
<1>5. CASE L!FailJobs(b, J, batches) /\ UNCHANGED <<batches, adm, pc>>
  <2>1. job' = [j \in Job |-> IF j \in J THEN [job[j] EXCEPT !.state = "failed"] ELSE job[j]]
        /\ rounds' = L!FinishRounds(b, job', batches, rounds)
    BY <1>5 DEF L!FailJobs
  <2>2. Beside
    <3>1. ASSUME NEW j \in Job
          PROVE /\ job'[j] \in JobRec
                /\ \/ job'[j] = job[j]
                   \/ /\ job[j].batch = L!NoBatch /\ job[j].state \notin L!Settled
                      /\ job'[j].batch = L!NoBatch /\ job'[j].state # "waiting"
      <4>1. job[j] \in JobRec
        BY PartsOf DEF BatchStore
      <4>2. CASE j \in J
        BY <4>1, <4>2, <1>1, <2>1 DEF JobRec, L!JobState, L!Queued, L!Settled
      <4>3. CASE j \notin J
        BY <4>1, <4>3, <2>1
      <4> QED BY <4>2, <4>3
    <3>2. job' \in [Job -> JobRec]
      BY <2>1, <3>1
    <3> QED BY <3>1, <3>2, <1>5 DEF Beside
  <2>3. jobRun # L!Idle => job'[jobRun.of] = job[jobRun.of]
    BY <2>1, <1>1, PartsOf DEF JobChild, L!Queued
  <2>4. Kept /\ BatchChild' /\ JobChild'
    BY <2>2, <2>3, <1>4, PartsOf, BesideKeeps, BesideChildren
  <2>5. rounds' \in Rounds
    BY <2>1, PartsOf, RoundsTyped DEF Others
  <2>6. Others' /\ Stopped'
    BY <2>5, <1>4, <1>5, PartsOf DEF Others, Stopped
  <2>7. HeldAdm' /\ Counts'
    BY <2>4, <2>6, <1>4, <1>5, PartsOf, HeldStays, CountsStay DEF Kept
  <2> QED BY <2>4, <2>6, <2>7, BatchParts DEF Kept
<1>6. CASE pc' = "dead" /\ UNCHANGED <<job, batches, adm, rounds>>
  <2>1. Others' /\ Stopped'
    BY <1>4, <1>6, PartsOf DEF Others, Stopped
  <2>2. BatchChild' /\ JobChild'
    BY <1>4, <1>6, PartsOf DEF BatchChild, JobChild, L!Ids
  <2> QED BY <2>1, <2>2, <1>4, <1>6, QuietStep
<1>7. CASE /\ new \notin L!Ids
           /\ batches' = L!Put(new, rec)
           /\ job' = [j \in Job |-> IF j \in J THEN [state |-> "waiting", batch |-> new] ELSE job[j]]
           /\ adm' = [a \in L!Adm |-> IF a \in Bound THEN [adm[a] EXCEPT !.batch = new] ELSE adm[a]]
           /\ UNCHANGED <<rounds, pc>>
  <2>1. new \in BatchId /\ new[3] # 0
    BY <1>2 DEF BatchId
  <2>2. IsFiniteSet(J) /\ Cardinality(J) <= BatchLimit
    <3>1. IsFiniteSet(batches[b].items) /\ Cardinality(batches[b].items) <= BatchLimit
      BY PartsOf DEF BatchStore, Sized
    <3>2. IsFiniteSet(J) /\ Cardinality(J) <= Cardinality(batches[b].items)
      BY <3>1, <1>3, FS_Subset
    <3>3. Cardinality(J) \in Nat /\ Cardinality(batches[b].items) \in Nat /\ BatchLimit \in Nat
      BY <3>1, <3>2, FS_CardinalityType DEF Assumptions, L!CatalogAssumption, L!LearningAssumption
    <3> QED BY <3>1, <3>2, <3>3
  <2>3. rec \in BatchRec
    BY <1>1, <1>2 DEF BatchRec, L!LiveBatch
  <2>4. Enters(new, J, rec)
    BY <1>1, <1>7, <2>1, <2>2, <2>3 DEF Enters
  <2>5. Kept /\ BatchChild' /\ JobChild'
    BY <2>4, <1>4, PartsOf, EntersKeeps, EntersChildren DEF Kept
  <2>6. ASSUME NEW a \in L!Adm
        PROVE  /\ adm'[a] \in AdmRec /\ adm'[a].state = adm[a].state /\ adm'[a].valid = adm[a].valid
               /\ IF a \in Bound THEN adm'[a].batch = new ELSE adm'[a] = adm[a]
    <3>1. adm[a] \in AdmRec
      BY PartsOf DEF Others
    <3>2. adm'[a] = IF a \in Bound THEN [adm[a] EXCEPT !.batch = new] ELSE adm[a]
      BY <1>7
    <3> QED BY <3>1, <3>2, <2>1 DEF AdmRec
  <2>7. adm' \in [L!Adm -> AdmRec]
    BY <2>6, <1>7
  <2>8. Others' /\ Stopped'
    BY <2>7, <1>4, <1>7, PartsOf DEF Others, Stopped
  <2>9. HeldAdm'
    <3> SUFFICES ASSUME NEW a \in L!Adm, adm'[a].batch # L!NoBatch
                 PROVE adm'[a].batch \in L!Ids' /\ L!JobOf(a) \in batches'[adm'[a].batch].items
      BY DEF HeldAdm, L!JobOf
    <3>1. CASE a \in Bound
      BY <3>1, <2>6, <1>7 DEF L!Put, L!Ids
    <3>2. CASE a \notin Bound
      BY <3>2, <2>5, <2>6, PartsOf DEF Kept, Evolves, HeldAdm
    <3> QED BY <3>1, <3>2
  <2>10. Counts'
    BY <2>6, <1>4, PartsOf, CountsStay
  <2> QED BY <2>5, <2>8, <2>9, <2>10, BatchParts DEF Kept
<1> QED
  <2>1. \/ L!FailJobs(b, J, batches) /\ UNCHANGED <<batches, adm, pc>>
        \/ pc' = "dead" /\ UNCHANGED <<job, batches, adm, rounds>>
        \/ /\ new \notin L!Ids
           /\ batches' = L!Put(new, rec)
           /\ job' = [j \in Job |-> IF j \in J THEN [state |-> "waiting", batch |-> new] ELSE job[j]]
           /\ adm' = [a \in L!Adm |-> IF a \in Bound THEN [adm[a] EXCEPT !.batch = new] ELSE adm[a]]
           /\ UNCHANGED <<rounds, pc>>
    BY DEF L!Recover
  <2> QED BY <2>1, <1>5, <1>6, <1>7

\* A batch that ends with the decisions of its run.
LEMMA FinishEnds ==
    ASSUME BatchInv, Assumptions, NEW b \in L!Ids, Live(b), NEW state \in Ended, NEW rs,
           rs \in [L!Adm -> {"none", "ready", "running", "completed", "cancelled"}],
           NEW D \in SUBSET batches[b].items, NEW result \in [D -> Decision],
           L!FinishBatch(b, result, state, rs)
    PROVE  /\ Ends({b}, state)
           /\ \A j \in Job : job[j].batch # b => job'[j] = job[j]
           /\ rounds' \in [L!Adm -> {"none", "ready", "running", "completed", "cancelled"}]
<1> DEFINE js == [j \in Job |-> CASE j \in DOMAIN result -> [job[j] EXCEPT !.state = result[j]]
                                  [] j \in batches[b].items \ DOMAIN result ->
                                         [state |-> "queued", batch |-> L!NoBatch]
                                  [] OTHER -> job[j]]
<1>1. /\ job' = js
      /\ batches' = [batches EXCEPT ![b].state = state]
      /\ rounds' = L!FinishRounds(b, js, [batches EXCEPT ![b].state = state], rs)
  BY DEF L!FinishBatch
<1>2. DOMAIN result = D
  OBVIOUS
<1>3. batches' = [c \in L!Ids |-> IF c \in {b} THEN [batches[c] EXCEPT !.state = state] ELSE batches[c]]
  BY <1>1, PartsOf DEF BatchStore
<1>4. ASSUME NEW j \in Job
      PROVE  /\ job'[j] \in JobRec
             /\ j \in batches[b].items <=> job[j].batch = b
             /\ j \in batches[b].items =>
                   \/ job'[j] = [state |-> "queued", batch |-> L!NoBatch]
                   \/ job'[j].batch = job[j].batch /\ job'[j].state \in L!Settled
             /\ j \notin batches[b].items => job'[j] = job[j]
  <2>1. job[j] \in JobRec /\ b # L!NoBatch
    BY PartsOf, NoBatchIsNone DEF BatchStore
  <2>2. j \in batches[b].items <=> job[j].batch = b
    <3>1. ASSUME j \in batches[b].items PROVE job[j].batch = b
      <4>1. job[j] = [state |-> IF batches[b].state = "running" THEN "running" ELSE "waiting", batch |-> b]
        BY <3>1, PartsOf DEF BatchStore, LiveJobs
      <4> QED BY <4>1
    <3>2. ASSUME job[j].batch = b PROVE j \in batches[b].items
      BY <2>1, <3>2, PartsOf DEF BatchStore, HeldJobs
    <3> QED BY <3>1, <3>2
  <2>3. CASE j \in D
    <3>1. job'[j] = [job[j] EXCEPT !.state = result[j]] /\ result[j] \in Decision
      BY <1>1, <1>2, <2>3
    <3> QED BY <3>1, <2>1, <2>2, <2>3
               DEF JobRec, L!JobState, L!Settled, Assumptions, L!CatalogAssumption, L!LearningAssumption
  <2>4. CASE j \in batches[b].items \ D
    <3>1. job'[j] = [state |-> "queued", batch |-> L!NoBatch]
      BY <1>1, <1>2, <2>4
    <3> QED BY <3>1, <2>2, <2>4 DEF JobRec, L!JobState
  <2>5. CASE j \notin batches[b].items
    <3>1. job'[j] = job[j]
      BY <1>1, <1>2, <2>5
    <3> QED BY <3>1, <2>1, <2>2, <2>5
  <2> QED BY <2>3, <2>4, <2>5
<1>5. job' \in [Job -> JobRec]
  BY <1>1, <1>4
<1>6. Ends({b}, state)
  BY <1>3, <1>4, <1>5 DEF Ends
<1> QED BY <1>1, <1>4, <1>6, RoundsTyped

\* What the end of the child's own batch, or of another, leaves.
LEMMA FinishPreserves ==
    ASSUME BatchInv, NEW b \in L!Ids, NEW end, Ends({b}, end),
           \A j \in Job : job[j].batch # b => job'[j] = job[j],
           rounds' \in [L!Adm -> {"none", "ready", "running", "completed", "cancelled"}],
           UNCHANGED <<adm, counter>>, Others', Stopped', UNCHANGED jobRun,
           \/ batchRun' = L!Idle
           \/ UNCHANGED batchRun /\ batchRun.of # b
           \/ batchRun'.of = batchRun.of /\ batchRun.of \in L!Ids /\ batchRun'.result # L!None
    PROVE  BatchInv' /\ Kept
<1>1. Kept
  BY PartsOf, EndsKeeps DEF Kept
<1>2. JobChild'
  <2>1. b # L!NoBatch
    BY PartsOf, NoBatchIsNone DEF BatchStore
  <2> QED BY <2>1, PartsOf DEF JobChild
<1>3. BatchChild'
  <2>1. CASE batchRun' = L!Idle
    BY <2>1 DEF BatchChild
  <2>2. CASE UNCHANGED batchRun /\ batchRun.of # b
    BY <2>2, <1>1, PartsOf DEF BatchChild, Kept, Evolves, Ends
  <2>3. CASE batchRun'.of = batchRun.of /\ batchRun.of \in L!Ids /\ batchRun'.result # L!None
    BY <2>3, <1>1 DEF BatchChild, Kept, Evolves
  <2> QED BY <2>1, <2>2, <2>3
<1>4. HeldAdm' /\ Counts'
  BY <1>1, PartsOf, HeldStays, CountsStay DEF Kept
<1> QED BY <1>1, <1>2, <1>3, <1>4, BatchParts DEF Kept

LEMMA NoDecisions == ASSUME NEW S PROVE << >> \in [{} -> Decision] /\ {} \in SUBSET S
OBVIOUS

LEMMA ClaimPreserves ==
    ASSUME BatchInv, Assumptions, NEW b \in L!Ids, L!Claim(b) PROVE BatchInv' /\ Kept
<1>1. /\ batchRun = L!Idle /\ batches[b].state \in {"collecting", "ready"} /\ Live(b)
      /\ pc' = "jobs" /\ UNCHANGED <<adm, counter, outbox, jobRun, authority, deaths>>
  BY DEF L!Claim, L!Claimable, Live, L!LiveBatch
<1>2. L!StartRounds(b) \in [L!Adm -> {"none", "ready", "running", "completed", "cancelled"}]
  BY PartsOf, StartTyped
<1>3. CASE L!FinishBatch(b, << >>, "completed", L!StartRounds(b)) /\ UNCHANGED batchRun
  <2>1. /\ Ends({b}, "completed")
        /\ \A j \in Job : job[j].batch # b => job'[j] = job[j]
        /\ rounds' \in [L!Adm -> {"none", "ready", "running", "completed", "cancelled"}]
    BY <1>1, <1>2, <1>3, NoDecisions, FinishEnds DEF Ended
  <2>2. Others' /\ Stopped'
    BY <1>1, <1>3, <2>1, PartsOf DEF Others, Stopped, L!Up
  <2> QED BY <1>1, <1>3, <2>1, <2>2, FinishPreserves
<1>4. CASE /\ job' = [j \in Job |-> IF j \in batches[b].items THEN [job[j] EXCEPT !.state = "running"]
                                    ELSE job[j]]
           /\ batches' = [batches EXCEPT ![b].state = "running"]
           /\ rounds' = L!StartRounds(b)
           /\ batchRun' = [of |-> b, cancel |-> FALSE, result |-> L!None]
  <2>1. Runs(b)
    BY <1>1, <1>4 DEF Runs
  <2>2. Kept
    BY <2>1, PartsOf, RunsKeeps DEF Kept
  <2>3. Others' /\ Stopped'
    BY <1>1, <1>2, <1>4, PartsOf DEF Others, Stopped, L!Up, BatchStore
  <2>4. BatchChild'
    BY <1>4, <2>2, PartsOf DEF BatchChild, Kept, Evolves, BatchStore
  <2>5. JobChild'
    <3>1. ASSUME NEW j \in batches[b].items PROVE job[j].batch # L!NoBatch
      <4>1. job[j] = [state |-> IF batches[b].state = "running" THEN "running" ELSE "waiting", batch |-> b]
        BY <1>1, PartsOf DEF BatchStore, LiveJobs
      <4> QED BY <4>1, PartsOf, NoBatchIsNone DEF BatchStore
    <3>2. jobRun # L!Idle => jobRun.of \notin batches[b].items
      BY <3>1, PartsOf DEF JobChild
    <3> QED BY <3>2, <1>1, <1>4, PartsOf DEF JobChild
  <2>6. HeldAdm' /\ Counts'
    BY <1>1, <2>2, <2>3, PartsOf, HeldStays, CountsStay DEF Kept
  <2> QED BY <2>2, <2>3, <2>4, <2>5, <2>6, BatchParts DEF Kept
<1> QED BY <1>3, <1>4 DEF L!Claim

LEMMA FailUnclaimedPreserves ==
    ASSUME BatchInv, Assumptions, NEW b \in L!Ids, L!FailUnclaimed(b) PROVE BatchInv' /\ Kept
<1>1. /\ batchRun = L!Idle /\ batches[b].state \in {"collecting", "ready"} /\ Live(b)
      /\ UNCHANGED <<adm, rounds, counter, outbox, pc, batchRun, jobRun, authority, deaths>>
  BY DEF L!FailUnclaimed, L!Claimable, Live, L!LiveBatch
<1>2. batches' = [c \in L!Ids |-> IF c \in {b} THEN [batches[c] EXCEPT !.state = "cancelled"] ELSE batches[c]]
  BY PartsOf DEF L!FailUnclaimed, BatchStore
<1>3. ASSUME NEW j \in Job
      PROVE /\ job'[j] \in JobRec
            /\ job[j].batch = b => job'[j].batch = b /\ job'[j].state \in L!Settled
            /\ job[j].batch # b => job'[j] = job[j]
  <2>1. job[j] \in JobRec /\ b # L!NoBatch
    BY PartsOf, NoBatchIsNone DEF BatchStore
  <2>2. ASSUME job[j].batch = b PROVE job[j].state = "waiting"
    <3>1. j \in batches[b].items
      BY <2>1, <2>2, PartsOf DEF BatchStore, HeldJobs
    <3>2. job[j] = [state |-> IF batches[b].state = "running" THEN "running" ELSE "waiting", batch |-> b]
      BY <3>1, <1>1, PartsOf DEF BatchStore, LiveJobs
    <3> QED BY <3>2, <1>1
  <2>3. job'[j] = IF job[j].batch = b THEN [job[j] EXCEPT !.state = "failed"] ELSE job[j]
    BY <2>2 DEF L!FailUnclaimed
  <2> QED BY <2>1, <2>3 DEF JobRec, L!JobState, L!Settled
<1>4. job' \in [Job -> JobRec]
  BY <1>3 DEF L!FailUnclaimed
<1>5. Ends({b}, "cancelled")
  BY <1>1, <1>2, <1>3, <1>4 DEF Ends, Ended
<1>6. Others' /\ Stopped'
  BY <1>1, PartsOf DEF Others, Stopped
<1>7. batchRun' = L!Idle /\ rounds' \in [L!Adm -> {"none", "ready", "running", "completed", "cancelled"}]
  BY <1>1, <1>6 DEF Others
<1> QED BY <1>1, <1>3, <1>5, <1>6, <1>7, FinishPreserves

LEMMA ReapBatchPreserves ==
    ASSUME BatchInv, Assumptions, L!ReapBatch PROVE BatchInv' /\ Kept
<1>1. /\ pc = "batch" /\ batchRun # L!Idle /\ batchRun.result # L!None /\ batchRun.of \in L!Ids
      /\ UNCHANGED <<adm, counter, outbox, jobRun, authority, deaths>>
  BY PartsOf DEF L!ReapBatch, BatchChild
<1>2. CASE /\ batches[batchRun.of].state = "running"
           /\ L!FinishBatch(batchRun.of, << >>, "cancelled", rounds) /\ batchRun' = L!Idle /\ pc' = "jobs"
  <2>1. Live(batchRun.of) /\ rounds \in [L!Adm -> {"none", "ready", "running", "completed", "cancelled"}]
    BY <1>2, PartsOf DEF Live, L!LiveBatch, Others
  <2>2. /\ Ends({batchRun.of}, "cancelled")
        /\ \A j \in Job : job[j].batch # batchRun.of => job'[j] = job[j]
        /\ rounds' \in [L!Adm -> {"none", "ready", "running", "completed", "cancelled"}]
    BY <1>1, <1>2, <2>1, NoDecisions, FinishEnds DEF Ended
  <2>3. Others' /\ Stopped'
    BY <1>1, <1>2, <2>2, PartsOf DEF Others, Stopped, L!Up, L!Idle
  <2> QED BY <1>1, <1>2, <2>2, <2>3, FinishPreserves
<1>3. CASE /\ UNCHANGED <<job, batches, rounds>>
           /\ \/ batchRun' = L!Idle /\ pc' = "jobs"
              \/ UNCHANGED batchRun /\ pc' = "dead"
  <2>1. pc' \in {"jobs", "dead"} /\ Stopped'
    BY <1>3 DEF Stopped
  <2>2. L!Idle \in [of : BatchId \cup {L!NoBatch}, cancel : BOOLEAN, result : {L!None, "ended"}]
    BY DEF L!Idle
  <2>3. Others'
    BY <1>1, <1>3, <2>1, <2>2, PartsOf DEF Others, L!Up
  <2>4. BatchChild' /\ JobChild'
    BY <1>1, <1>3, PartsOf DEF BatchChild, JobChild, L!Ids
  <2> QED BY <1>1, <1>3, <2>1, <2>3, <2>4, QuietStep
<1>4. CASE batches[batchRun.of].state = "running" /\ authority
  BY <1>2, <1>4 DEF L!ReapBatch
<1>5. CASE batches[batchRun.of].state = "running" /\ ~authority
  <2>1. pc' = "dead" /\ UNCHANGED <<job, batches, rounds, batchRun>>
    BY <1>5 DEF L!ReapBatch
  <2> QED BY <2>1, <1>3
<1>6. CASE batches[batchRun.of].state # "running"
  <2>1. batchRun' = L!Idle /\ pc' = "jobs" /\ UNCHANGED <<job, batches, rounds>>
    BY <1>6 DEF L!ReapBatch
  <2> QED BY <2>1, <1>3
<1> QED BY <1>4, <1>5, <1>6

LEMMA BatchDecidesPreserves ==
    ASSUME BatchInv, Assumptions, L!BatchDecides PROVE BatchInv' /\ Kept
<1> DEFINE b == batchRun.of
<1>1. /\ batchRun # L!Idle /\ b \in L!Ids /\ batches[b].state = "running" /\ Live(b)
      /\ batchRun' = [batchRun EXCEPT !.result = "ended"]
      /\ UNCHANGED <<adm, counter, outbox, pc, jobRun, authority, deaths>>
  BY PartsOf DEF L!BatchDecides, BatchChild, Live, L!LiveBatch
<1>2. batchRun'.of = b /\ batchRun'.result # L!None
      /\ batchRun' \in [of : BatchId \cup {L!NoBatch}, cancel : BOOLEAN, result : {L!None, "ended"}]
  BY <1>1, PartsOf DEF Others, L!None
<1>3. Stopped'
  BY <1>1, PartsOf DEF Stopped
<1>4. CASE UNCHANGED <<job, batches, rounds>>
  <2>1. Others'
    BY <1>1, <1>2, <1>4, PartsOf DEF Others
  <2>2. BatchChild' /\ JobChild'
    BY <1>1, <1>2, <1>4, PartsOf DEF BatchChild, JobChild, L!Ids
  <2> QED BY <1>1, <1>3, <1>4, <2>1, <2>2, QuietStep
<1>5. ASSUME NEW D \in SUBSET batches[b].items, NEW result \in [D -> Decision],
             NEW state \in Ended, L!FinishBatch(b, result, state, rounds)
      PROVE  BatchInv' /\ Kept
  <2>1. /\ Ends({b}, state) /\ \A j \in Job : job[j].batch # b => job'[j] = job[j]
        /\ rounds' \in [L!Adm -> {"none", "ready", "running", "completed", "cancelled"}]
    BY <1>1, <1>5, PartsOf, FinishEnds DEF Others
  <2>2. Others'
    BY <1>1, <1>2, <2>1, PartsOf DEF Others
  <2> QED BY <1>1, <1>2, <1>3, <2>1, <2>2, FinishPreserves
<1> QED
  <2>1. CASE authority
    <3>1. PICK D \in (IF batchRun.cancel THEN SUBSET batches[b].items ELSE {batches[b].items}) :
              \E result \in [D -> Decision] :
                  L!FinishBatch(b, result, IF batchRun.cancel THEN "cancelled" ELSE "completed", rounds)
      BY <2>1 DEF L!BatchDecides
    <3>2. PICK result \in [D -> Decision] :
              L!FinishBatch(b, result, IF batchRun.cancel THEN "cancelled" ELSE "completed", rounds)
      BY <3>1
    <3>3. D \in SUBSET batches[b].items /\ (IF batchRun.cancel THEN "cancelled" ELSE "completed") \in Ended
      BY DEF Ended
    <3> QED BY <3>2, <3>3, <1>5
  <2>2. CASE ~authority
    BY <2>2, <1>4 DEF L!BatchDecides
  <2> QED BY <2>1, <2>2

LEMMA ClosePreserves ==
    ASSUME BatchInv, Assumptions, L!Close PROVE BatchInv' /\ Kept
<1> DEFINE b == batchRun.of
           Killed == jobRun # L!Idle /\ jobRun.result = L!None
           Running == batchRun # L!Idle /\ batches[b].state = "running"
           js == [j \in Job |-> IF j \in batches[b].items
                                THEN [state |-> "queued", batch |-> L!NoBatch] ELSE job[j]]
           S == IF Running THEN {b} ELSE {}
<1>1. pc' = "stopped" /\ batchRun' = L!Idle /\ jobRun' = L!Idle
      /\ UNCHANGED <<adm, counter, outbox, authority, deaths>>
  BY DEF L!Close
<1>2. Running => b \in L!Ids /\ b # L!NoBatch /\ Live(b)
  BY PartsOf, NoBatchIsNone DEF BatchChild, BatchStore, Live, L!LiveBatch
<1>3. batches' = [c \in L!Ids |-> IF c \in S THEN [batches[c] EXCEPT !.state = "cancelled"] ELSE batches[c]]
  BY <1>2, PartsOf DEF L!Close, BatchStore
<1>4. Killed => jobRun.of \in Job /\ job[jobRun.of] = [state |-> "running", batch |-> L!NoBatch]
  BY PartsOf DEF JobChild
<1>5. ASSUME NEW j \in Job
      PROVE  job'[j] = IF Running /\ j \in batches[b].items THEN [state |-> "queued", batch |-> L!NoBatch]
                       ELSE IF Killed /\ j = jobRun.of THEN [job[j] EXCEPT !.state = "cancelled"]
                       ELSE job[j]
  <2>1. Running /\ j \in batches[b].items => job[j].batch = b
    <3>1. SUFFICES ASSUME Running, j \in batches[b].items PROVE job[j].batch = b
      OBVIOUS
    <3>2. job[j] = [state |-> IF batches[b].state = "running" THEN "running" ELSE "waiting", batch |-> b]
      BY <1>2, <3>1, PartsOf DEF BatchStore, LiveJobs
    <3> QED BY <3>2
  <2>2. Running /\ j \in batches[b].items => ~(Killed /\ j = jobRun.of)
    BY <2>1, <1>2, <1>4
  <2>3. CASE Running
    <3>1. job' = IF Killed THEN [js EXCEPT ![jobRun.of].state = "cancelled"] ELSE js
      BY <2>3 DEF L!Close
    <3>2. js[j] = IF j \in batches[b].items THEN [state |-> "queued", batch |-> L!NoBatch] ELSE job[j]
      OBVIOUS
    <3>3. Killed /\ j = jobRun.of => job'[j] = [js[j] EXCEPT !.state = "cancelled"]
      BY <3>1
    <3>4. ~(Killed /\ j = jobRun.of) => job'[j] = js[j]
      BY <3>1
    <3> QED BY <2>2, <2>3, <3>2, <3>3, <3>4
  <2>4. CASE ~Running
    <3>1. job' = IF Killed THEN [job EXCEPT ![jobRun.of].state = "cancelled"] ELSE job
      BY <2>4 DEF L!Close
    <3> QED BY <3>1, <2>4, PartsOf DEF BatchStore
  <2> QED BY <2>3, <2>4
<1>6. job' \in [Job -> JobRec]
  <2>1. DOMAIN job' = Job /\ job' = [j \in DOMAIN job' |-> job'[j]]
    BY PartsOf DEF L!Close, BatchStore
  <2>2. ASSUME NEW j \in Job PROVE job'[j] \in JobRec
    <3>1. job[j] \in JobRec
      BY PartsOf DEF BatchStore
    <3>2. [state |-> "queued", batch |-> L!NoBatch] \in JobRec /\ [job[j] EXCEPT !.state = "cancelled"] \in JobRec
      BY <3>1 DEF JobRec, L!JobState
    <3> QED BY <3>1, <3>2, <1>5
  <2> QED BY <2>1, <2>2
<1>7. ASSUME NEW j \in Job
      PROVE  IF job[j].batch \in S
             THEN \/ job'[j] = [state |-> "queued", batch |-> L!NoBatch]
                  \/ job'[j].batch = job[j].batch /\ job'[j].state \in L!Settled
             ELSE \/ job'[j] = job[j]
                  \/ /\ job[j].batch = L!NoBatch /\ job[j].state \notin L!Settled
                     /\ job'[j].batch = L!NoBatch /\ job'[j].state # "waiting"
  <2>1. CASE job[j].batch \in S
    <3>1. Running /\ job[j].batch = b /\ j \in batches[b].items
      BY <2>1, <1>2, PartsOf DEF BatchStore, HeldJobs
    <3> QED BY <3>1, <2>1, <1>5
  <2>2. CASE job[j].batch \notin S
    <3>1. ~(Running /\ j \in batches[b].items)
      <4>1. SUFFICES ASSUME Running, j \in batches[b].items PROVE FALSE
        OBVIOUS
      <4>2. job[j] = [state |-> IF batches[b].state = "running" THEN "running" ELSE "waiting", batch |-> b]
        BY <1>2, <4>1, PartsOf DEF BatchStore, LiveJobs
      <4> QED BY <4>1, <4>2, <2>2
    <3>2. CASE Killed /\ j = jobRun.of
      <4>1. job[j] = [state |-> "running", batch |-> L!NoBatch]
        BY <1>4, <3>2
      <4>2. job'[j] = [job[j] EXCEPT !.state = "cancelled"]
        BY <1>5, <3>1, <3>2
      <4> QED BY <2>2, <4>1, <4>2 DEF L!Settled
    <3>3. CASE ~(Killed /\ j = jobRun.of)
      BY <3>1, <3>3, <1>5, <2>2
    <3> QED BY <3>2, <3>3
  <2> QED BY <2>1, <2>2
<1>8. Ends(S, "cancelled")
  BY <1>2, <1>3, <1>6, <1>7 DEF Ends, Ended
<1>9. Kept
  BY <1>8, PartsOf, EndsKeeps DEF Kept
<1>10. rounds' \in [L!Adm -> {"none", "ready", "running", "completed", "cancelled"}]
  BY PartsOf, RoundsTyped DEF L!Close, Others
<1>11. Others' /\ Stopped'
  BY <1>1, <1>10, PartsOf DEF Others, Stopped, L!Idle
<1>12. HeldAdm' /\ Counts'
  BY <1>1, <1>9, <1>11, PartsOf, HeldStays, CountsStay DEF Kept
<1>13. BatchChild' /\ JobChild'
  BY <1>1 DEF BatchChild, JobChild
<1> QED BY <1>9, <1>11, <1>12, <1>13, BatchParts DEF Kept

LEMMA RecoverRunningPreserves ==
    ASSUME BatchInv, Assumptions, L!RecoverRunning PROVE BatchInv' /\ Kept
<1> DEFINE Running == {b \in L!Ids : batches[b].state = "running"}
<1>1. pc = "starting" /\ pc' = "experience" /\ batchRun = L!Idle /\ jobRun = L!Idle
      /\ UNCHANGED <<adm, rounds, counter, outbox, batchRun, jobRun, authority, deaths>>
  BY PartsOf DEF L!RecoverRunning, Stopped
<1>2. batches' = [b \in L!Ids |-> IF b \in Running THEN [batches[b] EXCEPT !.state = "cancelled"] ELSE batches[b]]
  BY DEF L!RecoverRunning
<1>3. ASSUME NEW j \in Job
      PROVE  job'[j] = IF job[j].batch \in Running THEN [state |-> "queued", batch |-> L!NoBatch] ELSE job[j]
  <2>1. ASSUME job[j].batch \in Running PROVE job[j].state = "running"
    <3> DEFINE b == job[j].batch
    <3>1. b \in L!Ids /\ b # L!NoBatch /\ batches[b].state = "running" /\ Live(b)
      BY <2>1, PartsOf, NoBatchIsNone DEF BatchStore, Live, L!LiveBatch
    <3>2. j \in batches[b].items
      BY <3>1, PartsOf DEF BatchStore, HeldJobs
    <3>3. job[j] = [state |-> IF batches[b].state = "running" THEN "running" ELSE "waiting", batch |-> b]
      BY <3>1, <3>2, PartsOf DEF BatchStore, LiveJobs
    <3> QED BY <3>1, <3>3
  <2> QED BY <2>1 DEF L!RecoverRunning
<1>4. job' \in [Job -> JobRec]
  <2>1. ASSUME NEW j \in Job PROVE job'[j] \in JobRec
    BY <1>3, PartsOf DEF BatchStore, JobRec, L!JobState
  <2> QED BY <2>1 DEF L!RecoverRunning
<1>5. Ends(Running, "cancelled")
  <2>1. Running \subseteq L!Ids /\ \A b \in Running : Live(b)
    BY DEF Live, L!LiveBatch
  <2> QED BY <2>1, <1>2, <1>3, <1>4 DEF Ends, Ended
<1>6. Kept
  BY <1>5, PartsOf, EndsKeeps DEF Kept
<1>7. Others' /\ Stopped'
  BY <1>1, PartsOf DEF Others, Stopped, L!Up
<1>8. HeldAdm' /\ Counts'
  BY <1>1, <1>6, <1>7, PartsOf, HeldStays, CountsStay DEF Kept
<1>9. BatchChild' /\ JobChild'
  BY <1>1 DEF BatchChild, JobChild
<1> QED BY <1>6, <1>7, <1>8, <1>9, BatchParts DEF Kept

\* A job that a child works on, or that its child has answered.
LEMMA JobPreserves ==
    ASSUME BatchInv, Beside, Others', Stopped', JobChild', UNCHANGED <<adm, counter, batchRun>>
    PROVE  BatchInv' /\ Kept
<1>1. Kept
  BY PartsOf, BesideKeeps
<1>2. BatchChild'
  BY PartsOf DEF BatchChild, Beside, L!Ids
<1>3. HeldAdm' /\ Counts'
  BY <1>1, PartsOf, HeldStays, CountsStay DEF Kept
<1> QED BY <1>1, <1>2, <1>3, BatchParts DEF Kept

LEMMA ClaimJobPreserves ==
    ASSUME BatchInv, Assumptions, NEW j \in Job, L!ClaimJob(j) PROVE BatchInv' /\ Kept
<1>1. job[j] = [state |-> "queued", batch |-> L!NoBatch]
  <2>1. job[j] \in JobRec /\ job[j].state = "queued"
    BY PartsOf DEF L!ClaimJob, L!UrgentFirst, L!Runnable, L!Queued, BatchStore
  <2>2. job[j].batch = L!NoBatch
    BY <2>1, PartsOf DEF BatchStore, Free
  <2> QED BY <2>1, <2>2 DEF JobRec
<1>2. /\ job' = [job EXCEPT ![j].state = "running"]
      /\ jobRun' = [of |-> j, cancel |-> FALSE, result |-> L!None]
      /\ pc = "jobs" /\ pc' = "experience"
      /\ UNCHANGED <<batches, adm, rounds, counter, outbox, batchRun, authority, deaths>>
  BY DEF L!ClaimJob
<1>3. job'[j] = [state |-> "running", batch |-> L!NoBatch] /\ \A i \in Job \ {j} : job'[i] = job[i]
  BY <1>1, <1>2, PartsOf DEF BatchStore
<1>4. job' \in [Job -> JobRec]
  BY <1>1, <1>2, PartsOf DEF BatchStore, JobRec, L!JobState
<1>5. Beside
  BY <1>1, <1>2, <1>3, <1>4 DEF Beside, L!Settled
<1>6. Others' /\ Stopped'
  BY <1>2, PartsOf DEF Others, Stopped, L!Up
<1>7. JobChild'
  BY <1>2, <1>3 DEF JobChild
<1> QED BY <1>2, <1>5, <1>6, <1>7, JobPreserves

LEMMA WatchJobPreserves ==
    ASSUME BatchInv, Assumptions, L!WatchJob PROVE BatchInv' /\ Kept
<1> DEFINE j == jobRun.of
<1>1. /\ jobRun # L!Idle /\ pc = "jobs" /\ pc' = "experience" /\ j \in Job
      /\ job[j] = [state |-> "running", batch |-> L!NoBatch]
      /\ UNCHANGED <<batches, adm, rounds, counter, outbox, batchRun, authority, deaths>>
  BY PartsOf DEF L!WatchJob, JobChild
<1>2. CASE jobRun.result = L!None
  <2>1. /\ UNCHANGED job
        /\ jobRun' = [jobRun EXCEPT !.cancel =
                        @ \/ (jobRun.of \notin L!Urgent /\ L!Runnable \cap L!Urgent # {})]
    BY <1>2 DEF L!WatchJob
  <2>2. jobRun'.of = j
        /\ jobRun' \in [of : Job \cup {L!NoBatch}, cancel : BOOLEAN,
                        result : {L!None, "awaiting_answer", "completed", "failed", "parked"}]
    BY <2>1, PartsOf DEF Others
  <2>3. Beside
    BY <1>1, <2>1, PartsOf DEF Beside, BatchStore
  <2>4. Others' /\ Stopped' /\ JobChild'
    BY <1>1, <2>1, <2>2, PartsOf DEF Others, Stopped, L!Up, JobChild
  <2> QED BY <1>1, <2>3, <2>4, JobPreserves
<1>3. CASE jobRun.result # L!None
  <2>1. /\ job' = [job EXCEPT ![j].state = IF jobRun.cancel THEN "cancelled" ELSE jobRun.result]
        /\ jobRun' = L!Idle
    BY <1>3 DEF L!WatchJob
  <2> DEFINE state == IF jobRun.cancel THEN "cancelled" ELSE jobRun.result
  <2>2. state \in {"cancelled", "awaiting_answer", "completed", "failed", "parked"}
    BY <1>3, PartsOf DEF Others
  <2>3. job'[j] = [state |-> state, batch |-> L!NoBatch] /\ \A i \in Job \ {j} : job'[i] = job[i]
    BY <1>1, <2>1, PartsOf DEF BatchStore
  <2>4. [state |-> state, batch |-> L!NoBatch] \in JobRec
    BY <2>2 DEF JobRec, L!JobState
  <2>5. job' \in [Job -> JobRec]
    BY <1>1, <2>1, <2>3, <2>4, PartsOf DEF BatchStore
  <2>6. Beside
    BY <1>1, <2>2, <2>3, <2>5 DEF Beside, L!Settled
  <2>7. Others' /\ Stopped' /\ JobChild'
    BY <1>1, <2>1, PartsOf DEF Others, Stopped, L!Up, JobChild, L!Idle
  <2> QED BY <1>1, <2>6, <2>7, JobPreserves
<1> QED BY <1>2, <1>3

-----------------------------------------------------------------------------
(* The steps that leave batches, jobs, admissions and the counter.          *)

LEMMA ForegroundPreserves ==
    ASSUME BatchInv, Assumptions, L!Revoke \/ \E x \in Experience : L!CommitReceipt(x)
    PROVE  BatchInv' /\ Kept
<1>1. UNCHANGED <<job, batches, adm, rounds, counter, pc, batchRun, jobRun, deaths>>
  BY DEF L!Revoke, L!CommitReceipt
<1>2. authority' \in BOOLEAN /\ outbox' \in Seq(Experience)
  <2>1. CASE L!Revoke
    BY <2>1, PartsOf DEF Others, L!Revoke
  <2>2. ASSUME NEW x \in Experience, L!CommitReceipt(x)
        PROVE  authority' \in BOOLEAN /\ outbox' \in Seq(Experience)
    <3>1. outbox \in Seq(Experience) /\ outbox' = Append(outbox, x) /\ UNCHANGED authority
      BY <2>2, PartsOf DEF Others, L!CommitReceipt
    <3> QED BY <3>1, PartsOf DEF Others
  <2> QED BY <2>1, <2>2
<1>3. Others' /\ Stopped'
  BY <1>1, <1>2, PartsOf DEF Others, Stopped
<1>4. BatchChild' /\ JobChild'
  BY <1>1, PartsOf DEF BatchChild, JobChild, L!Ids
<1> QED BY <1>1, <1>3, <1>4, QuietStep

LEMMA DispatcherPreserves ==
    ASSUME BatchInv, Assumptions,
           L!Ack \/ L!SkipExperience \/ L!ExperienceRaises \/ L!NoneReleased \/ L!AllCollected \/ L!NothingToClaim \/ L!NoJob
    PROVE  BatchInv' /\ Kept
<1>1. UNCHANGED <<job, batches, adm, rounds, counter, batchRun, jobRun, authority, deaths>>
  BY
     DEF L!Ack, L!SkipExperience, L!ExperienceRaises, L!NoneReleased, L!AllCollected, L!NothingToClaim, L!NoJob
<1>2. outbox' \in Seq(Experience)
  <2>1. CASE L!Ack
    <3>1. outbox \in Seq(Experience) /\ outbox # <<>> /\ outbox' = Tail(outbox)
      BY <2>1, PartsOf DEF Others, L!Ack
    <3> QED BY <3>1
  <2>2. CASE UNCHANGED outbox
    BY <2>2, PartsOf DEF Others
  <2> QED BY <2>1, <2>2
             DEF L!SkipExperience, L!ExperienceRaises, L!NoneReleased, L!AllCollected, L!NothingToClaim, L!NoJob
<1>3. pc' = pc \/ pc' \in L!Up \cup {"dead"} \/ (pc = "starting" /\ pc' = "stopped")
  BY
     DEF L!Ack, L!SkipExperience, L!ExperienceRaises, L!NoneReleased, L!AllCollected, L!NothingToClaim, L!NoJob, L!Up
<1>4. Others' /\ Stopped'
  BY <1>1, <1>2, <1>3, PartsOf DEF Others, Stopped, L!Up
<1>5. BatchChild' /\ JobChild'
  BY <1>1, PartsOf DEF BatchChild, JobChild, L!Ids
<1> QED BY <1>1, <1>4, <1>5, QuietStep

LEMMA ChildrenPreserve ==
    ASSUME BatchInv, Assumptions, L!WatchBatch \/ L!BatchDies \/ L!JobDecides
    PROVE  BatchInv' /\ Kept
<1>1. /\ UNCHANGED <<job, batches, adm, rounds, counter, outbox, authority>>
      /\ deaths' \in Nat
      /\ pc' = pc \/ pc' = "jobs"
  BY PartsOf DEF L!WatchBatch, L!BatchDies, L!JobDecides, Others
<1>2. /\ batchRun' \in [of : BatchId \cup {L!NoBatch}, cancel : BOOLEAN, result : {L!None, "ended"}]
      /\ BatchChild' /\ (batchRun' = L!Idle <=> batchRun = L!Idle)
  <2>1. CASE UNCHANGED batchRun
    BY <1>1, <2>1, PartsOf DEF Others, BatchChild, L!Ids
  <2>2. CASE L!WatchBatch \/ L!BatchDies
    <3>1. batchRun # L!Idle /\ batchRun.result = L!None /\ batchRun.of \in L!Ids /\ batches[batchRun.of].state = "running"
      BY <2>2, PartsOf DEF L!WatchBatch, L!BatchDies, BatchChild
    <3>2. batchRun.of # L!NoBatch
      BY <3>1, PartsOf, NoBatchIsNone DEF BatchStore
    <3>3. /\ batchRun'.of = batchRun.of
          /\ batchRun' \in [of : BatchId \cup {L!NoBatch}, cancel : BOOLEAN, result : {L!None, "ended"}]
      BY <2>2, PartsOf DEF L!WatchBatch, L!BatchDies, Others
    <3>4. batchRun' # L!Idle
      BY <3>2, <3>3 DEF L!Idle
    <3> QED BY <1>1, <3>1, <3>3, <3>4 DEF BatchChild, L!Ids
  <2> QED BY <2>1, <2>2 DEF L!JobDecides
<1>3. /\ jobRun' \in [of : Job \cup {L!NoBatch}, cancel : BOOLEAN,
                      result : {L!None, "awaiting_answer", "completed", "failed", "parked"}]
      /\ JobChild' /\ (jobRun = L!Idle => jobRun' = L!Idle)
  <2>1. CASE UNCHANGED jobRun
    BY <1>1, <2>1, PartsOf DEF Others, JobChild
  <2>2. CASE L!JobDecides
    <3>1. jobRun # L!Idle /\ jobRun.of \in Job /\ job[jobRun.of] = [state |-> "running", batch |-> L!NoBatch]
      BY <2>2, PartsOf DEF L!JobDecides, JobChild
    <3>2. PICK result \in {"awaiting_answer", "completed", "failed", "parked"} :
              jobRun' = [jobRun EXCEPT !.result = result]
      BY <2>2 DEF L!JobDecides, Assumptions, L!CatalogAssumption, L!LearningAssumption
    <3>3. /\ jobRun'.of = jobRun.of
          /\ jobRun' \in [of : Job \cup {L!NoBatch}, cancel : BOOLEAN,
                          result : {L!None, "awaiting_answer", "completed", "failed", "parked"}]
      BY <3>2, PartsOf DEF Others
    <3> QED BY <1>1, <3>1, <3>3 DEF JobChild
  <2> QED BY <2>1, <2>2 DEF L!WatchBatch, L!BatchDies
<1>4. Others' /\ Stopped'
  BY <1>1, <1>2, <1>3, PartsOf DEF Others, Stopped, L!Up
<1> QED BY <1>1, <1>2, <1>3, <1>4, QuietStep

LEMMA IdleStays == ASSUME NEW r, r = L!Idle PROVE [r EXCEPT !.cancel = r # L!Idle] = L!Idle
<1> DEFINE s == [r EXCEPT !.cancel = r # L!Idle]
<1>1. s.of = L!NoBatch /\ ~s.cancel /\ s.result = L!None
      /\ s \in [of : {L!NoBatch}, cancel : BOOLEAN, result : {L!None}]
  BY DEF L!Idle
<1>2. s.cancel = FALSE
  BY <1>1
<1> HIDE DEF s
<1>3. s = L!Idle
  BY <1>1, <1>2 DEF L!Idle
<1> QED BY <1>3 DEF s

LEMMA ServicePreserves ==
    ASSUME BatchInv, Assumptions, L!RequestStop \/ L!Crash \/ L!Start
    PROVE  BatchInv' /\ Kept
<1>1. UNCHANGED <<job, batches, adm, rounds, counter, outbox, authority>> /\ deaths' \in Nat
  BY PartsOf DEF L!RequestStop, L!Crash, L!Start, Others
<1>2. CASE L!RequestStop
  <2>1. /\ pc' = "closing"
        /\ batchRun' = [batchRun EXCEPT !.cancel = batchRun # L!Idle]
        /\ jobRun' = [jobRun EXCEPT !.cancel = jobRun # L!Idle]
    BY <1>2 DEF L!RequestStop
  <2>2. /\ batchRun' \in [of : BatchId \cup {L!NoBatch}, cancel : BOOLEAN, result : {L!None, "ended"}]
        /\ batchRun'.of = batchRun.of /\ batchRun'.result = batchRun.result
        /\ batchRun = L!Idle => batchRun' = L!Idle
    <3>1. batchRun = L!Idle => batchRun' = L!Idle
      BY <2>1, IdleStays
    <3> QED BY <2>1, <3>1, PartsOf DEF Others
  <2>3. /\ jobRun' \in [of : Job \cup {L!NoBatch}, cancel : BOOLEAN,
                        result : {L!None, "awaiting_answer", "completed", "failed", "parked"}]
        /\ jobRun'.of = jobRun.of /\ (jobRun = L!Idle => jobRun' = L!Idle)
    <3>1. jobRun = L!Idle => jobRun' = L!Idle
      BY <2>1, IdleStays
    <3> QED BY <2>1, <3>1, PartsOf DEF Others
  <2>4. Others' /\ Stopped'
    BY <1>1, <2>1, <2>2, <2>3, PartsOf DEF Others, Stopped
  <2>5. BatchChild' /\ JobChild'
    BY <1>1, <2>2, <2>3, PartsOf DEF BatchChild, JobChild, L!Ids
  <2> QED BY <1>1, <2>4, <2>5, QuietStep
<1>3. CASE L!Crash
  <2>1. pc' = "stopped" /\ batchRun' = L!Idle /\ jobRun' = L!Idle
    BY <1>3 DEF L!Crash
  <2>2. Others' /\ Stopped'
    BY <1>1, <2>1, PartsOf DEF Others, Stopped, L!Idle
  <2>3. BatchChild' /\ JobChild'
    BY <2>1 DEF BatchChild, JobChild
  <2> QED BY <1>1, <2>2, <2>3, QuietStep
<1>4. CASE L!Start
  <2>1. pc = "stopped" /\ pc' = "starting" /\ UNCHANGED <<batchRun, jobRun>>
    BY <1>4 DEF L!Start
  <2>2. Others' /\ Stopped'
    BY <1>1, <2>1, PartsOf DEF Others, Stopped
  <2>3. BatchChild' /\ JobChild'
    BY <1>1, <2>1, PartsOf DEF BatchChild, JobChild, L!Ids
  <2> QED BY <1>1, <2>2, <2>3, QuietStep
<1> QED BY <1>2, <1>3, <1>4

-----------------------------------------------------------------------------
(* The theorems. *)

LEMMA StepPreserves ==
    ASSUME BatchInv, Assumptions, L!Next PROVE BatchInv' /\ Kept
<1>1. CASE L!Foreground
  BY <1>1, IngestPreserves, InvalidatePreserves, ForegroundPreserves DEF L!Foreground
<1>2. CASE L!Admission
  BY <1>2, CollectPreserves, AdmitPreserves, DispatcherPreserves DEF L!Admission
<1>3. CASE L!Dispatcher
  <2>1. CASE \E b \in L!Ids : L!Recover(b) \/ L!Claim(b) \/ L!FailUnclaimed(b)
    BY <2>1, RecoverPreserves, ClaimPreserves, FailUnclaimedPreserves
  <2>2. CASE \E j \in Job : L!CollectPending(j) \/ L!ClaimJob(j)
    BY <2>2, CollectPendingPreserves, ClaimJobPreserves
  <2>3. CASE L!ReapBatch \/ L!WatchJob
    BY <2>3, ReapBatchPreserves, WatchJobPreserves
  <2> QED BY <1>3, <2>1, <2>2, <2>3, DispatcherPreserves, ChildrenPreserve DEF L!Dispatcher
<1>4. CASE L!Children \/ L!BatchDies
  BY <1>4, BatchDecidesPreserves, ChildrenPreserve DEF L!Children
<1>5. CASE L!Service
  BY <1>5, ClosePreserves, RecoverRunningPreserves, ServicePreserves DEF L!Service
<1> QED BY <1>1, <1>2, <1>3, <1>4, <1>5 DEF L!Next

LEMMA StutterStepPreserves ==
    ASSUME BatchInv, UNCHANGED L!vars PROVE BatchInv' /\ Kept
<1>1. UNCHANGED <<job, batches, adm, rounds, counter, outbox, pc, batchRun, jobRun, authority, deaths>>
  BY DEF L!vars
<1>2. Others' /\ Stopped'
  BY <1>1, PartsOf DEF Others, Stopped
<1>3. BatchChild' /\ JobChild'
  BY <1>1, PartsOf DEF BatchChild, JobChild, L!Ids
<1> QED BY <1>1, <1>2, <1>3, QuietStep

-----------------------------------------------------------------------------
(* The theorems about jobs and batches. *)

\* LearningAssumption is a hypothesis of each theorem: this module declares the
\* constants it is about.
LEMMA Assumed == ASSUME L!LearningAssumption PROVE Assumptions
BY CatalogAssumption DEF Assumptions, CatalogAssumption, L!CatalogAssumption, Urgent, L!Urgent

\* The invariant of every transaction of ingestion, the dispatcher, its
\* children and the recovery at startup.
THEOREM BatchInvariance == ASSUME L!LearningAssumption PROVE L!Spec => []BatchInv
<1>1. L!Init => BatchInv
  BY Assumed, InitBatchInv
<1>2. BatchInv /\ [L!Next]_L!vars => BatchInv'
  BY Assumed, StepPreserves, StutterStepPreserves
<1> QED BY <1>1, <1>2, PTL DEF L!Spec

\* Jobs, batches, admissions, rounds and the children keep their types, and a
\* batch is named by an event, a generation and an attempt.
THEOREM TypesHold == ASSUME L!LearningAssumption PROVE L!Spec => []JobsTypeOK
<1>1. BatchInv => JobsTypeOK
  BY DEF BatchInv
<1> QED BY <1>1, BatchInvariance, PTL

\* An event of a live batch is that batch's alone, in the state the batch gives
\* it, whichever child dies and whenever the service restarts; no batch takes
\* more events than its limit; a waiting event has a batch to wait for.
THEOREM BatchesOwnJobs == ASSUME L!LearningAssumption PROVE L!Spec => []BatchOwnsJobs
<1>1. BatchInv => BatchOwnsJobs
  BY BatchesOwn
<1> QED BY <1>1, BatchInvariance, PTL

\* The admissions that wait for a review never exceed the counter, which never
\* reaches the threshold unsealed, although edits seal rounds of their own and
\* invalidate older ones meanwhile.
THEOREM CounterAlwaysCovers == ASSUME L!LearningAssumption PROVE L!Spec => []CounterCovers
<1>1. BatchInv => CounterCovers
  BY PartsOf, Covers
<1> QED BY <1>1, BatchInvariance, PTL

\* What a batch or the job runner decided about an event stays decided, and an
\* attempt that ended stays as it ended: no recovery, release, invalidation or
\* later batch reopens either.
THEOREM DecisionsStay == ASSUME L!LearningAssumption PROVE L!Spec => DecisionsKept
<1>1. BatchInv /\ [L!Next]_L!vars =>
        [/\ \A j \in Job : job[j].state \in Settled => job'[j] = job[j]
         /\ \A b \in Ids : batches[b].state \notin LiveBatch => batches'[b] = batches[b]]_<<job, batches>>
  <2>1. ASSUME BatchInv, [L!Next]_L!vars PROVE Kept
    BY <2>1, Assumed, StepPreserves, StutterStepPreserves
  <2> QED BY <2>1 DEF Kept, Evolves, JobsDecided, Live, Ids, LiveBatch, Settled,
              L!Ids, L!LiveBatch, L!Settled
<1> QED BY <1>1, BatchInvariance, PTL DEF L!Spec, DecisionsKept
=============================================================================
