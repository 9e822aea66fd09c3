------------------------- MODULE SlackDialogueProofs -------------------------
(***************************************************************************)
(* For every number of messages, members, revisions and faults: the type   *)
(* invariant of SlackDialogue, that no row of the outbox is sent twice,    *)
(* and that an assent approves only what its author had been sent.         *)
(***************************************************************************)
EXTENDS SlackDialogue, SequenceTheorems, WellFoundedInduction, TLAPS

-----------------------------------------------------------------------------
(* The inductive invariant. *)

\* Where the worker holds a message it claimed, and where it holds a row at all.
Claiming == {"plan", "exec", "act", "finish"}
Holding == Claiming \cup {"defer", "post", "sent"}

\* A row that is still to be sent was not sent; a message still to be worked on has
\* told nothing; a plan that was saved names what it acts on.
RowSafe(x) ==
    /\ x.sends <= 1 /\ (x.note \in {"pending", "deferred"} => x.sends = 0)
    /\ x.state \in {"pending", "running"} => x.note = "pending" /\ x.msg # NoMessage
    /\ x.plan # NoPlan => x.plan.act # "none"
    /\ x.plan.act \notin {"none", "reply", "close", "resume"} => x.plan.run # NoRun

\* The row the worker posts is the only one on its way, and not sent before.
Outbox ==
    /\ \A i \in DOMAIN rows : RowSafe(rows[i])
    /\ \A i \in DOMAIN rows : rows[i].note = "sending" => w.pc \in {"post", "sent"} /\ w.row = i
    /\ w.pc = "post" => rows[w.row].note = "sending" /\ rows[w.row].sends = 0
    /\ w.pc = "sent" => /\ rows[w.row].note = "sending"
                        /\ w.reply.kind \in {"delivered", "failed", "unknown"}

Worker ==
    /\ w.pc \in Holding => w.row \in DOMAIN rows
    /\ w.pc \in Claiming => rows[w.row].state = "running"
    /\ w.pc = "defer" => rows[w.row].state = "done"
    /\ w.pc \in {"exec", "act", "finish", "defer"} => rows[w.row].plan.act # "none"
    /\ w.pc = "act" => rows[w.row].plan.act \notin {"reply", "dialogue", "close"}
    /\ w.pc \in {"drive", "driven", "tell", "discard"} => w.run \in Message

\* What a proposal that reached its user, or an answer on its way to the record, left
\* in the history.
Reached(p, x) == x.result.kind = "proposal" => [user |-> x.user, what |-> x.result] \in p

\* A plan that approves names a proposal its author knew when it was admitted.
PlanKnown(x) ==
    x.plan.act = "approve" =>
        x.msg # NoMessage /\ Says("proposal", x.plan.run, x.plan.rev) \in known[x.msg]

Shows ==
    /\ \A i \in DOMAIN rows : rows[i].note = "delivered" => Reached(posted, rows[i])
    /\ w.pc = "sent" /\ w.reply.kind = "delivered" => Reached(posted, rows[w.row])

Consents ==
    /\ \A m \in Message : reviewed[m].kind = "proposal" => reviewed[m] \in known[m]
    /\ \A i \in DOMAIN rows : PlanKnown(rows[i])
    /\ AssentWasShown

\* What a message has left behind was left after its admission.
Admissions ==
    /\ \A i \in DOMAIN rows : rows[i].msg # NoMessage => source[rows[i].msg] # "none"
    /\ \A g \in grants : source[g.msg] # "none"

IInv == TypeOK /\ Outbox /\ Worker /\ Shows /\ Consents /\ Admissions

-----------------------------------------------------------------------------
(* Rows: the oldest of some, one that is changed, one that is appended. *)

LEMMA Least == ASSUME NEW S, S \subseteq Nat, S # {} PROVE \E m \in S : \A k \in S : m <= k
<1> DEFINE R == OpToRel(<, Nat)
<1>1. \A k, m \in Nat : <<k, m>> \in R <=> k < m
  BY DEF OpToRel
<1>2. IsWellFoundedOn(R, Nat)
  BY NatLessThanWellFounded
<1> HIDE DEF R
<1>3. PICK m \in S : \A k \in S : ~(<<k, m>> \in R)
  BY <1>2, WFMin
<1>4. ASSUME NEW k \in S PROVE m <= k
  <2>1. k \in Nat /\ m \in Nat /\ ~(<<k, m>> \in R)
    BY <1>3
  <2>2. ~(k < m)
    BY <1>1, <2>1
  <2> QED
    BY <2>1, <2>2
<1> QED
  BY <1>4

LEMMA Greatest ==
    ASSUME NEW n \in Nat, NEW S, S \subseteq 1..n, S # {}
    PROVE  \E m \in S : \A k \in S : k <= m
<1> DEFINE T == {b \in Nat : \A k \in S : k <= b}
<1>1. n \in T
  OBVIOUS
<1>2. PICK m \in T : \A b \in T : m <= b
  BY <1>1, Least
<1>3. m \in Nat /\ m # 0 /\ \A k \in S : k \in Nat /\ k <= m
  <2>1. m \in Nat /\ \A k \in S : k \in 1..n /\ k <= m
    BY <1>2
  <2>2. PICK e \in S : TRUE
    OBVIOUS
  <2> QED
    BY <2>1, <2>2
<1>4. m - 1 \notin T
  BY <1>2, <1>3
<1>5. m \in S
  BY <1>3, <1>4
<1> QED
  BY <1>3, <1>5

LEMMA FirstRowIn ==
    ASSUME TypeOK, NEW S, S \subseteq DOMAIN rows, S # {}
    PROVE  FirstRow(S) \in S
<1>1. S \subseteq Nat
  BY DEF TypeOK, ThreadType
<1>2. PICK m \in S : \A k \in S : m <= k
  BY <1>1, Least
<1> QED
  BY <1>2 DEF FirstRow

LEMMA Changed ==
    ASSUME TypeOK, NEW i, NEW x, i \in DOMAIN rows => x \in RowType,
           rows' = [rows EXCEPT ![i] = x]
    PROVE  /\ rows' \in Seq(RowType)
           /\ DOMAIN rows' = DOMAIN rows
           /\ \A k \in DOMAIN rows : rows'[k] = IF k = i THEN x ELSE rows[k]
<1>1. rows \in Seq(RowType)
  BY DEF TypeOK, ThreadType
<1>2. CASE i \in DOMAIN rows
  BY <1>1, <1>2
<1>3. CASE i \notin DOMAIN rows
  <2>1. rows' = rows
    BY <1>1, <1>3
  <2> QED
    BY <1>1, <1>3, <2>1
<1> QED
  BY <1>2, <1>3

LEMMA Appended ==
    ASSUME TypeOK, NEW x \in RowType, rows' = Append(rows, x)
    PROVE  /\ rows' \in Seq(RowType)
           /\ DOMAIN rows \subseteq DOMAIN rows'
           /\ \A k \in DOMAIN rows : rows'[k] = rows[k]
           /\ \A k \in DOMAIN rows' : k \in DOMAIN rows \/ rows'[k] = x
<1>1. rows \in Seq(RowType)
  BY DEF TypeOK, ThreadType
<1> QED
  BY <1>1

-----------------------------------------------------------------------------
(* What is said, and what a Run may become. *)

RunType == [mode : Modes, rev : 0..MaxRev]

LEMMA SaysType ==
    ASSUME NEW k \in Kinds, NEW r \in Message \cup {NoRun}, NEW n \in Nat
    PROVE  Says(k, r, n) \in Saying /\ Says(k, r, n).kind = k
BY DEF Says, Saying

LEMMA ReplyType == ASSUME NEW k \in Kinds PROVE Reply(k) \in Saying /\ Reply(k).kind = k
BY SaysType DEF Reply

LEMMA UnboundType == Unbound \in Saying
BY SaysType DEF Unbound, Kinds

LEMMA NoPlanType == NoPlan \in PlanType /\ NoPlan.act = "none"
<1>1. Reply("none") \in Saying
  BY ReplyType DEF Kinds, Modes
<1> QED
  BY <1>1 DEF NoPlan, PlanType, Acts

LEMMA ModeType ==
    ASSUME TypeOK, NEW r \in Message \cup {NoRun}
    PROVE  Mode(r) \in Modes /\ (Mode(r) # "none" => r \in Message /\ Mode(r) = run[r].mode)
BY DEF TypeOK, RunsType, Mode, Modes

LEMMA RunOf ==
    ASSUME TypeOK, NEW r \in Message
    PROVE  run[r] \in RunType /\ run[r].rev \in Nat /\ run[r].mode \in Modes
<1>1. MaxRev \in Nat
  BY DialogueAssumption
<1>2. run[r] \in RunType
  BY DEF TypeOK, RunsType, RunType
<1>3. run[r].rev \in 0..MaxRev /\ run[r].mode \in Modes
  BY <1>2 DEF RunType
<1> QED
  BY <1>1, <1>2, <1>3

LEMMA ProposalType ==
    ASSUME TypeOK, NEW r \in Message PROVE Proposal(r) \in Saying
BY RunOf, SaysType DEF Proposal, Kinds

LEMMA ResultType ==
    ASSUME TypeOK, NEW r \in Message
    PROVE  ResultText(r) \in Saying /\ Identity(r) \in Saying /\ ResultText(r).kind # "proposal"
<1>1. \A n \in Nat : Says("result", r, n) \in Saying /\ Says("incomplete", r, n) \in Saying
  BY SaysType DEF Kinds
<1>2. run[r].rev \in Nat
  BY RunOf
<1> QED
  BY <1>1, <1>2, UnboundType DEF ResultText, Identity, Says

LEMMA IdentityType ==
    ASSUME TypeOK, NEW r \in Message \cup {NoRun} PROVE Identity(r) \in Saying
<1>1. CASE r \in Message
  BY <1>1, ResultType
<1>2. CASE r = NoRun
  BY <1>2, UnboundType DEF Identity, Mode
<1> QED
  BY <1>1, <1>2

LEMMA SummaryType ==
    ASSUME TypeOK, NEW r \in Message \cup {NoRun} PROVE Summary(r) \in Saying
<1>1. Reply("nothing") \in Saying
  BY ReplyType DEF Kinds
<1>2. CASE Mode(r) = "none"
  BY <1>1, <1>2 DEF Summary
<1>3. CASE Mode(r) # "none"
  <2>1. r \in Message /\ Mode(r) \in Kinds /\ run[r].rev \in Nat
    BY <1>3, ModeType, RunOf DEF Kinds
  <2>2. Proposal(r) \in Saying /\ Says(Mode(r), r, 0) \in Saying
    BY <2>1, ProposalType, SaysType
  <2>3. Says("result", r, run[r].rev) \in Saying
    BY <2>1, SaysType DEF Kinds
  <2> QED
    BY <1>3, <2>2, <2>3 DEF Summary
<1> QED
  BY <1>2, <1>3

LEMMA LaterType ==
    ASSUME NEW x \in RunType, NEW k \in Modes PROVE Later(x, k) \in RunType
<1>1. MaxRev \in Nat /\ x.rev \in 0..MaxRev
  BY DialogueAssumption DEF RunType
<1>2. (IF x.rev < MaxRev THEN x.rev + 1 ELSE x.rev) \in 0..MaxRev
  BY <1>1
<1> QED
  BY <1>2 DEF Later, RunType

LEMMA EndsType ==
    ASSUME NEW x \in RunType
    PROVE  SliceEnds(x) \subseteq RunType /\ Stopped(x) \in RunType
<1>1. \A k \in Modes : Later(x, k) \in RunType
  BY LaterType
<1>2. {"running", "input", "approval", "tool", "unknown"}
          \cup (IF PendingInput THEN {} ELSE {"completed"}) \subseteq Modes
      /\ "input" \in Modes /\ "stopped" \in Modes
  BY DEF Modes
<1>3. SliceEnds(x) \subseteq RunType
  BY <1>1, <1>2 DEF SliceEnds
<1>4. Stopped(x) \in RunType
  BY <1>1, <1>2 DEF Stopped
<1> QED
  BY <1>3, <1>4

LEMMA OutcomesType ==
    ASSUME TypeOK, NEW m, NEW plan \in PlanType,
           plan.act \in Acts \ {"none", "reply", "dialogue", "close"},
           plan.act # "resume" => plan.run # NoRun
    PROVE  Outcomes(m, plan) \subseteq RunType
<1> DEFINE r == plan.run
<1>1. r \in Message \cup {NoRun}
  BY DEF PlanType
<1>2. Mode(r) # "none" => r \in Message
  BY <1>1, ModeType
<1>3. r \in Message => /\ run[r] \in RunType /\ SliceEnds(run[r]) \subseteq RunType
                       /\ \A k \in Modes : /\ Later(run[r], k) \in RunType
                                           /\ SliceEnds(Later(run[r], k)) \subseteq RunType
  BY RunOf, LaterType, EndsType
<1>4. {"tool", "running", "input", "stopped"} \subseteq Modes
  BY DEF Modes
<1> HIDE DEF r
<1>5. r \in Message => Revised(m, r) \subseteq RunType /\ Paused(m, r) \subseteq RunType
  BY <1>3, <1>4 DEF Revised, Paused
<1>6. plan.act # "resume" => r \in Message
  BY <1>1 DEF r
<1>7. CASE plan.act = "create"
  BY <1>3, <1>6, <1>7 DEF Outcomes, r
<1>8. CASE plan.act = "revise"
  BY <1>5, <1>6, <1>8 DEF Outcomes, r
<1>9. CASE plan.act = "pause"
  BY <1>5, <1>6, <1>9 DEF Outcomes, r
<1>10. CASE plan.act = "resume"
  BY <1>2, <1>3, <1>10 DEF Outcomes, r
<1>11. CASE plan.act = "approve"
  BY <1>3, <1>4, <1>6, <1>11 DEF Outcomes, r
<1>12. CASE plan.act = "reject"
  BY <1>3, <1>4, <1>6, <1>12 DEF Outcomes, r
<1>13. plan.act \in {"create", "revise", "pause", "resume", "approve", "reject"}
  BY DEF Acts
<1> QED
  BY <1>7, <1>8, <1>9, <1>10, <1>11, <1>12, <1>13

\* An approval goes through only for the proposal its plan names.
LEMMA ApprovedProposal ==
    ASSUME NEW m, NEW plan, plan.act = "approve", Outcomes(m, plan) # {}
    PROVE  Proposal(plan.run) = Says("proposal", plan.run, plan.rev)
BY DEF Outcomes, Decidable, Proposal

LEMMA ReplyToType ==
    ASSUME NEW m, NEW plan \in PlanType, NEW x \in RunType
    PROVE  ReplyTo(m, plan, x) \in Saying
<1>1. x.rev \in Nat /\ x.mode \in Kinds /\ plan.run \in Message \cup {NoRun}
  BY DialogueAssumption DEF RunType, PlanType, Kinds
<1>2. Says("proposal", plan.run, x.rev) \in Saying /\ Says("result", plan.run, x.rev) \in Saying
      /\ Says(x.mode, plan.run, 0) \in Saying
  BY <1>1, SaysType DEF Kinds
<1>3. Reply("cancelled") \in Saying /\ Reply("noted") \in Saying /\ Reply("paused") \in Saying
      /\ Reply("working") \in Saying
  BY ReplyType DEF Kinds
<1> QED
  BY <1>2, <1>3 DEF ReplyTo

\* A plan a message may get.
Proper(m, plan) ==
    /\ plan \in PlanType /\ plan.act # "none"
    /\ plan.act \notin {"reply", "close", "resume"} => plan.run # NoRun
    /\ plan.act = "approve" =>
          plan.run \in Message /\ reviewed[m] = Says("proposal", plan.run, plan.rev)

LEMMA PlannedProper ==
    ASSUME NEW m, NEW act \in Acts \ {"none", "approve"}, NEW r \in Message \cup {NoRun},
           NEW n \in Nat, NEW reply \in Saying,
           act \notin {"reply", "close", "resume"} => r # NoRun
    PROVE  Proper(m, Planned(act, r, n, reply))
BY DEF Proper, Planned, PlanType

LEMMA AnswerProper == ASSUME NEW m, NEW reply \in Saying PROVE Proper(m, Answer(reply))
BY PlannedProper DEF Answer, Acts

LEMMA PlanProper ==
    ASSUME TypeOK, NEW m \in Message PROVE Proper(m, PlanOf(m))
<1> DEFINE r == conv.current
<1>1. r \in Message \cup {NoRun} /\ (Mode(r) # "none" => r \in Message)
  BY ModeType DEF TypeOK, ThreadType
<1>2. /\ Reply("empty") \in Saying /\ Reply("closed") \in Saying /\ Reply("help") \in Saying
      /\ Reply("nothing") \in Saying /\ Reply("none") \in Saying /\ Reply("answer") \in Saying
  BY ReplyType DEF Kinds, Modes
<1>3. Summary(r) \in Saying
  BY <1>1, SummaryType
<1> HIDE DEF r
<1>4. \A s \in Saying : Proper(m, Answer(s))
  BY AnswerProper
<1>5. Proper(m, Planned("close", NoRun, 0, Reply("closed")))
  BY <1>2, PlannedProper DEF Acts
<1>6. Mode(r) # "none" => Proper(m, Planned("pause", r, 0, Reply("none")))
  BY <1>1, <1>2, PlannedProper DEF Acts, NoRun, Message
<1>7. Mode(r) # "none" => Proper(m, Planned("reject", r, run[r].rev, Reply("none")))
  BY <1>1, <1>2, RunOf, PlannedProper DEF Acts, NoRun, Message
<1>8. Proper(m, Assent(m, r))
  <2>1. CASE Mode(r) = "approval" /\ reviewed[m] = Proposal(r) /\ Shown(m, r)
    <3>1. r \in Message /\ run[r].rev \in Nat /\ r # NoRun
      BY <1>1, <2>1, RunOf DEF Message, NoRun
    <3>2. Proper(m, Planned("approve", r, run[r].rev, Reply("none")))
      BY <1>2, <2>1, <3>1 DEF Proper, Planned, PlanType, Acts, Proposal
    <3> QED
      BY <2>1, <3>2 DEF Assent
  <2>2. CASE ~(Mode(r) = "approval" /\ reviewed[m] = Proposal(r) /\ Shown(m, r))
    BY <1>2, <1>3, <1>4, <2>2 DEF Assent
  <2> QED
    BY <2>1, <2>2
<1>9. Proper(m, Planned(IF Mode(r) = "input" THEN "revise" ELSE "resume", r, 0, Reply("none")))
  <2>1. r # NoRun => Proper(m, Planned("revise", r, 0, Reply("none")))
    BY <1>1, <1>2, PlannedProper DEF Acts
  <2>2. Proper(m, Planned("resume", r, 0, Reply("none")))
    BY <1>1, <1>2, PlannedProper DEF Acts
  <2> QED
    BY <1>1, <2>1, <2>2 DEF Message, NoRun
<1>10. Mode(r) # "none" => /\ Proper(m, Planned("dialogue", r, 0, Reply("answer")))
                           /\ Proper(m, Planned("revise", r, 0, Reply("none")))
  BY <1>1, <1>2, PlannedProper DEF Acts, NoRun, Message
<1>11. Proper(m, Planned("create", m, 0, Reply("none")))
  BY <1>2, PlannedProper DEF Acts, NoRun, Message
<1> QED
  BY <1>2, <1>3, <1>4, <1>5, <1>6, <1>7, <1>8, <1>9, <1>10, <1>11 DEF PlanOf, r

LEMMA NewRowType ==
    ASSUME NEW m \in Message \cup {NoMessage}, NEW key \in Saying, NEW user \in User,
           NEW r \in Message \cup {NoRun}, NEW state \in {"pending", "running", "done", "blocked"},
           NEW result \in Saying, NEW note \in Notes
    PROVE  NewRow(m, key, user, r, state, result, note) \in RowType
<1>1. NoPlan \in PlanType /\ Unbound \in Saying /\ 0 \in Nat
  BY NoPlanType, UnboundType
<1> QED
  BY <1>1 DEF NewRow, RowType

\* A notice that is put in the outbox, if it is.
LEMMA EnqueuedRow ==
    ASSUME TypeOK, NEW r \in Message, NEW key \in Saying, NEW result \in Saying,
           Enqueued(r, key, result) # rows
    PROVE  \E x \in RowType :
               /\ Enqueued(r, key, result) = Append(rows, x)
               /\ x.msg = NoMessage /\ x.state = "done" /\ x.plan = NoPlan /\ x.sends = 0
               /\ x.note \in {"skipped", "pending"}
<1> DEFINE last == rows[Len(rows)]
           senders == {i \in Inbox : rows[i].plan.run = r \/ r = conv.current}
           sender == rows[CHOOSE i \in senders : \A j \in senders : j <= i].user
           again == last.result = result /\ last.note \in {"delivered", "skipped"}
           note == IF again THEN "skipped" ELSE "pending"
           x == [NewRow(NoMessage, key, sender, r, "done", result, note) EXCEPT !.bound = Identity(r)]
<1>1. rows \in Seq(RowType) /\ senders # {} /\ Enqueued(r, key, result) = Append(rows, x)
  BY DEF Enqueued, TypeOK, ThreadType
<1>2. sender \in User
  <2>1. Len(rows) \in Nat /\ senders \subseteq 1..Len(rows)
    BY <1>1 DEF Inbox
  <2>2. \E i \in senders : \A j \in senders : j <= i
    BY <1>1, <2>1, Greatest
  <2> DEFINE i == CHOOSE i \in senders : \A j \in senders : j <= i
  <2>3. i \in senders
    BY <2>2
  <2>4. i \in DOMAIN rows
    BY <2>3 DEF Inbox
  <2> HIDE DEF i, senders
  <2>5. rows[i] \in RowType
    BY <1>1, <2>4
  <2> QED
    BY <2>5 DEF RowType, i, senders
<1>3. note \in Notes
  BY DEF Notes
<1> HIDE DEF sender, note
<1>4. NewRow(NoMessage, key, sender, r, "done", result, note) \in RowType
  BY <1>2, <1>3, NewRowType
<1>5. Identity(r) \in Saying
  BY ResultType
<1>6. x \in RowType
  BY <1>4, <1>5 DEF RowType
<1>7. /\ x.msg = NoMessage /\ x.state = "done" /\ x.plan = NoPlan /\ x.sends = 0
      /\ x.note = note
  BY DEF NewRow
<1>8. note \in {"skipped", "pending"}
  BY DEF note
<1> QED
  BY <1>1, <1>6, <1>7, <1>8

-----------------------------------------------------------------------------
(* Every step keeps the type. *)

WorkerType == [pc : Pcs, row : Nat, run : Message \cup {NoRun}, reply : Saying]

LEMMA IdleType ==
    /\ Idle \in WorkerType /\ Idle.pc = "idle"
    /\ \A pc \in Pcs : [Idle EXCEPT !.pc = pc].pc = pc
<1>1. Reply("none") \in Saying /\ 0 \in Nat
  BY ReplyType DEF Kinds, Modes
<1> QED
  BY <1>1 DEF Idle, WorkerType, Pcs

LEMMA GotoType ==
    ASSUME TypeOK, NEW pc \in Pcs PROVE [w EXCEPT !.pc = pc] \in WorkerType
BY DEF TypeOK, WorkerType

LEMMA ReceiveType ==
    ASSUME TypeOK, NEW m \in Message, NEW says \in Texts[m], Receive(m, says) PROVE TypeOK'
<1>1. says \in Wordings /\ Author[m] \in User
  BY DialogueAssumption
<1>2. Reply("message") \in Saying /\ Reply("none") \in Saying
  BY ReplyType DEF Kinds, Modes
<1>3. NewRow(m, Reply("message"), Author[m], NoRun, "pending", Reply("none"), "pending") \in RowType
  BY <1>1, <1>2, NewRowType DEF Notes
<1>4. rows' \in Seq(RowType)
  BY <1>3, Appended DEF Receive
<1>5. Reviewable(m, says) \in Saying
  <2>1. conv.current \in Message \cup {NoRun}
    BY DEF TypeOK, ThreadType
  <2>2. Mode(conv.current) = "approval" => Proposal(conv.current) \in Saying
    BY <2>1, ModeType, ProposalType
  <2> QED
    BY <1>2, <2>2 DEF Reviewable
<1>6. {p.what : p \in {q \in posted : q.user = Author[m]}} \in SUBSET Saying
  BY DEF TypeOK, HistoryType
<1>7. text' \in [Message -> Wordings \cup {"none"}] /\ reviewed' \in [Message -> Saying]
      /\ source' \in [Message -> {"none", "final", "edited"}]
  BY <1>1, <1>5 DEF Receive, TypeOK, ThreadType
<1>8. known' \in [Message -> SUBSET Saying]
  BY <1>6 DEF Receive, TypeOK, HistoryType
<1> QED
  BY <1>4, <1>7, <1>8 DEF Receive, TypeOK, ThreadType, RunsType, HistoryType, runs

LEMMA SmallType ==
    ASSUME TypeOK, NEW m \in Message, NEW u \in User, Edit(m) \/ Leave(u) \/ Cancel(m) \/ Acknowledge(m)
    PROVE  TypeOK'
<1>1. CASE Edit(m)
  BY <1>1 DEF Edit, TypeOK, ThreadType, RunsType, HistoryType, runs, history
<1>2. CASE Leave(u)
  BY <1>2 DEF Leave, TypeOK, ThreadType, RunsType, HistoryType, runs, history
<1>3. CASE Cancel(m)
  BY <1>3 DEF Cancel, TypeOK, ThreadType, RunsType, HistoryType, thread, history
<1>4. CASE Acknowledge(m)
  BY <1>4 DEF Acknowledge, TypeOK, ThreadType, RunsType, HistoryType, runs, history
<1> QED
  BY <1>1, <1>2, <1>3, <1>4

\* A change of one field of a row.
LEMMA RowFields ==
    ASSUME NEW x \in RowType
    PROVE  /\ \A n \in Notes : [x EXCEPT !.note = n] \in RowType
           /\ \A s \in {"pending", "running", "done", "blocked"} : [x EXCEPT !.state = s] \in RowType
           /\ \A p \in PlanType : [x EXCEPT !.plan = p] \in RowType
           /\ \A n \in Nat : [x EXCEPT !.sends = n] \in RowType
           /\ \A s \in {"pending", "running", "done", "blocked"}, t \in Saying :
                [x EXCEPT !.state = s, !.result = t] \in RowType
           /\ \A s \in {"pending", "running", "done", "blocked"}, t, b \in Saying :
                [x EXCEPT !.state = s, !.result = t, !.bound = b] \in RowType
           /\ \A s \in {"pending", "running", "done", "blocked"}, t, b \in Saying, n \in Notes :
                [x EXCEPT !.state = s, !.result = t, !.note = n, !.bound = b] \in RowType
           /\ \A s \in {"pending", "running", "done", "blocked"}, t \in Saying, n \in Notes :
                [x EXCEPT !.state = s, !.result = t, !.note = n] \in RowType
BY DEF RowType

\* What the invariant says of the row the worker holds.
LEMMA Held ==
    ASSUME TypeOK, Outbox, Worker
    PROVE  /\ w.pc \in Holding => w.row \in DOMAIN rows /\ rows[w.row] \in RowType /\ RowSafe(rows[w.row])
                                  /\ Plan \in PlanType
           /\ w.pc \in Claiming => Msg \in Message
           /\ w.row \in Nat /\ w.pc \in Pcs /\ w.run \in Message \cup {NoRun} /\ w.reply \in Saying
<1>1. w.pc \in Holding => w.row \in DOMAIN rows /\ rows[w.row] \in RowType /\ RowSafe(rows[w.row])
  BY DEF TypeOK, ThreadType, Outbox, Worker
<1>2. w.pc \in Holding => Plan \in PlanType
  BY <1>1 DEF Plan, RowType
<1>3. w.pc \in Claiming => Msg \in Message
  <2>1. w.pc \in Claiming => w.pc \in Holding /\ rows[w.row].state = "running"
    BY DEF Worker, Holding
  <2> QED
    BY <1>1, <2>1 DEF RowSafe, RowType, Msg
<1>4. w.row \in Nat /\ w.pc \in Pcs /\ w.run \in Message \cup {NoRun} /\ w.reply \in Saying
  BY DEF TypeOK
<1> QED
  BY <1>1, <1>2, <1>3, <1>4

LEMMA ClaimingType ==
    ASSUME TypeOK, Outbox, Worker, ClaimNotification \/ NothingToPost \/ ClaimMessage
    PROVE  TypeOK'
<1>0. \A i \in DOMAIN rows : rows[i] \in RowType /\ i \in Nat
  BY DEF TypeOK, ThreadType
<1>1. CASE ClaimNotification
  <2> DEFINE i == FirstRow(Due)
             x == [rows[i] EXCEPT !.note = "sending"]
  <2>1. i \in DOMAIN rows
    <3>1. Due # {} /\ Due \subseteq DOMAIN rows
      BY <1>1 DEF ClaimNotification, Due
    <3> QED
      BY <3>1, FirstRowIn
  <2>2. x \in RowType
    <3> HIDE DEF i
    <3>1. "sending" \in Notes
      BY DEF Notes
    <3> QED
      BY <1>0, <2>1, <3>1, RowFields
  <2>3. rows' = [rows EXCEPT ![i] = x]
    BY <1>1 DEF ClaimNotification
  <2>4. rows' \in Seq(RowType)
    <3> HIDE DEF x, i
    <3> QED
      BY <2>2, <2>3, Changed
  <2>5. w' \in WorkerType
    <3>1. "post" \in Pcs /\ i \in Nat /\ w' = [Idle EXCEPT !.pc = "post", !.row = i]
      BY <1>0, <1>1, <2>1 DEF ClaimNotification, Pcs
    <3> HIDE DEF i
    <3> QED
      BY <3>1, IdleType DEF WorkerType
  <2> QED
    BY <1>1, <2>4, <2>5 DEF ClaimNotification, TypeOK, ThreadType, RunsType, HistoryType, runs,
                            history, WorkerType
<1>2. CASE NothingToPost
  <2>1. w' \in WorkerType
    BY <1>2, GotoType DEF NothingToPost, Goto, Pcs
  <2> QED
    BY <1>2, <2>1 DEF NothingToPost, TypeOK, ThreadType, RunsType, HistoryType, thread, runs,
                      history, WorkerType
<1>3. CASE ClaimMessage
  <2> DEFINE i == FirstRow(Claimable)
             x == [rows[i] EXCEPT !.state = "running"]
  <2>1. i \in DOMAIN rows
    <3>1. Claimable # {} /\ Claimable \subseteq DOMAIN rows
      BY <1>3 DEF ClaimMessage, Claimable, Inbox
    <3> QED
      BY <3>1, FirstRowIn
  <2>2. x \in RowType
    <3> HIDE DEF i
    <3> QED
      BY <1>0, <2>1, RowFields
  <2>3. rows' = [rows EXCEPT ![i] = x]
    BY <1>3 DEF ClaimMessage
  <2>4. rows' \in Seq(RowType)
    <3> HIDE DEF x, i
    <3> QED
      BY <2>2, <2>3, Changed
  <2>5. w' \in WorkerType
    <3> DEFINE pc == IF rows[i].plan = NoPlan THEN "plan" ELSE "exec"
    <3>1. pc \in Pcs /\ i \in Nat /\ conv.current \in Message \cup {NoRun}
          /\ w' = [Idle EXCEPT !.pc = pc, !.row = i, !.run = conv.current]
      BY <1>0, <1>3, <2>1 DEF ClaimMessage, Pcs, TypeOK, ThreadType
    <3> HIDE DEF i, pc
    <3> QED
      BY <3>1, IdleType DEF WorkerType
  <2> QED
    BY <1>3, <2>4, <2>5 DEF ClaimMessage, TypeOK, ThreadType, RunsType, HistoryType, runs,
                            history, WorkerType
<1> QED
  BY <1>1, <1>2, <1>3

LEMMA PlanningType ==
    ASSUME TypeOK, Outbox, Worker, MakePlan \/ Requeue \/ Fail \/ Finish \/ Defer
    PROVE  TypeOK'
<1> DEFINE i == w.row
           y == rows[i]
<1>0. /\ Reply("none") \in Saying /\ Reply("failed") \in Saying
      /\ Idle \in WorkerType /\ w \in WorkerType
  BY ReplyType, IdleType DEF Kinds, Modes, TypeOK, WorkerType
<1>1. CASE MakePlan
  <2>1. w.pc = "plan" /\ w.pc \in Claiming /\ w.pc \in Holding
    BY <1>1 DEF MakePlan, Claiming, Holding
  <2>2. PlanOf(Msg) \in PlanType /\ y \in RowType
    BY <2>1, Held, PlanProper DEF Proper
  <2> DEFINE x == [y EXCEPT !.plan = PlanOf(Msg)]
  <2>3. x \in RowType
    <3> HIDE DEF y
    <3> QED
      BY <2>2, RowFields
  <2>4. rows' = [rows EXCEPT ![i] = x]
    BY <1>1 DEF MakePlan
  <2>5. rows' \in Seq(RowType)
    <3> HIDE DEF x, i
    <3> QED
      BY <2>3, <2>4, Changed
  <2>6. w' \in WorkerType
    BY <1>1, GotoType DEF MakePlan, Goto, Pcs
  <2> QED
    BY <1>1, <2>5, <2>6 DEF MakePlan, TypeOK, ThreadType, RunsType, HistoryType, runs, history,
                            WorkerType
<1>2. CASE Requeue
  <2>1. w.pc = "exec" /\ w.pc \in Holding
    BY <1>2 DEF Requeue, Claiming, Holding
  <2>2. y \in RowType
    BY <2>1, Held
  <2> DEFINE x == [y EXCEPT !.state = "pending", !.result = Reply("none")]
  <2>3. x \in RowType
    <3> HIDE DEF y
    <3> QED
      BY <1>0, <2>2, RowFields
  <2>4. rows' = [rows EXCEPT ![i] = x]
    BY <1>2 DEF Requeue
  <2>5. rows' \in Seq(RowType)
    <3> HIDE DEF x, i
    <3> QED
      BY <2>3, <2>4, Changed
  <2> QED
    BY <1>0, <1>2, <2>5 DEF Requeue, TypeOK, ThreadType, RunsType, HistoryType, runs, history,
                            WorkerType
<1>3. CASE Fail
  <2>1. w.pc \in Claiming /\ w.pc \in Holding
    BY <1>3 DEF Fail, Claiming, Holding
  <2>2. y \in RowType /\ Msg \in Message
    BY <2>1, Held
  <2> DEFINE x == [y EXCEPT !.state = "blocked", !.result = Reply("failed")]
  <2>3. x \in RowType
    <3> HIDE DEF y
    <3> QED
      BY <1>0, <2>2, RowFields
  <2>4. rows' = [rows EXCEPT ![i] = x]
    BY <1>3 DEF Fail
  <2>5. rows' \in Seq(RowType)
    <3> HIDE DEF x, i
    <3> QED
      BY <2>3, <2>4, Changed
  <2>6. origin' \in [Message -> Message \cup {NoMessage}]
    BY <1>3, <2>2 DEF Fail, TypeOK, RunsType
  <2> QED
    BY <1>0, <1>3, <2>5, <2>6 DEF Fail, TypeOK, ThreadType, RunsType, HistoryType, history,
                                  WorkerType
<1>4. CASE Finish
  <2>1. w.pc \in Claiming /\ w.pc \in Holding
    BY <1>4 DEF Finish, Claiming, Holding
  <2>2. y \in RowType /\ w.reply \in Saying /\ y.bound \in Saying
    BY <2>1, Held DEF RowType
  <2> DEFINE r == IF Plan.act = "dialogue" THEN NoRun ELSE Plan.run
             b == IF y.bound = Unbound /\ w.reply = Identity(r) THEN w.reply ELSE y.bound
             x == [y EXCEPT !.state = "done", !.result = w.reply, !.bound = b]
  <2>3. x \in RowType
    <3>1. b \in Saying
      BY <2>2
    <3> HIDE DEF y, b
    <3> QED
      BY <2>2, <3>1, RowFields
  <2>4. rows' = [rows EXCEPT ![i] = x]
    BY <1>4 DEF Finish
  <2>5. rows' \in Seq(RowType)
    <3> HIDE DEF x, i
    <3> QED
      BY <2>3, <2>4, Changed
  <2>6. w' \in WorkerType
    BY <1>4, GotoType DEF Finish, Goto, Pcs
  <2> QED
    BY <1>4, <2>5, <2>6 DEF Finish, TypeOK, ThreadType, RunsType, HistoryType, runs, history,
                            WorkerType
<1>5. CASE Defer
  <2>1. w.pc = "defer" /\ w.pc \in Holding
    BY <1>5 DEF Defer, Claiming, Holding
  <2>2. y \in RowType /\ y.note \in Notes /\ "deferred" \in Notes
    BY <2>1, Held DEF RowType, Notes
  <2> DEFINE x == [y EXCEPT !.note = IF y.note = "pending" THEN "deferred" ELSE y.note]
  <2>3. x \in RowType
    <3> HIDE DEF y
    <3> QED
      BY <2>2, RowFields
  <2>4. rows' = [rows EXCEPT ![i] = x] \/ rows' = rows
    BY <1>5 DEF Defer
  <2>5. rows' \in Seq(RowType)
    <3>1. rows \in Seq(RowType)
      BY DEF TypeOK, ThreadType
    <3> HIDE DEF x, i
    <3> QED
      BY <2>3, <2>4, <3>1, Changed
  <2>6. queue' \in [Message -> {"none", "pending", "notify"}]
    BY <1>5 DEF Defer, TypeOK, RunsType
  <2> QED
    BY <1>0, <1>5, <2>5, <2>6 DEF Defer, TypeOK, ThreadType, RunsType, HistoryType, history,
                                  WorkerType
<1> QED
  BY <1>1, <1>2, <1>3, <1>4, <1>5

\* A step of a Run inside a slice.
LEMMA PhaseType == ASSUME NEW x PROVE Phase(x) \in {"none", "pending", "notify"}
BY DEF Phase

LEMMA ExecuteType == ASSUME TypeOK, Outbox, Worker, Execute PROVE TypeOK'
<1>1. w.pc \in Claiming /\ w.pc \in Holding
  BY DEF Execute, Claiming, Holding
<1>2. Msg \in Message /\ Plan \in PlanType
  BY <1>1, Held
<1> DEFINE m == Msg
           plan == Plan
           open == conv.closed /\ text[m] # "reopen"
<1>3. conv.current \in Message \cup {NoRun} /\ conv.retained \subseteq Message
      /\ conv.closed \in BOOLEAN /\ open \in BOOLEAN
  BY DEF TypeOK, ThreadType
<1>4. Retained(m) \subseteq Message
  <2>1. Mode(conv.current) # "none" => conv.current \in Message
    BY <1>3, ModeType
  <2> QED
    BY <1>3, <2>1 DEF Retained
<1>5. plan.run \in Message \cup {NoRun} /\ plan.reply \in Saying /\ m \in Message
  BY <1>2 DEF PlanType
<1>6. conv' \in [current : Message \cup {NoRun}, retained : SUBSET Message, closed : BOOLEAN]
  <2> DEFINE C == [current : Message \cup {NoRun}, retained : SUBSET Message, closed : BOOLEAN]
  <2>1. conv \in C
    BY DEF TypeOK, ThreadType
  <2>2. /\ [conv EXCEPT !.closed = TRUE] \in C /\ [conv EXCEPT !.closed = open] \in C
        /\ [current |-> m, retained |-> Retained(m), closed |-> open] \in C
        /\ [conv EXCEPT !.current = plan.run, !.closed = open] \in C
    <3> HIDE DEF open, m, plan
    <3> QED
      BY <1>3, <1>4, <1>5, <2>1
  <2> QED
    BY <2>1, <2>2 DEF Execute
<1>7. w' \in WorkerType
  <2>1. w \in WorkerType /\ "finish" \in Pcs /\ "act" \in Pcs
    BY DEF TypeOK, WorkerType, Pcs
  <2>2. [w EXCEPT !.pc = "finish", !.reply = plan.reply] \in WorkerType
        /\ [w EXCEPT !.pc = "act"] \in WorkerType
    <3> HIDE DEF plan
    <3> QED
      BY <1>5, <2>1 DEF WorkerType
  <2> QED
    BY <2>2 DEF Execute
<1> QED
  BY <1>6, <1>7 DEF Execute, TypeOK, ThreadType, RunsType, HistoryType, runs, history, WorkerType

LEMMA ActType == ASSUME TypeOK, Outbox, Worker, Act PROVE TypeOK'
<1>1. w.pc = "act" /\ w.pc \in Claiming /\ w.pc \in Holding
  BY DEF Act, Claiming, Holding
<1>2. Msg \in Message /\ Plan \in PlanType /\ RowSafe(rows[w.row])
  BY <1>1, Held
<1>3. Plan.act \in Acts \ {"none", "reply", "dialogue", "close"}
      /\ (Plan.act # "resume" => Plan.run # NoRun)
  BY <1>1, <1>2 DEF Worker, Plan, RowSafe, PlanType
<1>4. Outcomes(Msg, Plan) \subseteq RunType
  BY <1>2, <1>3, OutcomesType
<1>5. PICK end \in Outcomes(Msg, Plan) :
        LET x == IF Msg \in cancelled /\ Plan.act # "pause" THEN Stopped(end) ELSE end IN
         /\ run' = [run EXCEPT ![Plan.run] = x]
         /\ queue' = IF x = run[Plan.run] THEN queue ELSE [queue EXCEPT ![Plan.run] = Phase(x)]
         /\ w' = [w EXCEPT !.pc = "finish", !.reply = ReplyTo(Msg, Plan, x)]
  BY DEF Act
<1> DEFINE x == IF Msg \in cancelled /\ Plan.act # "pause" THEN Stopped(end) ELSE end
<1>6. x \in RunType
  BY <1>4, EndsType
<1>7. /\ run' = [run EXCEPT ![Plan.run] = x]
      /\ queue' = IF x = run[Plan.run] THEN queue ELSE [queue EXCEPT ![Plan.run] = Phase(x)]
      /\ w' = [w EXCEPT !.pc = "finish", !.reply = ReplyTo(Msg, Plan, x)]
  BY <1>5
<1> HIDE DEF x
<1>8. run' \in [Message -> RunType]
  BY <1>6, <1>7 DEF TypeOK, RunsType, RunType
<1>9. queue' \in [Message -> {"none", "pending", "notify"}]
  BY <1>7, PhaseType DEF TypeOK, RunsType
<1>10. w' \in WorkerType
  <2>1. ReplyTo(Msg, Plan, x) \in Saying /\ w \in WorkerType /\ "finish" \in Pcs
    BY <1>2, <1>6, ReplyToType DEF TypeOK, WorkerType, Pcs
  <2> QED
    BY <1>7, <2>1 DEF WorkerType
<1>11. origin' \in [Message -> Message \cup {NoMessage}] /\ applied' \subseteq Message
  BY <1>2 DEF Act, TypeOK, RunsType
<1>12. grants' \subseteq [msg : Message, what : Saying]
  <2>1. grants \subseteq [msg : Message, what : Saying]
    BY DEF TypeOK, HistoryType
  <2>2. CASE Plan.act = "approve"
    <3>1. Plan.run \in Message
      BY <1>2, <1>3, <2>2 DEF PlanType
    <3>2. [msg |-> Msg, what |-> Proposal(Plan.run)] \in [msg : Message, what : Saying]
      BY <1>2, <3>1, ProposalType
    <3> QED
      BY <2>1, <2>2, <3>2 DEF Act
  <2> QED
    BY <2>1, <2>2 DEF Act
<1> QED
  BY <1>8, <1>9, <1>10, <1>11, <1>12 DEF Act, TypeOK, ThreadType, RunsType, HistoryType, thread,
                                         WorkerType, RunType

LEMMA ExecuteRequestedType == ASSUME TypeOK, Outbox, Worker, ExecuteRequested PROVE TypeOK'
<1> DEFINE driven == w.pc = "driven"
           r == IF driven THEN w.run ELSE Plan.run
           m == IF driven THEN origin[r] ELSE Msg
<1>1. driven \/ w.pc = "finish"
  BY DEF ExecuteRequested
<1>2. ~driven => w.pc \in Claiming /\ w.pc \in Holding
  BY <1>1 DEF Claiming, Holding
<1>3. r \in Message \cup {NoRun} /\ (~driven => Plan \in PlanType)
  BY <1>2, Held DEF PlanType
<1>4. r \in Message
  <2>1. Mode(r) = "approval"
    BY DEF ExecuteRequested
  <2> HIDE DEF r
  <2> QED
    BY <1>3, <2>1, ModeType
<1>5. PICK end \in SliceEnds(Later(run[r], "running")) :
         LET x == IF m \in cancelled THEN Stopped(end) ELSE end IN
         /\ run' = [run EXCEPT ![r] = x]
         /\ queue' = [queue EXCEPT ![r] = Phase(x)]
         /\ w' = IF driven THEN w ELSE [w EXCEPT !.reply = ReplyTo(m, Plan, x)]
  BY DEF ExecuteRequested
<1> DEFINE x == IF m \in cancelled THEN Stopped(end) ELSE end
<1>6. x \in RunType
  <2> HIDE DEF r, m
  <2>1. Later(run[r], "running") \in RunType
    BY <1>4, RunOf, LaterType DEF Modes
  <2>2. end \in RunType
    BY <2>1, EndsType
  <2> QED
    BY <2>2, EndsType
<1>7. /\ run' = [run EXCEPT ![r] = x]
      /\ queue' = [queue EXCEPT ![r] = Phase(x)]
      /\ w' = IF driven THEN w ELSE [w EXCEPT !.reply = ReplyTo(m, Plan, x)]
  BY <1>5
<1> HIDE DEF x, r, m
<1>8. run' \in [Message -> RunType]
  BY <1>6, <1>7 DEF TypeOK, RunsType, RunType
<1>9. queue' \in [Message -> {"none", "pending", "notify"}]
  BY <1>7, PhaseType DEF TypeOK, RunsType
<1>10. w' \in WorkerType
  <2>1. w \in WorkerType /\ (~driven => ReplyTo(m, Plan, x) \in Saying)
    BY <1>3, <1>6, ReplyToType DEF TypeOK, WorkerType
  <2> HIDE DEF driven
  <2> QED
    BY <1>7, <2>1 DEF WorkerType
<1> QED
  BY <1>8, <1>9, <1>10 DEF ExecuteRequested, TypeOK, ThreadType, RunsType, HistoryType, thread,
                           history, WorkerType, RunType

LEMMA DrivingType ==
    ASSUME TypeOK, Outbox, Worker, NEW q \in Message,
           \/ ClaimDrive(q) \/ NothingToDrive \/ DriveDenied \/ DriveSlice \/ DriveEnds \/ Discard
    PROVE  TypeOK'
<1>0. Idle \in WorkerType /\ w \in WorkerType
  BY IdleType DEF TypeOK, WorkerType
<1>1. CASE ClaimDrive(q)
  <2> DEFINE pc == IF queue[q] = "pending" THEN "drive" ELSE "tell"
  <2>1. pc \in Pcs /\ w' = [Idle EXCEPT !.pc = pc, !.run = q]
    BY <1>1 DEF ClaimDrive, Pcs
  <2>2. w' \in WorkerType
    <3> HIDE DEF pc
    <3> QED
      BY <1>0, <2>1 DEF WorkerType
  <2> QED
    BY <1>1, <2>2 DEF ClaimDrive, TypeOK, ThreadType, RunsType, HistoryType, thread, runs, history,
                      WorkerType
<1>2. CASE NothingToDrive \/ DriveEnds
  BY <1>0, <1>2 DEF NothingToDrive, DriveEnds, TypeOK, ThreadType, RunsType, HistoryType, thread,
                    runs, history, WorkerType
<1>3. CASE DriveDenied
  <2>1. w.run \in Message
    BY <1>3 DEF DriveDenied, Worker
  <2>2. Later(run[w.run], "blocked") \in RunType
    BY <2>1, RunOf, LaterType DEF Modes
  <2>3. run' \in [Message -> RunType] /\ queue' \in [Message -> {"none", "pending", "notify"}]
    <3>1. run \in [Message -> RunType] /\ queue \in [Message -> {"none", "pending", "notify"}]
      BY DEF TypeOK, RunsType, RunType
    <3> QED
      BY <1>3, <2>2, <3>1 DEF DriveDenied
  <2> QED
    BY <1>0, <1>3, <2>3 DEF DriveDenied, TypeOK, ThreadType, RunsType, HistoryType, thread,
                            history, WorkerType, RunType
<1>4. CASE DriveSlice
  <2> DEFINE r == w.run
  <2>1. r \in Message
    BY <1>4 DEF DriveSlice, Worker
  <2>2. PICK end \in IF Mode(r) = "running" THEN SliceEnds(run[r]) ELSE {run[r]} :
         LET x == IF origin[r] \in cancelled THEN Stopped(end) ELSE end IN
         /\ run' = [run EXCEPT ![r] = x]
         /\ queue' = [queue EXCEPT ![r] = Phase(x)]
         /\ w' = IF x.mode = "approval" THEN [w EXCEPT !.pc = "driven"] ELSE Idle
    BY <1>4 DEF DriveSlice
  <2> DEFINE x == IF origin[r] \in cancelled THEN Stopped(end) ELSE end
  <2>3. x \in RunType
    <3> HIDE DEF r
    <3>1. end \in RunType
      BY <2>1, RunOf, EndsType
    <3> QED
      BY <3>1, EndsType
  <2>4. /\ run' = [run EXCEPT ![r] = x] /\ queue' = [queue EXCEPT ![r] = Phase(x)]
        /\ w' \in {[w EXCEPT !.pc = "driven"], Idle}
    BY <2>2
  <2> HIDE DEF x, r
  <2>5. run' \in [Message -> RunType] /\ queue' \in [Message -> {"none", "pending", "notify"}]
    BY <2>3, <2>4, PhaseType DEF TypeOK, RunsType, RunType
  <2>6. w' \in WorkerType
    BY <1>0, <2>4, GotoType DEF Pcs
  <2> QED
    BY <1>4, <2>5, <2>6 DEF DriveSlice, TypeOK, ThreadType, RunsType, HistoryType, thread,
                            history, WorkerType, RunType
<1>5. CASE Discard
  BY <1>0, <1>5 DEF Discard, TypeOK, ThreadType, RunsType, HistoryType, thread, history, WorkerType
<1> QED
  BY <1>1, <1>2, <1>3, <1>4, <1>5

\* What a notice makes of the outbox: the message's own answer, a new row, or nothing.
LEMMA TellDriveRows ==
    ASSUME TypeOK, Outbox, Worker, TellDrive
    PROVE  \/ rows' = rows
           \/ \E i \in DOMAIN rows : \E x \in RowType :
                /\ rows' = [rows EXCEPT ![i] = x]
                /\ x.msg = rows[i].msg /\ x.user = rows[i].user /\ x.plan = rows[i].plan
                /\ x.state = "done" /\ x.note = "pending" /\ x.sends = rows[i].sends
                /\ rows[i].note \in {"pending", "deferred"}
           \/ \E x \in RowType :
                /\ rows' = Append(rows, x)
                /\ x.msg = NoMessage /\ x.state = "done" /\ x.plan = NoPlan /\ x.sends = 0
                /\ x.note \in {"skipped", "pending"}
<1> DEFINE r == w.run
           i == RowOf(origin[r])
           y == rows[i]
           bound == IF y.bound = Unbound THEN Identity(r) ELSE y.bound
           x == [y EXCEPT !.state = "done", !.result = ResultText(r), !.note = "pending",
                          !.bound = bound]
<1>1. r \in Message
  BY DEF TellDrive, Worker
<1>2. rows' = IF y.note \in {"pending", "deferred"} THEN [rows EXCEPT ![i] = x]
              ELSE Enqueued(r, Says("drive", r, run[r].rev), ResultText(r))
  BY DEF TellDrive
<1>3. ResultText(r) \in Saying /\ Identity(r) \in Saying /\ Says("drive", r, run[r].rev) \in Saying
  <2> HIDE DEF r
  <2> QED
    BY <1>1, RunOf, ResultType, SaysType DEF Kinds
<1>4. rows \in Seq(RowType)
  BY DEF TypeOK, ThreadType
<1> HIDE DEF r, i
<1>5. CASE y.note \in {"pending", "deferred"} /\ i \in DOMAIN rows
  <2>1. y \in RowType
    BY <1>4, <1>5
  <2>2. bound \in Saying /\ "pending" \in Notes
    BY <1>3, <2>1 DEF RowType, Notes
  <2>3. x \in RowType
    <3> HIDE DEF y, bound
    <3> QED
      BY <1>3, <2>1, <2>2, RowFields
  <2>4. x.msg = y.msg /\ x.user = y.user /\ x.plan = y.plan /\ x.state = "done"
        /\ x.note = "pending" /\ x.sends = y.sends
    <3> HIDE DEF y, bound
    <3> QED
      BY <2>1 DEF RowType
  <2>5. rows' = [rows EXCEPT ![i] = x]
    BY <1>2, <1>5
  <2> HIDE DEF x
  <2> QED
    BY <1>5, <2>3, <2>4, <2>5
<1>6. CASE y.note \in {"pending", "deferred"} /\ i \notin DOMAIN rows
  <2>1. rows' = [rows EXCEPT ![i] = x]
    BY <1>2, <1>6
  <2> HIDE DEF x
  <2> QED
    BY <1>4, <1>6, <2>1
<1>7. CASE y.note \notin {"pending", "deferred"}
  <2>1. rows' = Enqueued(r, Says("drive", r, run[r].rev), ResultText(r))
    BY <1>2, <1>7
  <2> QED
    BY <1>1, <1>3, <2>1, EnqueuedRow
<1> QED
  BY <1>5, <1>6, <1>7

LEMMA TellUpdateRows ==
    ASSUME TypeOK, NEW r \in Message, TellUpdate(r)
    PROVE  \/ rows' = rows
           \/ \E x \in RowType :
                /\ rows' = Append(rows, x)
                /\ x.msg = NoMessage /\ x.state = "done" /\ x.plan = NoPlan /\ x.sends = 0
                /\ x.note \in {"skipped", "pending"}
<1>1. rows' = rows \/ rows' = Enqueued(r, Says("op", r, 0), Summary(r))
  BY DEF TellUpdate
<1>2. Says("op", r, 0) \in Saying /\ Summary(r) \in Saying
  BY SaysType, SummaryType DEF Kinds
<1> QED
  BY <1>1, <1>2, EnqueuedRow

LEMMA TellingType ==
    ASSUME TypeOK, Outbox, Worker, NEW r \in Message, TellDrive \/ TellUpdate(r) PROVE TypeOK'
<1>1. CASE TellDrive
  <2>1. rows' \in Seq(RowType)
    BY <1>1, TellDriveRows, Changed, Appended DEF TypeOK, ThreadType
  <2>2. w' \in WorkerType
    BY <1>1, GotoType DEF TellDrive, Goto, Pcs
  <2> QED
    BY <1>1, <2>1, <2>2 DEF TellDrive, TypeOK, ThreadType, RunsType, HistoryType, runs, history,
                            WorkerType
<1>2. CASE TellUpdate(r)
  <2>1. rows' \in Seq(RowType)
    BY <1>2, TellUpdateRows, Appended DEF TypeOK, ThreadType
  <2> QED
    BY <1>2, <2>1 DEF TellUpdate, TypeOK, ThreadType, RunsType, HistoryType, history
<1> QED
  BY <1>1, <1>2

LEMMA SettleType ==
    ASSUME TypeOK, NEW r \in Message, NEW mode \in {"running", "unknown"}, Settle(r, mode)
    PROVE  TypeOK'
<1>1. Later(run[r], mode) \in RunType
  BY RunOf, LaterType DEF Modes
<1>2. run' \in [Message -> RunType] /\ queue' \in [Message -> {"none", "pending", "notify"}]
  <2>1. run \in [Message -> RunType] /\ queue \in [Message -> {"none", "pending", "notify"}]
    BY DEF TypeOK, RunsType, RunType
  <2> QED
    BY <1>1, <2>1, PhaseType DEF Settle
<1> QED
  BY <1>2 DEF Settle, TypeOK, ThreadType, RunsType, HistoryType, thread, history, RunType

LEMMA PostingType ==
    ASSUME TypeOK, Outbox, Worker, NEW answer \in {"delivered", "failed", "unknown"},
           Withhold \/ Post(answer) \/ Sent
    PROVE  TypeOK'
<1> DEFINE i == w.row
           y == rows[i]
<1>0. /\ Idle \in WorkerType /\ w \in WorkerType /\ Reply(answer) \in Saying
  BY IdleType, ReplyType DEF Kinds, Modes, TypeOK, WorkerType
<1>1. w.pc \in Holding
  BY DEF Withhold, Post, Sent, Holding
<1>2. y \in RowType /\ i \in DOMAIN rows
  BY <1>1, Held
<1>3. CASE Withhold
  <2> DEFINE note == CASE y.user \notin members -> "denied"
                       [] Mode(Target(y)) # "none" /\ ~Matches(y, Target(y)) -> "superseded"
                       [] OTHER -> "skipped"
             x == [y EXCEPT !.note = note]
  <2>1. note \in Notes
    BY DEF Notes
  <2>2. x \in RowType
    <3> HIDE DEF y, note
    <3> QED
      BY <1>2, <2>1, RowFields
  <2>3. rows' = [rows EXCEPT ![i] = x]
    BY <1>3 DEF Withhold
  <2>4. rows' \in Seq(RowType)
    <3> HIDE DEF x, i
    <3> QED
      BY <2>2, <2>3, Changed
  <2> QED
    BY <1>0, <1>3, <2>4 DEF Withhold, TypeOK, ThreadType, RunsType, HistoryType, runs, history,
                            WorkerType
<1>4. CASE Post(answer)
  <2> DEFINE x == [y EXCEPT !.sends = y.sends + 1]
  <2>1. y.sends + 1 \in Nat
    BY <1>2 DEF RowType
  <2>2. x \in RowType
    <3> HIDE DEF y
    <3> QED
      BY <1>2, <2>1, RowFields
  <2>3. rows' = [rows EXCEPT ![i] = x]
    BY <1>4 DEF Post
  <2>4. rows' \in Seq(RowType)
    <3> HIDE DEF x, i
    <3> QED
      BY <2>2, <2>3, Changed
  <2>5. [user |-> y.user, what |-> y.result] \in [user : User, what : Saying]
    BY <1>2 DEF RowType
  <2>6. posted' \subseteq [user : User, what : Saying]
    BY <1>4, <2>5 DEF Post, TypeOK, HistoryType
  <2>7. w' \in WorkerType
    BY <1>0, <1>4 DEF Post, WorkerType, Pcs
  <2>8. faults' \in Nat
    BY <1>4 DEF Post, TypeOK
  <2> QED
    BY <1>4, <2>4, <2>6, <2>7, <2>8 DEF Post, TypeOK, ThreadType, RunsType, HistoryType, runs,
                                        WorkerType
<1>5. CASE Sent
  <2> DEFINE x == [y EXCEPT !.note = w.reply.kind]
  <2>1. w.reply.kind \in Notes
    BY <1>5 DEF Sent, Outbox, Notes
  <2>2. x \in RowType
    <3> HIDE DEF y
    <3> QED
      BY <1>2, <2>1, RowFields
  <2>3. rows' = [rows EXCEPT ![i] = x]
    BY <1>5 DEF Sent
  <2>4. rows' \in Seq(RowType)
    <3> HIDE DEF x, i
    <3> QED
      BY <2>2, <2>3, Changed
  <2> QED
    BY <1>0, <1>5, <2>4 DEF Sent, TypeOK, ThreadType, RunsType, HistoryType, runs, history,
                            WorkerType
<1> QED
  BY <1>3, <1>4, <1>5

LEMMA RecoveredRow ==
    ASSUME NEW x \in RowType
    PROVE  /\ Recovered(x) \in RowType
           /\ Recovered(x).msg = x.msg /\ Recovered(x).user = x.user /\ Recovered(x).plan = x.plan
           /\ Recovered(x).sends = x.sends
           /\ Recovered(x).note = IF x.note = "sending" THEN "unknown" ELSE x.note
           /\ x.state # "running" => /\ Recovered(x).state = x.state
                                     /\ Recovered(x).result = x.result
           /\ Recovered(x).state \in {"pending", "blocked", x.state}
           /\ Recovered(x).state # "running"
<1> DEFINE s == IF x.state # "running" THEN x.state
                ELSE IF x.plan.act \in Replayable THEN "pending" ELSE "blocked"
           t == IF x.state = "running" THEN Reply("restarted") ELSE x.result
           n == IF x.note = "sending" THEN "unknown" ELSE x.note
<1>1. Recovered(x) = [x EXCEPT !.state = s, !.result = t, !.note = n]
  BY DEF Recovered
<1>2. s \in {"pending", "running", "done", "blocked"} /\ t \in Saying /\ n \in Notes
  <2>1. Reply("restarted") \in Saying /\ "unknown" \in Notes
    BY ReplyType DEF Kinds, Notes
  <2> QED
    BY <2>1 DEF RowType
<1>3. s \in {"pending", "blocked", x.state} /\ s # "running" /\ (x.state # "running" => s = x.state /\ t = x.result)
  OBVIOUS
<1> HIDE DEF s, t
<1>4. [x EXCEPT !.state = s, !.result = t, !.note = n] \in RowType
  <2> HIDE DEF n
  <2> QED
    BY <1>2, RowFields
<1> QED
  BY <1>1, <1>3, <1>4 DEF RowType

LEMMA CrashType == ASSUME TypeOK, Crash PROVE TypeOK'
<1>1. rows \in Seq(RowType) /\ \A i \in DOMAIN rows : Recovered(rows[i]) \in RowType
  BY RecoveredRow DEF TypeOK, ThreadType
<1>2. rows' \in Seq(RowType)
  <2>1. Len(rows) \in Nat /\ DOMAIN rows = 1..Len(rows)
        /\ rows' = [i \in 1..Len(rows) |-> Recovered(rows[i])]
    BY <1>1 DEF Crash
  <2> QED
    BY <1>1, <2>1, IsASeq
<1> QED
  BY <1>2, IdleType DEF Crash, TypeOK, ThreadType, RunsType, HistoryType, runs, history, WorkerType

LEMMA TypeStep == ASSUME TypeOK, Outbox, Worker, [Next]_vars PROVE TypeOK'
<1>1. CASE UNCHANGED vars
  BY <1>1 DEF vars, TypeOK, ThreadType, RunsType, HistoryType, thread, runs, history
<1>2. ASSUME NEW m \in Message, NEW t \in Texts[m], Receive(m, t) PROVE TypeOK'
  BY <1>2, ReceiveType
<1>3. ASSUME NEW m \in Message, Edit(m) \/ Cancel(m) \/ Acknowledge(m) PROVE TypeOK'
  <2>1. Author[m] \in User
    BY DialogueAssumption
  <2> QED
    BY <1>3, <2>1, SmallType
<1>4. ASSUME NEW u \in User, Leave(u) PROVE TypeOK'
  BY <1>4 DEF Leave, TypeOK, ThreadType, RunsType, HistoryType, runs, history
<1>5. ASSUME Work PROVE TypeOK'
  <2>1. CASE \E m \in Message : Acknowledge(m)
    BY <2>1, <1>3
  <2>2. CASE ClaimNotification \/ NothingToPost \/ ClaimMessage
    BY <2>2, ClaimingType
  <2>3. CASE MakePlan \/ Requeue \/ Fail \/ Finish \/ Defer
    BY <2>3, PlanningType
  <2>4. CASE Execute
    BY <2>4, ExecuteType
  <2>5. CASE Act
    BY <2>5, ActType
  <2>6. CASE ExecuteRequested
    BY <2>6, ExecuteRequestedType
  <2>7. CASE \E r \in Message : ClaimDrive(r)
    BY <2>7, DrivingType
  <2>8. CASE DriveDenied \/ DriveSlice \/ TellDrive
    <3>1. w.run \in Message
      BY <2>8 DEF DriveDenied, DriveSlice, TellDrive, Worker
    <3> QED
      BY <2>8, <3>1, DrivingType, TellingType
  <2>9. CASE DriveEnds \/ Discard
    <3>1. w.run \in Message
      BY <2>9 DEF DriveEnds, Discard, Worker
    <3> QED
      BY <2>9, <3>1, DrivingType
  <2>10. CASE NothingToDrive
    BY <2>10, IdleType DEF NothingToDrive, TypeOK, ThreadType, RunsType, HistoryType, thread, runs,
                           history, WorkerType
  <2>11. CASE Withhold \/ Sent
    BY <2>11, PostingType
  <2>12. CASE \E a \in {"delivered", "failed", "unknown"} : Post(a)
    BY <2>12, PostingType
  <2> QED
    BY <1>5, <2>1, <2>2, <2>3, <2>4, <2>5, <2>6, <2>7, <2>8, <2>9, <2>10, <2>11, <2>12 DEF Work
<1>6. ASSUME NEW r \in Message, TellUpdate(r) PROVE TypeOK'
  BY <1>6, TellingType
<1>7. ASSUME NEW r \in Message, NEW k \in {"running", "unknown"}, Settle(r, k) PROVE TypeOK'
  BY <1>7, SettleType
<1>8. ASSUME Crash PROVE TypeOK'
  BY <1>8, CrashType
<1> QED
  BY <1>1, <1>2, <1>3, <1>4, <1>5, <1>6, <1>7, <1>8 DEF Next

-----------------------------------------------------------------------------
(* Steps that keep the rows, append one, change one. *)

LEMMA NoPlanSafe ==
    ASSUME NEW x \in RowType, x.plan = NoPlan PROVE PlanKnown(x)
BY NoPlanType DEF PlanKnown

LEMMA Quiet ==
    ASSUME IInv, TypeOK', rows' = rows, reviewed' = reviewed, posted' = posted, known' = known,
           \A m \in Message : source[m] # "none" => source'[m] # "none",
           \A g \in grants' : g \in grants \/ (g.what \in known[g.msg] /\ source[g.msg] # "none"),
           w' = w \/ (Worker' /\ w.pc \notin {"post", "sent"} /\ w'.pc \notin {"post", "sent"})
    PROVE  IInv'
<1>0. ASSUME NEW g \in grants' PROVE g.msg \in Message
  BY DEF TypeOK, HistoryType
<1>1. \A i \in DOMAIN rows : rows[i] \in RowType
  BY DEF IInv, TypeOK, ThreadType
<1>2. Outbox'
  BY DEF IInv, Outbox, RowSafe
<1>3. Worker'
  BY DEF IInv, Worker
<1>4. Shows'
  BY DEF IInv, Shows, Reached
<1>5. Consents'
  BY DEF IInv, Consents, AssentWasShown, PlanKnown
<1>6. Admissions'
  <2>1. \A i \in DOMAIN rows : rows[i].msg # NoMessage => rows[i].msg \in Message
    BY <1>1 DEF RowType
  <2>2. ASSUME NEW g \in grants' PROVE g.msg \in Message
    BY <1>0
  <2> QED
    BY <2>1, <2>2 DEF IInv, Admissions
<1> QED
  BY <1>2, <1>3, <1>4, <1>5, <1>6 DEF IInv

LEMMA Grow ==
    ASSUME IInv, TypeOK', NEW x \in RowType, rows' = Append(rows, x), RowSafe(x),
           x.note \in {"pending", "skipped"}, posted' = posted,
           w' = w \/ (w.pc = "tell" /\ w'.pc = "discard" /\ w'.run = w.run)
    PROVE  Outbox' /\ Worker' /\ Shows'
<1>1. /\ DOMAIN rows \subseteq DOMAIN rows'
      /\ \A k \in DOMAIN rows : rows'[k] = rows[k]
      /\ \A k \in DOMAIN rows' : k \in DOMAIN rows \/ rows'[k] = x
  BY Appended DEF IInv
<1>2. w.pc \in Holding => w.row \in DOMAIN rows
  BY DEF IInv, Worker
<1>3. Outbox'
  <2>1. \A k \in DOMAIN rows' : RowSafe(rows'[k])
    BY <1>1 DEF IInv, Outbox
  <2>2. \A k \in DOMAIN rows' : rows'[k].note = "sending" => w'.pc \in {"post", "sent"} /\ w'.row = k
    BY <1>1 DEF IInv, Outbox
  <2>3. w'.pc \in {"post", "sent"} => w' = w /\ rows'[w.row] = rows[w.row]
    BY <1>1, <1>2 DEF Holding
  <2> QED
    BY <2>1, <2>2, <2>3 DEF IInv, Outbox, RowSafe
<1>4. Worker'
  <2>1. CASE w' = w
    <3>1. w.pc \in Holding => w.row \in DOMAIN rows' /\ rows'[w.row] = rows[w.row]
      BY <1>1, <1>2
    <3> QED
      BY <2>1, <3>1 DEF IInv, Worker, Holding, Claiming
  <2>2. CASE w' # w
    BY <2>2 DEF IInv, Worker, Holding, Claiming
  <2> QED
    BY <2>1, <2>2
<1>5. Shows'
  <2>1. \A k \in DOMAIN rows' : rows'[k].note = "delivered" => k \in DOMAIN rows /\ rows'[k] = rows[k]
    BY <1>1
  <2>2. w'.pc = "sent" => w' = w /\ rows'[w.row] = rows[w.row]
    BY <1>1, <1>2 DEF Holding
  <2> QED
    BY <2>1, <2>2 DEF IInv, Shows, Reached
<1> QED
  BY <1>3, <1>4, <1>5

\* A notice brings no message and no plan.
LEMMA GrowNotice ==
    ASSUME IInv, TypeOK', NEW x \in RowType, rows' = Append(rows, x),
           x.msg = NoMessage, x.state = "done", x.plan = NoPlan, x.sends = 0,
           x.note \in {"skipped", "pending"},
           UNCHANGED <<source, reviewed, posted, known, grants>>,
           w' = w \/ (w.pc = "tell" /\ w'.pc = "discard" /\ w'.run = w.run)
    PROVE  IInv'
<1>1. RowSafe(x)
  BY NoPlanType DEF RowSafe
<1>2. Outbox' /\ Worker' /\ Shows'
  BY <1>1, Grow
<1>3. /\ \A k \in DOMAIN rows' : k \in DOMAIN rows \/ rows'[k] = x
      /\ \A k \in DOMAIN rows : rows'[k] = rows[k]
  BY Appended DEF IInv
<1>4. Consents'
  <2>1. \A k \in DOMAIN rows' : PlanKnown(rows'[k])
    BY <1>3, NoPlanSafe DEF IInv, Consents
  <2> QED
    BY <2>1 DEF IInv, Consents, AssentWasShown, PlanKnown
<1>5. Admissions'
  BY <1>3 DEF IInv, Admissions
<1> QED
  BY <1>2, <1>4, <1>5 DEF IInv

\* One row changes: what is left to show is what the worker says of its own row.
LEMMA Alter ==
    ASSUME IInv, TypeOK', NEW i \in DOMAIN rows, NEW x \in RowType, rows' = [rows EXCEPT ![i] = x],
           x.msg = rows[i].msg, RowSafe(x), PlanKnown(x),
           posted \subseteq posted', UNCHANGED <<source, reviewed, known, grants>>,
           x.note = "delivered" => Reached(posted', x),
           x.note = "sending" => w'.pc \in {"post", "sent"} /\ w'.row = i,
           w.pc \in {"post", "sent"} => w.row = i,
           w'.pc = "post" => w'.row = i /\ x.note = "sending" /\ x.sends = 0,
           w'.pc = "sent" => /\ w'.row = i /\ x.note = "sending"
                             /\ w'.reply.kind \in {"delivered", "failed", "unknown"}
                             /\ w'.reply.kind = "delivered" => Reached(posted', x),
           Worker'
    PROVE  IInv'
<1>1. /\ DOMAIN rows' = DOMAIN rows
      /\ \A k \in DOMAIN rows : rows'[k] = IF k = i THEN x ELSE rows[k]
  BY Changed DEF IInv
<1>2. Outbox'
  <2>1. \A k \in DOMAIN rows' : RowSafe(rows'[k])
    BY <1>1 DEF IInv, Outbox
  <2>2. \A k \in DOMAIN rows' : rows'[k].note = "sending" => w'.pc \in {"post", "sent"} /\ w'.row = k
    BY <1>1 DEF IInv, Outbox
  <2> QED
    BY <1>1, <2>1, <2>2 DEF Outbox, RowSafe
<1>3. Shows'
  <2>1. ASSUME NEW k \in DOMAIN rows', rows'[k].note = "delivered" PROVE Reached(posted', rows'[k])
    BY <1>1, <2>1 DEF IInv, Shows, Reached
  <2>2. w'.pc = "sent" /\ w'.reply.kind = "delivered" => Reached(posted', rows'[w'.row])
    BY <1>1 DEF Reached
  <2> QED
    BY <2>1, <2>2 DEF Shows, Reached
<1>4. Consents'
  <2>1. \A k \in DOMAIN rows' : PlanKnown(rows'[k])
    BY <1>1 DEF IInv, Consents
  <2> QED
    BY <2>1 DEF IInv, Consents, AssentWasShown, PlanKnown
<1>5. Admissions'
  BY <1>1 DEF IInv, Admissions
<1> QED
  BY <1>2, <1>3, <1>4, <1>5 DEF IInv

-----------------------------------------------------------------------------
(* The inductive invariant holds at the start, and every step keeps it. *)

LEMMA InitIInv == Init => IInv
<1> SUFFICES ASSUME Init PROVE IInv
  OBVIOUS
<1>1. Reply("none") \in Saying /\ Reply("none").kind = "none" /\ Idle \in WorkerType
  BY ReplyType, IdleType DEF Kinds, Modes
<1>2. MaxRev \in Nat /\ 0 \in 0..MaxRev
  BY DialogueAssumption
<1>3. ThreadType
  BY <1>1 DEF Init, ThreadType
<1>4. RunsType
  BY <1>2 DEF Init, RunsType, Modes
<1>5. TypeOK
  BY <1>1, <1>3, <1>4 DEF Init, TypeOK, HistoryType, WorkerType
<1>6. DOMAIN rows = {} /\ w.pc = "idle"
  BY IdleType DEF Init
<1>7. Outbox /\ Worker /\ Shows
  BY <1>6 DEF Outbox, Worker, Shows, Holding, Claiming
<1>8. Consents /\ Admissions
  BY <1>1, <1>6 DEF Init, Consents, Admissions, AssentWasShown
<1> QED
  BY <1>5, <1>7, <1>8 DEF IInv

LEMMA ReceivePreserves ==
    ASSUME IInv, TypeOK', NEW m \in Message, NEW says \in Texts[m], Receive(m, says) PROVE IInv'
<1> DEFINE x == NewRow(m, Reply("message"), Author[m], NoRun, "pending", Reply("none"), "pending")
<1>0. TypeOK /\ m # NoMessage
  BY DEF IInv, Message, NoMessage
<1>1. x \in RowType /\ x.msg = m /\ x.plan = NoPlan /\ x.note = "pending" /\ x.sends = 0
  <2>1. Author[m] \in User
    BY DialogueAssumption
  <2>2. Reply("message") \in Saying /\ Reply("none") \in Saying
    BY ReplyType DEF Kinds, Modes
  <2> QED
    BY <2>1, <2>2, NewRowType DEF Notes, NewRow
<1>2. rows' = Append(rows, x)
  BY DEF Receive
<1>3. RowSafe(x)
  BY <1>0, <1>1, NoPlanType DEF RowSafe
<1> HIDE DEF x
<1>4. Outbox' /\ Worker' /\ Shows'
  BY <1>1, <1>2, <1>3, Grow DEF Receive
<1>5. /\ \A k \in DOMAIN rows' : k \in DOMAIN rows \/ rows'[k] = x
      /\ \A k \in DOMAIN rows : rows'[k] = rows[k]
  BY <1>0, <1>1, <1>2, Appended
<1>6. \A k \in DOMAIN rows : rows[k] \in RowType /\ rows[k].msg # m
  BY <1>0 DEF IInv, Admissions, Receive, TypeOK, ThreadType
<1>7. ASSUME says = "assent", Reviewable(m, says).kind = "proposal"
      PROVE  Reviewable(m, says) \in known'[m]
  <2> DEFINE p == Proposal(conv.current)
  <2>1. Reply("none").kind # "proposal"
    BY ReplyType DEF Kinds, Modes
  <2>2. Reviewable(m, says) = p /\ Shown(m, conv.current) /\ p.kind = "proposal"
    BY <1>7, <2>1 DEF Reviewable
  <2>3. PICK i \in DOMAIN rows : rows[i].note = "delivered" /\ rows[i].user = Author[m]
                                 /\ rows[i].result = p
    BY <2>2 DEF Shown
  <2> HIDE DEF p
  <2>4. [user |-> Author[m], what |-> p] \in posted
    BY <2>2, <2>3 DEF IInv, Shows, Reached
  <2>5. p \in {q.what : q \in {q \in posted : q.user = Author[m]}}
    BY <2>4
  <2>6. known'[m] = {q.what : q \in {q \in posted : q.user = Author[m]}}
    BY <1>0, <1>7 DEF Receive, TypeOK, HistoryType
  <2> QED
    BY <2>2, <2>5, <2>6
<1>8. \A k \in Message : k # m => known'[k] = known[k] /\ reviewed'[k] = reviewed[k]
  BY <1>0 DEF Receive, TypeOK, ThreadType, HistoryType
<1>9. reviewed'[m] = Reviewable(m, says)
  BY <1>0 DEF Receive, TypeOK, ThreadType
<1>10. \A k \in Message : reviewed'[k].kind = "proposal" => reviewed'[k] \in known'[k]
  <2>1. says # "assent" => Reviewable(m, says).kind # "proposal"
    BY ReplyType DEF Reviewable, Kinds, Modes
  <2> QED
    BY <1>7, <1>8, <1>9, <2>1 DEF IInv, Consents
<1>11. Consents'
  <2>1. \A g \in grants : g.msg \in Message /\ g.msg # m
    BY <1>0 DEF IInv, Admissions, Receive, TypeOK, HistoryType
  <2>2. AssentWasShown'
    BY <1>8, <2>1 DEF IInv, Consents, AssentWasShown, Receive
  <2>3. ASSUME NEW k \in DOMAIN rows' PROVE PlanKnown(rows[k])'
    <3>1. CASE k \in DOMAIN rows
      <4>1. CASE rows[k].plan.act = "approve"
        <5>1. rows[k].msg \in Message
          <6>1. rows[k].plan \in PlanType /\ rows[k].msg \in Message \cup {NoMessage}
            BY <1>6, <3>1 DEF RowType
          <6>2. rows[k].msg # NoMessage
            BY <3>1, <4>1 DEF IInv, Consents, PlanKnown
          <6> QED
            BY <6>1, <6>2
        <5> QED
          BY <1>5, <1>6, <1>8, <3>1, <5>1 DEF IInv, Consents, PlanKnown
      <4>2. CASE rows[k].plan.act # "approve"
        BY <1>5, <3>1, <4>2 DEF PlanKnown
      <4> QED
        BY <4>1, <4>2
    <3>2. CASE k \notin DOMAIN rows
      BY <1>1, <1>5, <3>2, NoPlanType DEF PlanKnown
    <3> QED
      BY <3>1, <3>2
  <2> QED
    BY <1>10, <2>2, <2>3 DEF Consents, PlanKnown
<1>12. Admissions'
  <2>1. source' = [source EXCEPT ![m] = "final"] /\ grants' = grants
        /\ source \in [Message -> {"none", "final", "edited"}]
    BY <1>0 DEF Receive, TypeOK, ThreadType
  <2>2. \A g \in grants : g.msg \in Message /\ g.msg # m
    BY <1>0 DEF IInv, Admissions, Receive, TypeOK, HistoryType
  <2>3. \A k \in DOMAIN rows' : rows'[k].msg = m
                               \/ (k \in DOMAIN rows /\ rows'[k].msg = rows[k].msg
                                   /\ (rows[k].msg \in Message \cup {NoMessage}))
    BY <1>1, <1>5, <1>6 DEF RowType
  <2> QED
    BY <1>0, <2>1, <2>2, <2>3 DEF IInv, Admissions
<1> QED
  BY <1>4, <1>11, <1>12 DEF IInv

\* Steps that touch no row: the webhook's, the Run's, and the worker's moves.
LEMMA OutsidePreserves ==
    ASSUME IInv, TypeOK', NEW m \in Message, NEW u \in User, NEW k \in {"running", "unknown"},
           Edit(m) \/ Leave(u) \/ Cancel(m) \/ Acknowledge(m) \/ Settle(m, k)
    PROVE  IInv'
<1>1. CASE Edit(m)
  <2>1. source' = [source EXCEPT ![m] = "edited"] /\ source \in [Message -> {"none", "final", "edited"}]
    BY <1>1 DEF Edit, IInv, TypeOK, ThreadType
  <2>2. \A n \in Message : source[n] # "none" => source'[n] # "none"
    BY <2>1
  <2> QED
    BY <1>1, <2>2, Quiet DEF Edit, history
<1>2. CASE Leave(u) \/ Cancel(m) \/ Acknowledge(m) \/ Settle(m, k)
  <2>1. UNCHANGED <<rows, source, reviewed, posted, known, grants, w>>
    BY <1>2 DEF Leave, Cancel, Acknowledge, Settle, thread, history
  <2> QED
    BY <2>1, Quiet
<1> QED
  BY <1>1, <1>2

LEMMA MovesPreserve ==
    ASSUME IInv, TypeOK',
           \/ NothingToPost \/ (\E q \in Message : ClaimDrive(q)) \/ NothingToDrive \/ DriveDenied \/ DriveSlice
           \/ DriveEnds \/ Discard \/ ExecuteRequested \/ Execute
    PROVE  IInv'
<1>0. w \in WorkerType /\ Idle.pc = "idle" /\ Worker
  BY IdleType DEF IInv, TypeOK, WorkerType
<1>1. UNCHANGED <<rows, source, reviewed, posted, known, grants>>
  BY DEF NothingToPost, ClaimDrive, NothingToDrive, DriveDenied, DriveSlice, DriveEnds, Discard,
         ExecuteRequested, Execute, thread, history
<1>2. w.pc \notin {"post", "sent"}
  BY DEF NothingToPost, ClaimDrive, NothingToDrive, DriveDenied, DriveSlice, DriveEnds, Discard,
         ExecuteRequested, Execute
<1>3. w' = w \/ (Worker' /\ w'.pc \notin {"post", "sent"})
  <2>1. CASE NothingToPost
    <3>1. w'.pc = "take"
      BY <1>0, <2>1 DEF NothingToPost, Goto, WorkerType
    <3> QED
      BY <3>1 DEF Worker, Holding, Claiming
  <2>2. CASE \E q \in Message : ClaimDrive(q)
    <3>1. w'.pc \in {"drive", "tell"} /\ w'.run \in Message
      BY <2>2 DEF ClaimDrive, Idle
    <3> QED
      BY <3>1 DEF Worker, Holding, Claiming
  <2>3. CASE NothingToDrive \/ DriveDenied \/ DriveEnds \/ Discard
    <3>1. w'.pc = "idle"
      BY <1>0, <2>3 DEF NothingToDrive, DriveDenied, DriveEnds, Discard
    <3> QED
      BY <3>1 DEF Worker, Holding, Claiming
  <2>4. CASE DriveSlice
    <3>1. w.run \in Message
      BY <1>0, <2>4 DEF DriveSlice, Worker
    <3>2. w'.pc = "idle" \/ (w'.pc = "driven" /\ w'.run = w.run)
      BY <1>0, <2>4 DEF DriveSlice, WorkerType
    <3> QED
      BY <3>1, <3>2 DEF Worker, Holding, Claiming
  <2>5. CASE ExecuteRequested
    <3>1. w' = w \/ (w.pc = "finish" /\ w'.pc = "finish" /\ w'.row = w.row)
      BY <1>0, <2>5 DEF ExecuteRequested, WorkerType
    <3> QED
      BY <1>0, <1>1, <3>1 DEF Worker, Holding, Claiming
  <2>6. CASE Execute
    <3>1. w.pc = "exec" /\ w'.row = w.row
      BY <1>0, <2>6 DEF Execute, WorkerType
    <3>2. \/ w'.pc = "finish"
          \/ w'.pc = "act" /\ Plan.act \notin {"reply", "dialogue", "close"}
      BY <1>0, <2>6 DEF Execute, WorkerType
    <3> QED
      BY <1>0, <1>1, <3>1, <3>2 DEF Worker, Holding, Claiming, Plan
  <2> QED
    BY <2>1, <2>2, <2>3, <2>4, <2>5, <2>6
<1> QED
  BY <1>1, <1>2, <1>3, Quiet

\* The approval an assent grants is of the proposal its plan names.
LEMMA ActPreserves == ASSUME IInv, TypeOK', Act PROVE IInv'
<1>1. w.pc = "act" /\ w.pc \in Claiming /\ w.pc \in Holding
  BY DEF Act, Claiming, Holding
<1>2. Msg \in Message /\ w.row \in DOMAIN rows
  BY <1>1, Held DEF IInv
<1>3. UNCHANGED <<rows, source, reviewed, posted, known>>
  BY DEF Act, thread
<1>4. w'.pc = "finish" /\ w'.row = w.row
  BY DEF Act, IInv, TypeOK
<1>5. Worker'
  BY <1>1, <1>3, <1>4 DEF IInv, Worker, Holding, Claiming
<1>6. ASSUME NEW g \in grants', g \notin grants
      PROVE  g.what \in known[g.msg] /\ source[g.msg] # "none"
  <2>1. Plan.act = "approve" /\ g = [msg |-> Msg, what |-> Proposal(Plan.run)]
    BY <1>6 DEF Act
  <2>2. Outcomes(Msg, Plan) # {}
    BY DEF Act
  <2>3. Proposal(Plan.run) = Says("proposal", Plan.run, Plan.rev)
    BY <2>1, <2>2, ApprovedProposal
  <2>4. Says("proposal", Plan.run, Plan.rev) \in known[Msg]
    BY <1>2, <2>1 DEF IInv, Consents, PlanKnown, Plan, Msg
  <2>5. source[Msg] # "none"
    BY <1>2, <2>1 DEF IInv, Admissions, Msg, NoMessage, Message
  <2> QED
    BY <2>1, <2>3, <2>4, <2>5
<1> QED
  BY <1>1, <1>3, <1>4, <1>5, <1>6, Quiet

LEMMA ClaimPreserves ==
    ASSUME IInv, TypeOK', ClaimNotification \/ ClaimMessage PROVE IInv'
<1>0. TypeOK /\ Worker /\ Outbox /\ \A k \in DOMAIN rows : rows[k] \in RowType
  BY DEF IInv, TypeOK, ThreadType
<1>1. CASE ClaimNotification
  <2> DEFINE i == FirstRow(Due)
             x == [rows[i] EXCEPT !.note = "sending"]
  <2>1. i \in Due /\ i \in DOMAIN rows
    <3>1. Due # {} /\ Due \subseteq DOMAIN rows
      BY <1>1 DEF ClaimNotification, Due
    <3> QED
      BY <1>0, <3>1, FirstRowIn
  <2>2. rows[i].note = "pending" /\ rows[i].state \in {"done", "blocked"}
    BY <2>1 DEF Due
  <2>3. w.pc = "idle" /\ w' = [Idle EXCEPT !.pc = "post", !.row = i] /\ rows' = [rows EXCEPT ![i] = x]
        /\ UNCHANGED <<source, reviewed, posted, known, grants>>
    BY <1>1 DEF ClaimNotification, history
  <2> HIDE DEF i
  <2>4. w'.pc = "post" /\ w'.row = i
    BY <2>3 DEF Idle
  <2>5. /\ x \in RowType /\ x.msg = rows[i].msg /\ x.note = "sending" /\ x.sends = rows[i].sends
        /\ x.plan = rows[i].plan /\ x.state = rows[i].state
    <3>1. rows[i] \in RowType /\ "sending" \in Notes
      BY <1>0, <2>1 DEF Notes
    <3>2. x \in RowType
      BY <3>1, RowFields
    <3>3. x.msg = rows[i].msg /\ x.note = "sending" /\ x.sends = rows[i].sends
          /\ x.plan = rows[i].plan /\ x.state = rows[i].state
      BY <3>1 DEF RowType
    <3> QED
      BY <3>2, <3>3
  <2>6. RowSafe(rows[i]) /\ PlanKnown(rows[i])
    BY <2>1 DEF IInv, Outbox, Consents
  <2>7. RowSafe(x) /\ x.sends = 0
    BY <2>2, <2>5, <2>6 DEF RowSafe
  <2>8. PlanKnown(x)
    BY <2>5, <2>6 DEF PlanKnown
  <2>9. DOMAIN rows' = DOMAIN rows
    BY <2>3
  <2>10. Worker'
    BY <2>1, <2>4, <2>9 DEF Worker, Holding, Claiming
  <2> HIDE DEF x
  <2> QED
    BY <2>1, <2>3, <2>4, <2>5, <2>7, <2>8, <2>10, Alter
<1>2. CASE ClaimMessage
  <2> DEFINE i == FirstRow(Claimable)
             x == [rows[i] EXCEPT !.state = "running"]
             pc == IF rows[i].plan = NoPlan THEN "plan" ELSE "exec"
  <2>1. i \in Claimable /\ i \in DOMAIN rows
    <3>1. Claimable # {} /\ Claimable \subseteq DOMAIN rows
      BY <1>2 DEF ClaimMessage, Claimable, Inbox
    <3> QED
      BY <1>0, <3>1, FirstRowIn
  <2>2. rows[i].state = "pending" /\ rows[i].msg # NoMessage
    BY <2>1 DEF Claimable, Inbox
  <2>3. w.pc = "take" /\ w' = [Idle EXCEPT !.pc = pc, !.row = i, !.run = conv.current]
        /\ rows' = [rows EXCEPT ![i] = x]
        /\ UNCHANGED <<source, reviewed, posted, known, grants>>
    BY <1>2 DEF ClaimMessage, history
  <2> HIDE DEF i
  <2>4. w'.pc = pc /\ w'.row = i
    BY <2>3 DEF Idle
  <2>5. /\ x \in RowType /\ x.msg = rows[i].msg /\ x.note = rows[i].note /\ x.sends = rows[i].sends
        /\ x.plan = rows[i].plan /\ x.state = "running"
    <3>1. rows[i] \in RowType
      BY <1>0, <2>1
    <3>2. x \in RowType
      BY <3>1, RowFields
    <3>3. x.msg = rows[i].msg /\ x.note = rows[i].note /\ x.sends = rows[i].sends
          /\ x.plan = rows[i].plan /\ x.state = "running"
      BY <3>1 DEF RowType
    <3> QED
      BY <3>2, <3>3
  <2>6. RowSafe(rows[i]) /\ PlanKnown(rows[i])
    BY <2>1 DEF IInv, Outbox, Consents
  <2>7. RowSafe(x) /\ x.note = "pending"
    BY <2>2, <2>5, <2>6 DEF RowSafe
  <2>8. PlanKnown(x)
    BY <2>5, <2>6 DEF PlanKnown
  <2>9. DOMAIN rows' = DOMAIN rows /\ rows'[i] = x
    BY <2>1, <2>3
  <2>10. pc \in {"plan", "exec"} /\ (pc = "exec" => x.plan.act # "none")
    BY <2>5, <2>6 DEF RowSafe
  <2> HIDE DEF x, pc
  <2>11. Worker'
    BY <2>1, <2>4, <2>5, <2>9, <2>10 DEF Worker, Holding, Claiming
  <2> QED
    BY <2>1, <2>3, <2>4, <2>5, <2>7, <2>8, <2>10, <2>11, Alter
<1> QED
  BY <1>1, <1>2

\* What the worker writes into the message it claimed.
LEMMA OwnRow ==
    ASSUME IInv, TypeOK', w.pc \in Claiming \cup {"defer"}, NEW x \in RowType,
           rows' = [rows EXCEPT ![w.row] = x],
           x.msg = rows[w.row].msg, RowSafe(x), PlanKnown(x),
           x.note \notin {"sending", "delivered"},
           UNCHANGED <<source, reviewed, posted, known, grants>>,
           w'.pc \notin {"post", "sent"}, Worker'
    PROVE  IInv'
<1>1. w.row \in DOMAIN rows /\ w.pc \notin {"post", "sent"}
  BY DEF IInv, Worker, Holding, Claiming
<1> QED
  BY <1>1, Alter

LEMMA PlanningPreserves ==
    ASSUME IInv, TypeOK', MakePlan \/ Requeue \/ Fail \/ Finish \/ Defer PROVE IInv'
<1> DEFINE i == w.row
           y == rows[i]
<1>0. /\ TypeOK /\ Worker /\ w \in WorkerType /\ Idle.pc = "idle"
      /\ Reply("none") \in Saying /\ Reply("failed") \in Saying
  BY IdleType, ReplyType DEF IInv, TypeOK, WorkerType, Kinds, Modes
<1>1. w.pc \in Claiming \cup {"defer"} /\ w.pc \in Holding
  BY DEF MakePlan, Requeue, Fail, Finish, Defer, Claiming, Holding
<1>2. i \in DOMAIN rows /\ y \in RowType /\ RowSafe(y) /\ PlanKnown(y)
  <2>1. i \in DOMAIN rows /\ y \in RowType /\ RowSafe(y)
    BY <1>1, Held DEF IInv
  <2> QED
    BY <2>1 DEF IInv, Consents
<1>3. w.pc \in Claiming => y.state = "running" /\ y.note = "pending" /\ y.sends = 0
                           /\ y.msg \in Message /\ Msg = y.msg
  BY <1>2 DEF IInv, Worker, RowSafe, RowType, Msg
<1>4. DOMAIN rows' = DOMAIN rows
  <2>1. rows \in Seq(RowType)
    BY DEF IInv, TypeOK, ThreadType
  <2> QED
    BY <2>1 DEF MakePlan, Requeue, Fail, Finish, Defer
<1>5. CASE MakePlan
  <2> DEFINE p == PlanOf(Msg)
             x == [y EXCEPT !.plan = p]
  <2>1. w.pc = "plan" /\ w.pc \in Claiming
    BY <1>5 DEF MakePlan, Claiming
  <2>2. Proper(Msg, p)
    BY <1>0, <1>3, <2>1, PlanProper
  <2>3. rows' = [rows EXCEPT ![i] = x] /\ UNCHANGED <<source, reviewed, posted, known, grants>>
        /\ w'.pc = "exec" /\ w'.row = i
    BY <1>0, <1>5 DEF MakePlan, Goto, history, WorkerType
  <2> HIDE DEF p
  <2>4. x \in RowType
    <3> HIDE DEF y
    <3> QED
      BY <1>2, <2>2, RowFields DEF Proper
  <2>5. x.msg = y.msg /\ x.state = "running" /\ x.note = "pending" /\ x.sends = 0 /\ x.plan = p
    <3> HIDE DEF y
    <3> QED
      BY <1>2, <1>3, <2>1 DEF RowType
  <2>6. RowSafe(x)
    BY <1>3, <2>1, <2>2, <2>5 DEF RowSafe, Proper, Message, NoMessage
  <2>7. PlanKnown(x)
    <3>1. CASE p.act = "approve"
      <4>1. reviewed[Msg] = Says("proposal", p.run, p.rev) /\ reviewed[Msg].kind = "proposal"
        BY <2>2, <3>1 DEF Proper, Says
      <4>2. Msg \in Message /\ Msg # NoMessage
        BY <1>3, <2>1 DEF Message, NoMessage
      <4>3. Says("proposal", p.run, p.rev) \in known[Msg]
        BY <4>1, <4>2 DEF IInv, Consents
      <4> QED
        BY <1>3, <2>1, <2>5, <4>2, <4>3 DEF PlanKnown
    <3>2. CASE p.act # "approve"
      BY <2>5, <3>2 DEF PlanKnown
    <3> QED
      BY <3>1, <3>2
  <2>8. rows'[i] = x
    BY <1>2, <2>3
  <2>9. Worker'
    BY <1>2, <1>4, <2>2, <2>3, <2>5, <2>8 DEF Worker, Holding, Claiming, Proper
  <2> HIDE DEF x
  <2> QED
    BY <1>1, <2>3, <2>4, <2>5, <2>6, <2>7, <2>9, OwnRow
<1>6. CASE Requeue \/ Fail
  <2>1. w.pc \in Claiming
    BY <1>6 DEF Requeue, Fail, Claiming
  <2>2. \/ rows' = [rows EXCEPT ![i] = [y EXCEPT !.state = "pending", !.result = Reply("none")]]
        \/ rows' = [rows EXCEPT ![i] = [y EXCEPT !.state = "blocked", !.result = Reply("failed")]]
    BY <1>6 DEF Requeue, Fail
  <2>3. UNCHANGED <<source, reviewed, posted, known, grants>> /\ w'.pc = "idle"
    BY <1>0, <1>6 DEF Requeue, Fail, history
  <2>4. PICK s \in {"pending", "blocked"}, t \in Saying :
            rows' = [rows EXCEPT ![i] = [y EXCEPT !.state = s, !.result = t]]
    BY <1>0, <2>2
  <2> DEFINE z == [y EXCEPT !.state = s, !.result = t]
  <2>5. z \in RowType
    <3> HIDE DEF y
    <3> QED
      BY <1>2, RowFields
  <2>6. z.msg = y.msg /\ z.state = s /\ z.note = y.note /\ z.sends = y.sends /\ z.plan = y.plan
    <3> HIDE DEF y
    <3> QED
      BY <1>2 DEF RowType
  <2>7. RowSafe(z) /\ PlanKnown(z) /\ z.note = "pending"
    BY <1>2, <1>3, <2>1, <2>6 DEF RowSafe, PlanKnown
  <2>8. Worker'
    BY <2>3 DEF Worker, Holding, Claiming
  <2>9. rows' = [rows EXCEPT ![i] = z]
    BY <2>4
  <2> HIDE DEF z
  <2> QED
    BY <1>1, <2>3, <2>5, <2>6, <2>7, <2>8, <2>9, OwnRow
<1>7. CASE Finish
  <2>1. w.pc = "finish" /\ w.pc \in Claiming
    BY <1>7 DEF Finish, Claiming
  <2>2. PICK b \in Saying :
            rows' = [rows EXCEPT ![i] = [y EXCEPT !.state = "done", !.result = w.reply, !.bound = b]]
    BY <1>0, <1>2, <1>7 DEF Finish, WorkerType, RowType
  <2> DEFINE x == [y EXCEPT !.state = "done", !.result = w.reply, !.bound = b]
  <2>3. UNCHANGED <<source, reviewed, posted, known, grants>> /\ w'.pc = "defer" /\ w'.row = i
    BY <1>0, <1>7 DEF Finish, Goto, history, WorkerType
  <2>4. x \in RowType
    <3>1. w.reply \in Saying
      BY <1>0 DEF WorkerType
    <3> HIDE DEF y
    <3> QED
      BY <1>2, <3>1, RowFields
  <2>5. x.msg = y.msg /\ x.state = "done" /\ x.note = y.note /\ x.sends = y.sends /\ x.plan = y.plan
    <3> HIDE DEF y
    <3> QED
      BY <1>2 DEF RowType
  <2>6. RowSafe(x) /\ PlanKnown(x) /\ x.note = "pending"
    BY <1>2, <1>3, <2>1, <2>5 DEF RowSafe, PlanKnown
  <2>7. rows' = [rows EXCEPT ![i] = x] /\ rows'[i] = x
    BY <1>2, <2>2
  <2> HIDE DEF x
  <2>8. Worker'
    BY <1>0, <1>2, <1>4, <2>1, <2>3, <2>5, <2>7 DEF Worker, Holding, Claiming
  <2> QED
    BY <1>1, <2>3, <2>4, <2>5, <2>6, <2>7, <2>8, OwnRow
<1>8. CASE Defer
  <2>1. w.pc = "defer" /\ y.state = "done"
    BY <1>0, <1>8 DEF Defer, Worker
  <2>2. UNCHANGED <<source, reviewed, posted, known, grants>> /\ w'.pc = "idle"
    BY <1>0, <1>8 DEF Defer, history
  <2>3. Worker'
    BY <2>2 DEF Worker, Holding, Claiming
  <2>4. CASE rows' = rows
    BY <2>1, <2>2, <2>3, <2>4, Quiet
  <2>5. CASE rows' # rows
    <3> DEFINE x == [y EXCEPT !.note = "deferred"]
    <3>0. rows' = [rows EXCEPT ![i] = [y EXCEPT !.note = IF y.note = "pending" THEN "deferred"
                                                         ELSE y.note]]
      BY <1>8, <2>5 DEF Defer
    <3>1. y.note = "pending"
      <4>1. CASE y.note # "pending"
        <5>1. [y EXCEPT !.note = y.note] = y
          <6> HIDE DEF y
          <6> QED
            BY <1>2 DEF RowType
        <5>2. rows' = [rows EXCEPT ![i] = y]
          <6> HIDE DEF y
          <6> QED
            BY <3>0, <4>1, <5>1
        <5>3. rows \in Seq(RowType)
          BY DEF IInv, TypeOK, ThreadType
        <5> QED
          BY <1>2, <2>5, <5>2, <5>3
      <4> QED
        BY <4>1
    <3>2. rows' = [rows EXCEPT ![i] = x]
      BY <3>0, <3>1
    <3>3. x \in RowType
      <4>1. "deferred" \in Notes
        BY DEF Notes
      <4> HIDE DEF y
      <4> QED
        BY <1>2, <4>1, RowFields
    <3>4. x.msg = y.msg /\ x.state = y.state /\ x.note = "deferred" /\ x.sends = y.sends /\ x.plan = y.plan
      <4> HIDE DEF y
      <4> QED
        BY <1>2 DEF RowType
    <3>5. RowSafe(x) /\ PlanKnown(x)
      BY <1>2, <2>1, <3>1, <3>4 DEF RowSafe, PlanKnown
    <3> HIDE DEF x
    <3> QED
      BY <1>1, <2>2, <2>3, <3>2, <3>3, <3>4, <3>5, OwnRow
  <2> QED
    BY <2>4, <2>5
<1> QED
  BY <1>5, <1>6, <1>7, <1>8

LEMMA TellingPreserves ==
    ASSUME IInv, TypeOK', NEW r \in Message, TellDrive \/ TellUpdate(r) PROVE IInv'
<1>0. TypeOK /\ Outbox /\ Worker
  BY DEF IInv
<1>1. CASE TellDrive
  <2>1. w.pc = "tell" /\ w'.pc = "discard" /\ w'.run = w.run /\ w.run \in Message
        /\ UNCHANGED <<source, reviewed, posted, known, grants>>
    BY <1>0, <1>1 DEF TellDrive, Goto, history, Worker, TypeOK
  <2>2. Worker'
    BY <2>1 DEF Worker, Holding, Claiming
  <2>3. CASE rows' = rows
    BY <2>1, <2>2, <2>3, Quiet
  <2>4. ASSUME NEW i \in DOMAIN rows, NEW x \in RowType,
               rows' = [rows EXCEPT ![i] = x],
               x.msg = rows[i].msg /\ x.user = rows[i].user /\ x.plan = rows[i].plan,
               x.state = "done" /\ x.note = "pending" /\ x.sends = rows[i].sends,
               rows[i].note \in {"pending", "deferred"}
        PROVE  IInv'
    <3>1. RowSafe(rows[i]) /\ PlanKnown(rows[i])
      BY DEF IInv, Outbox, Consents
    <3>2. RowSafe(x) /\ PlanKnown(x)
      BY <2>4, <3>1 DEF RowSafe, PlanKnown
    <3> QED
      BY <2>1, <2>2, <2>4, <3>2, Alter
  <2>5. ASSUME NEW x \in RowType, rows' = Append(rows, x),
               x.msg = NoMessage /\ x.state = "done" /\ x.plan = NoPlan /\ x.sends = 0,
               x.note \in {"skipped", "pending"}
        PROVE  IInv'
    BY <2>1, <2>5, GrowNotice
  <2> QED
    BY <1>0, <1>1, <2>3, <2>4, <2>5, TellDriveRows
<1>2. CASE TellUpdate(r)
  <2>1. UNCHANGED <<source, reviewed, posted, known, grants, w>>
    BY <1>2 DEF TellUpdate, history
  <2>2. CASE rows' = rows
    BY <2>1, <2>2, Quiet
  <2>3. ASSUME NEW x \in RowType, rows' = Append(rows, x),
               x.msg = NoMessage /\ x.state = "done" /\ x.plan = NoPlan /\ x.sends = 0,
               x.note \in {"skipped", "pending"}
        PROVE  IInv'
    BY <2>1, <2>3, GrowNotice
  <2> QED
    BY <1>0, <1>2, <2>2, <2>3, TellUpdateRows
<1> QED
  BY <1>1, <1>2

LEMMA PostingPreserves ==
    ASSUME IInv, TypeOK', NEW answer \in {"delivered", "failed", "unknown"},
           Withhold \/ Post(answer) \/ Sent
    PROVE  IInv'
<1> DEFINE i == w.row
           y == rows[i]
<1>0. /\ TypeOK /\ Worker /\ w \in WorkerType /\ Idle.pc = "idle"
  BY IdleType DEF IInv, TypeOK, WorkerType
<1>1. w.pc \in {"post", "sent"} /\ w.pc \in Holding
  BY DEF Withhold, Post, Sent, Holding
<1>2. i \in DOMAIN rows /\ y \in RowType /\ RowSafe(y) /\ PlanKnown(y)
  <2>1. i \in DOMAIN rows /\ y \in RowType /\ RowSafe(y)
    BY <1>1, Held DEF IInv
  <2> QED
    BY <2>1 DEF IInv, Consents
<1>3. y.note = "sending" /\ y.state \notin {"pending", "running"}
  BY <1>1, <1>2 DEF IInv, Outbox, RowSafe
<1>4. CASE Withhold
  <2>1. PICK n \in {"denied", "superseded", "skipped"} :
            rows' = [rows EXCEPT ![i] = [y EXCEPT !.note = n]]
    <3> DEFINE note == CASE y.user \notin members -> "denied"
                         [] Mode(Target(y)) # "none" /\ ~Matches(y, Target(y)) -> "superseded"
                         [] OTHER -> "skipped"
    <3>1. note \in {"denied", "superseded", "skipped"}
      OBVIOUS
    <3>2. rows' = [rows EXCEPT ![i] = [y EXCEPT !.note = note]]
      BY <1>4 DEF Withhold
    <3> HIDE DEF note
    <3> QED
      BY <3>1, <3>2
  <2> DEFINE x == [y EXCEPT !.note = n]
  <2>2. UNCHANGED <<source, reviewed, posted, known, grants>> /\ w'.pc = "idle"
    BY <1>0, <1>4 DEF Withhold, history
  <2>3. x \in RowType
    <3>1. n \in Notes
      BY DEF Notes
    <3> HIDE DEF y
    <3> QED
      BY <1>2, <3>1, RowFields
  <2>4. x.msg = y.msg /\ x.state = y.state /\ x.note = n /\ x.sends = y.sends /\ x.plan = y.plan
    <3> HIDE DEF y
    <3> QED
      BY <1>2 DEF RowType
  <2>5. RowSafe(x) /\ PlanKnown(x)
    BY <1>2, <1>3, <2>4 DEF RowSafe, PlanKnown
  <2>6. Worker'
    BY <2>2 DEF Worker, Holding, Claiming
  <2>7. rows' = [rows EXCEPT ![i] = x]
    BY <2>1
  <2> HIDE DEF x
  <2> QED
    BY <1>2, <2>2, <2>3, <2>4, <2>5, <2>6, <2>7, Alter
<1>5. CASE Post(answer)
  <2> DEFINE x == [y EXCEPT !.sends = y.sends + 1]
  <2>1. w.pc = "post" /\ y.sends = 0
    BY <1>5 DEF Post, IInv, Outbox
  <2>2. w'.pc = "sent" /\ w'.row = i /\ w'.reply.kind = answer
    BY <1>0, <1>5, ReplyType DEF Post, WorkerType, Reply, Says
  <2>3. UNCHANGED <<source, reviewed, known, grants>>
    BY <1>5 DEF Post
  <2>4. x \in RowType
    <3>1. y.sends + 1 \in Nat
      BY <2>1
    <3> HIDE DEF y
    <3> QED
      BY <1>2, <3>1, RowFields
  <2>5. x.msg = y.msg /\ x.state = y.state /\ x.note = "sending" /\ x.plan = y.plan
        /\ x.user = y.user /\ x.result = y.result
    <3> HIDE DEF y
    <3> QED
      BY <1>2, <1>3 DEF RowType, y
  <2>6. x.sends = 1
    <3>1. x.sends = y.sends + 1
      <4> HIDE DEF y
      <4> QED
        BY <1>2 DEF RowType
    <3> QED
      BY <2>1, <3>1
  <2>7. RowSafe(x) /\ PlanKnown(x)
    BY <1>2, <1>3, <2>5, <2>6 DEF RowSafe, PlanKnown
  <2>8. rows' = [rows EXCEPT ![i] = x]
    BY <1>5 DEF Post
  <2>9. DOMAIN rows' = DOMAIN rows
    BY <1>5 DEF Post
  <2>10. Worker'
    BY <1>2, <2>2, <2>9 DEF Worker, Holding, Claiming
  <2>11. posted \subseteq posted'
    BY <1>5 DEF Post
  <2>12. answer = "delivered" =>
            (y.result.kind = "proposal" => [user |-> y.user, what |-> y.result] \in posted')
    BY <1>5 DEF Post
  <2> HIDE DEF x, y
  <2>13. answer = "delivered" => Reached(posted', x)
    BY <2>5, <2>12 DEF Reached
  <2> QED
    BY <1>1, <1>2, <2>2, <2>3, <2>4, <2>5, <2>7, <2>8, <2>10, <2>11, <2>13, Alter DEF y
<1>6. CASE Sent
  <2> DEFINE n == w.reply.kind
             x == [y EXCEPT !.note = n]
  <2>1. n \in {"delivered", "failed", "unknown"}
    BY <1>6 DEF Sent, IInv, Outbox
  <2>2. UNCHANGED <<source, reviewed, posted, known, grants>> /\ w'.pc = "idle"
    BY <1>0, <1>6 DEF Sent, history
  <2>3. rows' = [rows EXCEPT ![i] = x]
    BY <1>6 DEF Sent
  <2>4. n = "delivered" => Reached(posted, y)
    BY <1>6 DEF Sent, IInv, Shows
  <2> HIDE DEF n
  <2>5. x \in RowType
    <3>1. n \in Notes
      BY <2>1 DEF Notes
    <3> HIDE DEF y
    <3> QED
      BY <1>2, <3>1, RowFields
  <2>6. x.msg = y.msg /\ x.state = y.state /\ x.note = n /\ x.sends = y.sends /\ x.plan = y.plan
        /\ x.user = y.user /\ x.result = y.result
    <3> HIDE DEF y
    <3> QED
      BY <1>2 DEF RowType
  <2>7. RowSafe(x) /\ PlanKnown(x)
    BY <1>2, <1>3, <2>1, <2>6 DEF RowSafe, PlanKnown
  <2>8. Worker'
    BY <2>2 DEF Worker, Holding, Claiming
  <2> HIDE DEF x, y
  <2>9. x.note = "delivered" => Reached(posted', x)
    BY <2>2, <2>4, <2>6 DEF Reached
  <2> QED
    BY <1>2, <2>1, <2>2, <2>3, <2>5, <2>6, <2>7, <2>8, <2>9, Alter DEF y
<1> QED
  BY <1>4, <1>5, <1>6

LEMMA CrashPreserves == ASSUME IInv, TypeOK', Crash PROVE IInv'
<1>1. \A i \in DOMAIN rows : rows[i] \in RowType /\ RowSafe(rows[i]) /\ PlanKnown(rows[i])
  BY DEF IInv, TypeOK, ThreadType, Outbox, Consents
<1>2. DOMAIN rows' = DOMAIN rows /\ \A i \in DOMAIN rows : rows'[i] = Recovered(rows[i])
  BY DEF Crash
<1>3. w'.pc = "idle" /\ UNCHANGED <<source, reviewed, posted, known, grants>>
  BY IdleType DEF Crash, history
<1>4. ASSUME NEW i \in DOMAIN rows
      PROVE  /\ RowSafe(Recovered(rows[i])) /\ Recovered(rows[i]).note # "sending"
             /\ PlanKnown(Recovered(rows[i])) /\ Recovered(rows[i]).msg = rows[i].msg
             /\ Recovered(rows[i]).note = "delivered" => Reached(posted, Recovered(rows[i]))
  <2> DEFINE y == rows[i]
             x == Recovered(y)
  <2>1. y \in RowType /\ RowSafe(y) /\ PlanKnown(y) /\ (y.note = "delivered" => Reached(posted, y))
    BY <1>1 DEF IInv, Shows
  <2>2. /\ x.msg = y.msg /\ x.user = y.user /\ x.plan = y.plan /\ x.sends = y.sends
        /\ x.note = IF y.note = "sending" THEN "unknown" ELSE y.note
        /\ y.state # "running" => x.state = y.state /\ x.result = y.result
        /\ x.state \in {"pending", "blocked", y.state} /\ x.state # "running"
    <3> HIDE DEF y
    <3> QED
      BY <2>1, RecoveredRow
  <2>3. y.state = "running" => y.note = "pending" /\ y.msg # NoMessage
    BY <2>1 DEF RowSafe
  <2>4. x.state = "pending" => y.state \in {"pending", "running"}
    <3>1. y.state # "running" => x.state = y.state
      BY <2>2
    <3> QED
      BY <3>1
  <2> HIDE DEF x, y
  <2>5. RowSafe(x) /\ x.note # "sending"
    BY <2>1, <2>2, <2>3, <2>4 DEF RowSafe
  <2>6. PlanKnown(x)
    BY <2>1, <2>2 DEF PlanKnown
  <2>7. x.note = "delivered" => Reached(posted, x)
    BY <2>1, <2>2, <2>3 DEF Reached
  <2> QED
    BY <2>2, <2>5, <2>6, <2>7 DEF x, y
<1>5. Outbox' /\ Worker'
  BY <1>2, <1>3, <1>4 DEF Outbox, Worker, Holding, Claiming, RowSafe
<1>6. Shows'
  BY <1>2, <1>3, <1>4 DEF Shows, Reached
<1>7. Consents'
  <2>1. \A i \in DOMAIN rows' : PlanKnown(rows'[i])
    BY <1>2, <1>4
  <2> QED
    BY <1>3, <2>1 DEF IInv, Consents, AssentWasShown, PlanKnown
<1>8. Admissions'
  BY <1>2, <1>3, <1>4 DEF IInv, Admissions
<1> QED
  BY <1>5, <1>6, <1>7, <1>8 DEF IInv

LEMMA StepIInv == IInv /\ [Next]_vars => IInv'
<1> SUFFICES ASSUME IInv, [Next]_vars PROVE IInv'
  OBVIOUS
<1>0. TypeOK'
  BY TypeStep DEF IInv
<1>1. CASE UNCHANGED vars
  BY <1>0, <1>1, Quiet DEF vars, thread, runs, history
<1>2. ASSUME NEW m \in Message, NEW t \in Texts[m], Receive(m, t) PROVE IInv'
  BY <1>0, <1>2, ReceivePreserves
<1>3. ASSUME NEW m \in Message, Edit(m) \/ Cancel(m) \/ Acknowledge(m) PROVE IInv'
  <2>1. Author[m] \in User
    BY DialogueAssumption
  <2> QED
    BY <1>0, <1>3, <2>1, OutsidePreserves
<1>4. ASSUME NEW u \in User, Leave(u) PROVE IInv'
  <2>1. UNCHANGED <<rows, source, reviewed, posted, known, grants, w>>
    BY <1>4 DEF Leave, runs, history
  <2> QED
    BY <1>0, <2>1, Quiet
<1>5. ASSUME Work PROVE IInv'
  <2>1. CASE \E m \in Message : Acknowledge(m)
    BY <2>1, <1>3
  <2>2. CASE ClaimNotification \/ ClaimMessage
    BY <1>0, <2>2, ClaimPreserves
  <2>3. CASE MakePlan \/ Requeue \/ Fail \/ Finish \/ Defer
    BY <1>0, <2>3, PlanningPreserves
  <2>4. CASE Act
    BY <1>0, <2>4, ActPreserves
  <2>5. CASE \/ NothingToPost \/ NothingToDrive \/ DriveDenied \/ DriveSlice \/ DriveEnds
             \/ Discard \/ ExecuteRequested \/ Execute \/ \E q \in Message : ClaimDrive(q)
    BY <1>0, <2>5, MovesPreserve
  <2>6. CASE TellDrive
    <3>1. w.run \in Message
      BY <2>6 DEF TellDrive, IInv, Worker
    <3> QED
      BY <1>0, <2>6, <3>1, TellingPreserves
  <2>7. CASE Withhold \/ Sent
    BY <1>0, <2>7, PostingPreserves
  <2>8. CASE \E a \in {"delivered", "failed", "unknown"} : Post(a)
    BY <1>0, <2>8, PostingPreserves
  <2> QED
    BY <1>5, <2>1, <2>2, <2>3, <2>4, <2>5, <2>6, <2>7, <2>8 DEF Work
<1>6. ASSUME NEW r \in Message, TellUpdate(r) PROVE IInv'
  BY <1>0, <1>6, TellingPreserves
<1>7. ASSUME NEW r \in Message, NEW k \in {"running", "unknown"}, Settle(r, k) PROVE IInv'
  <2>1. UNCHANGED <<rows, source, reviewed, posted, known, grants, w>>
    BY <1>7 DEF Settle, thread, history
  <2> QED
    BY <1>0, <2>1, Quiet
<1>8. ASSUME Crash PROVE IInv'
  BY <1>0, <1>8, CrashPreserves
<1> QED
  BY <1>1, <1>2, <1>3, <1>4, <1>5, <1>6, <1>7, <1>8 DEF Next

LEMMA SpecIInv == Spec => []IInv
<1>1. Init => IInv
  BY InitIInv
<1>2. IInv /\ [Next]_vars => IInv'
  BY StepIInv
<1> QED
  BY <1>1, <1>2, PTL DEF Spec

-----------------------------------------------------------------------------
(* The theorems. *)

\* Every state has the shape the model gives it, whatever is edited, cancelled,
\* retried or lost: every plan and every row of the outbox names what it acts on.
THEOREM TypeCorrect == Spec => []TypeOK
<1>1. IInv => TypeOK
  BY DEF IInv
<1> QED
  BY <1>1, SpecIInv, PTL

\* No row of the outbox is sent twice (slack_conversations.py): the row is marked
\* before the request, and recovery marks an unanswered one unknown.
THEOREM SentAtMostOnce == Spec => []SentOnce
<1>1. IInv => SentOnce
  BY DEF IInv, Outbox, RowSafe, SentOnce
<1> QED
  BY <1>1, SpecIInv, PTL

\* An assent approves only a proposal that had been posted to its author before the
\* message was admitted (_production_approval of slack_approval.py).
THEOREM ApprovedWasShown == Spec => []AssentWasShown
<1>1. IInv => AssentWasShown
  BY DEF IInv, Consents
<1> QED
  BY <1>1, SpecIInv, PTL
=============================================================================
