--------------------------- MODULE SlackDialogue ----------------------------
(***************************************************************************)
(* One shared Slack thread: its durable inbox, the Runs its messages start *)
(* and steer, and the outbox that posts their results                      *)
(* (channels/slack_conversations.py, slack_events.py, slack_approval.py,   *)
(* task_result_bindings.py).  The webhook admits messages and edits at any *)
(* time; one worker thread plans, executes, finishes and posts them, each  *)
(* commit a step; the thread of a deferred tool settles its operation and  *)
(* queues its own notice.  Runs move as a slice may leave them, the claims *)
(* and leases of the drive queue are DriveQueue's.                         *)
(* A Run is named by the message that creates it.  A proposal or a result  *)
(* is named by its Run and the revision it was made at.                    *)
(***************************************************************************)
EXTENDS Naturals, Sequences, FiniteSets

CONSTANTS Messages,     \* messages of the thread, named by their order of arrival
          User,
          Author,       \* who writes each message
          Texts,        \* what each message may say
          Reviewers,    \* users with can_approve
          MaxRev, MaxInbox, MaxFaults

Message == 1..Messages
NoMessage == 0
NoRun == 0
Wordings == {"work", "new", "status", "stop", "assent", "refuse", "resume", "close", "reopen"}

ASSUME DialogueAssumption ==
    /\ Messages \in Nat
    /\ Author \in [Message -> User] /\ Reviewers \subseteq User
    /\ Texts \in [Message -> SUBSET Wordings]
    /\ MaxRev \in Nat /\ MaxInbox \in Nat /\ MaxFaults \in Nat

VARIABLES
    conv,       \* current Run, retained Runs, closed
    rows,       \* slack_message_jobs in rowid order: messages and notifications
    source,     \* the ingress event of each message: none, final, edited
    synced,     \* messages whose ingress events are all acknowledged
    text,       \* what each admitted message says
    reviewed,   \* the proposal bound to an assent when it was admitted
    members,    \* users that still pass _authorize
    run,        \* state and revision of each Run
    queue,      \* the drive queue's row of a Run: none, pending or notify
    origin,     \* the message whose authority drives a Run
    tell,       \* Runs whose operation worker still owes a notice
    cancelled,  \* messages whose stop button was pressed
    applied,    \* messages whose continuation is in the Run's records
    w,          \* the worker thread
    posted,     \* history: proposals that reached a user
    known,      \* history: the proposals that had reached an assent's author before it
    grants,     \* history: the approvals granted by an assent
    faults

thread == <<conv, rows, source, synced, text, reviewed, members>>
runs == <<run, queue, origin, tell, cancelled, applied>>
history == <<posted, known, grants>>
vars == <<thread, runs, w, history, faults>>

-----------------------------------------------------------------------------
(* Texts, results and identities *)

Says(kind, r, n) == [kind |-> kind, run |-> r, rev |-> n]
Reply(kind) == Says(kind, NoRun, 0)
Unbound == Says("unbound", NoRun, 0)
NoPlan == [act |-> "none", run |-> NoRun, rev |-> 0, reply |-> Reply("none")]
Idle == [pc |-> "idle", row |-> 0, run |-> NoRun, reply |-> Reply("none")]

Mode(r) == IF r = NoRun THEN "none" ELSE run[r].mode
Proposal(r) == Says("proposal", r, run[r].rev)

\* _summary: the text a reply about a Run carries.
Summary(r) ==
    CASE Mode(r) = "none" -> Reply("nothing")
      [] Mode(r) = "approval" -> Proposal(r)
      [] Mode(r) = "completed" -> Says("result", r, run[r].rev)
      [] OTHER -> Says(Mode(r), r, 0)

\* result_for: only an accepted completion has an identity.
ResultText(r) == IF Mode(r) = "completed" THEN Says("result", r, run[r].rev)
                 ELSE Says("incomplete", r, 0)
Identity(r) == IF Mode(r) = "completed" THEN ResultText(r) ELSE Unbound

\* matches_result: a row without a binding always matches.
Matches(row, r) ==
    row.bound # Unbound => Identity(r) = row.bound /\ row.result = row.bound

RowOf(m) == CHOOSE i \in DOMAIN rows : rows[i].msg = m
Admitted(m) == \E i \in DOMAIN rows : rows[i].msg = m
Inbox == {i \in DOMAIN rows : rows[i].msg # NoMessage}
PendingInput == \E i \in Inbox : rows[i].state = "pending"
FirstRow(S) == CHOOSE i \in S : \A j \in S : i <= j

\* claim_notification: finished rows whose result is still to be posted.
Due == {i \in DOMAIN rows : rows[i].state \in {"done", "blocked"} /\ rows[i].note = "pending"}

\* claim(): acknowledged at the ingress, and no other message of the thread running.
Claimable == IF \E i \in Inbox : rows[i].state = "running" THEN {}
             ELSE {i \in Inbox : rows[i].state = "pending" /\ rows[i].msg \in synced}

-----------------------------------------------------------------------------
(* Runs *)

Later(x, k) == [mode |-> k, rev |-> IF x.rev < MaxRev THEN x.rev + 1 ELSE x.rev]

\* What a bounded slice may leave of a running Run; pending input of the thread
\* fences completion.  A Run that used up MaxRev asks for input.
SliceEnds(x) ==
    IF x.rev = MaxRev THEN {Later(x, "input")}
    ELSE {Later(x, k) : k \in {"running", "input", "approval", "tool", "unknown"}
                              \cup (IF PendingInput THEN {} ELSE {"completed"})}

\* ExecutionCancelledError: the slice's Run is stopped unless it is past that.
Stopped(x) == IF x.mode \in {"stopped", "completed", "unknown"} THEN x
              ELSE Later(x, "stopped")

\* The phase the queue's row is left in when a Run moved.
Phase(x) == IF x.mode = "running" THEN "pending" ELSE "notify"

\* continue_work: a revision starts a slice, waits for a running tool, or is
\* refused where it would obscure an effect; a replay only resumes its own.
Revised(m, r) ==
    IF m \in applied
    THEN IF Mode(r) = "running" THEN SliceEnds(run[r]) ELSE {run[r]}
    ELSE CASE Mode(r) = "tool" -> {Later(run[r], "tool")}
           [] Mode(r) \in {"none", "unknown"} -> {}
           [] OTHER -> SliceEnds(Later(run[r], "running"))

Paused(m, r) ==
    IF m \in applied THEN {run[r]}
    ELSE CASE Mode(r) = "tool" -> {Later(run[r], "tool")}
           [] Mode(r) \in {"none", "unknown", "blocked"} -> {}
           [] OTHER -> {Later(run[r], "input")}

\* decide_approval: the exact invocation that waits, by a user who may approve.
Decidable(m, plan) ==
    /\ Mode(plan.run) = "approval" /\ run[plan.run].rev = plan.rev
    /\ Author[m] \in Reviewers

\* What executing a plan may leave of its Run; nothing where it raises.
Outcomes(m, plan) ==
    LET r == plan.run IN
    CASE plan.act = "create" ->
            IF Mode(r) \in {"none", "running"} THEN SliceEnds(run[r]) ELSE {run[r]}
      [] plan.act = "revise" -> Revised(m, r)
      [] plan.act = "pause" -> Paused(m, r)
      [] plan.act = "resume" ->
            IF Mode(r) = "running" THEN SliceEnds(run[r])
            ELSE IF Mode(r) = "none" THEN {} ELSE {run[r]}
      [] plan.act = "approve" ->
            IF Decidable(m, plan) THEN SliceEnds(Later(run[r], "running")) ELSE {}
      [] plan.act = "reject" ->
            IF Decidable(m, plan) THEN {Later(run[r], "stopped")} ELSE {}

\* A revision or a pause meets an unsafe boundary of a running or blocked Run.
Unsafe(m, plan) == /\ plan.act \in {"revise", "pause"} /\ m \notin applied
                   /\ Mode(plan.run) \in {"running", "blocked"}
-----------------------------------------------------------------------------
(* Admission: the webhook's threads *)

NewRow(m, key, user, r, state, result, note) ==
    [msg |-> m, key |-> key, user |-> user, run |-> r, state |-> state, plan |-> NoPlan,
     result |-> result, note |-> note, bound |-> Unbound, sends |-> 0]

\* _production_approval's last check: the thread's proposal was delivered to this user.
\* Mutated form: a row still in the outbox counts as shown.
ShownQueued(m, r) ==
    \E i \in DOMAIN rows : /\ rows[i].state = "done" /\ rows[i].note \in {"pending", "delivered"}
                           /\ rows[i].user = Author[m] /\ rows[i].result = Proposal(r)
Shown(m, r) ==
    \E i \in DOMAIN rows : /\ rows[i].state = "done" /\ rows[i].note = "delivered"
                           /\ rows[i].user = Author[m] /\ rows[i].result = Proposal(r)

\* The proposal an assent is bound to when it is admitted.
Reviewable(m, says) ==
    IF says = "assent" /\ Mode(conv.current) = "approval" /\ Shown(m, conv.current)
    THEN Proposal(conv.current) ELSE Reply("none")

\* receive, _message and admit; a second delivery of an admitted message changes nothing.
Receive(m, says) ==
    /\ source[m] = "none" /\ Author[m] \in members
    /\ \A n \in 1..(m - 1) : Admitted(n)
    /\ conv.closed => says = "reopen"
    /\ Cardinality({i \in Inbox : rows[i].state \in {"pending", "running"}}) < MaxInbox
    /\ rows' = Append(rows, NewRow(m, Reply("message"), Author[m], NoRun, "pending",
                                   Reply("none"), "pending"))
    /\ text' = [text EXCEPT ![m] = says]
    /\ reviewed' = [reviewed EXCEPT ![m] = Reviewable(m, says)]
    /\ source' = [source EXCEPT ![m] = "final"]
    /\ known' = IF says = "assent"
                THEN [known EXCEPT ![m] = {p.what : p \in {q \in posted : q.user = Author[m]}}]
                ELSE known
    /\ UNCHANGED <<conv, synced, members, runs, w, posted, grants, faults>>

\* _receive_mutation: an edit or deletion is a new ingress event of the message; one
\* of a message without work under way has nothing left to change.
Edit(m) ==
    /\ source[m] = "final" /\ Author[m] \in members
    /\ \/ rows[RowOf(m)].state \in {"pending", "running"}
       \/ \E r \in Message : origin[r] = m /\ Mode(r) = "running"
    /\ source' = [source EXCEPT ![m] = "edited"]
    /\ synced' = synced \ {m}
    /\ faults < MaxFaults /\ faults' = faults + 1
    /\ UNCHANGED <<conv, rows, text, reviewed, members, runs, w, history>>

\* A member loses access to the channel.
Leave(u) ==
    /\ faults < MaxFaults /\ u \in members
    /\ members' = members \ {u} /\ faults' = faults + 1
    /\ UNCHANGED <<conv, rows, source, synced, text, reviewed, runs, w, history>>

\* interact and cancel: the stop button of a message that is still worked on.
Cancel(m) ==
    /\ Admitted(m) /\ m \notin cancelled
    /\ rows[RowOf(m)].plan.act \in {"create", "revise", "approve", "resume"}
    /\ \/ rows[RowOf(m)].state \in {"pending", "running"}
       \/ \E r \in Message : queue[r] = "pending" /\ origin[r] = m
    /\ faults < MaxFaults /\ faults' = faults + 1
    /\ cancelled' = cancelled \cup {m}
    /\ UNCHANGED <<thread, run, queue, origin, tell, applied, w, history>>

-----------------------------------------------------------------------------
(* The worker thread: work_once *)

Goto(pc) == w' = [w EXCEPT !.pc = pc]

\* _advance_background: one ingress event is acknowledged, or one result is
\* claimed for posting; then the inbox.
Acknowledge(m) ==
    /\ w.pc = "idle" /\ Admitted(m) /\ m \notin synced
    /\ synced' = synced \cup {m}
    /\ UNCHANGED <<conv, rows, source, text, reviewed, members, runs, w, history, faults>>

ClaimNotification ==
    /\ w.pc = "idle" /\ Due # {}
    /\ rows' = [rows EXCEPT ![FirstRow(Due)].note = "sending"]
    /\ w' = [Idle EXCEPT !.pc = "post", !.row = FirstRow(Due)]
    /\ UNCHANGED <<conv, source, synced, text, reviewed, members, runs, history, faults>>

NothingToPost ==
    /\ w.pc = "idle" /\ Due = {} /\ \A m \in Message : Admitted(m) => m \in synced
    /\ Goto("take")
    /\ UNCHANGED <<thread, runs, history, faults>>

\* claim(): the oldest message, with the plan an earlier claim saved for it.
ClaimMessage ==
    /\ w.pc = "take" /\ Claimable # {}
    /\ LET i == FirstRow(Claimable) IN
       /\ rows' = [rows EXCEPT ![i].state = "running"]
       /\ w' = [Idle EXCEPT !.pc = IF rows[i].plan = NoPlan THEN "plan" ELSE "exec",
                            !.row = i, !.run = conv.current]
    /\ UNCHANGED <<conv, source, synced, text, reviewed, members, runs, history, faults>>

Msg == rows[w.row].msg
Plan == rows[w.row].plan

Planned(act, r, rev, reply) == [act |-> act, run |-> r, rev |-> rev, reply |-> reply]
Answer(reply) == Planned("reply", NoRun, 0, reply)

\* _production_approval of a message that was admitted earlier.
Assent(m, r) ==
    IF Mode(r) = "approval" /\ reviewed[m] = Proposal(r) /\ Shown(m, r)
    THEN Planned("approve", r, run[r].rev, Reply("none"))
    ELSE Answer(IF Mode(r) = "approval" THEN Summary(r) ELSE Reply("nothing"))

\* _plan: what a message asks of the current Run.
PlanOf(m) ==
    LET r == conv.current  says == text[m] IN
    CASE conv.closed /\ says # "reopen" -> Answer(Reply("empty"))
      [] says = "close" -> Planned("close", NoRun, 0, Reply("closed"))
      [] says = "reopen" -> Answer(Reply("help"))
      [] says = "status" -> Answer(Summary(r))
      [] says = "stop" -> IF Mode(r) = "none" THEN Answer(Reply("nothing"))
                          ELSE Planned("pause", r, 0, Reply("none"))
      [] says = "refuse" -> IF Mode(r) = "approval"
                            THEN Planned("reject", r, run[r].rev, Reply("none"))
                            ELSE Answer(Reply("nothing"))
      [] says = "assent" -> Assent(m, r)
      [] says = "resume" -> Planned(IF Mode(r) = "input" THEN "revise" ELSE "resume",
                                    r, 0, Reply("none"))
      [] says = "work" /\ Mode(r) = "unknown" ->
             Planned("dialogue", r, 0, Reply("answer"))
      [] says = "work" /\ Mode(r) \in {"completed", "stopped", "input", "approval", "tool"} ->
             Planned("revise", r, 0, Reply("none"))
      [] says \in {"work", "new"} /\ Mode(r) = "running" -> Answer(Summary(r))
      [] OTHER -> Planned("create", m, 0, Reply("none"))

MakePlan ==
    /\ w.pc = "plan" /\ Author[Msg] \in members
    /\ rows' = [rows EXCEPT ![w.row].plan = PlanOf(Msg)]
    /\ Goto("exec")
    /\ UNCHANGED <<conv, source, synced, text, reviewed, members, runs, history, faults>>

\* Another process or channel holds the Run's lease: back to the inbox, with the plan.
Requeue ==
    /\ w.pc = "exec" /\ Plan.act \notin {"reply", "dialogue", "close"}
    /\ faults < MaxFaults /\ faults' = faults + 1
    /\ rows' = [rows EXCEPT ![w.row] = [@ EXCEPT !.state = "pending", !.result = Reply("none")]]
    /\ w' = Idle
    /\ UNCHANGED <<conv, source, synced, text, reviewed, members, runs, history>>

\* current_approval_source and the target of an approval.
DecidesNow(m, plan) ==
    plan.act \in {"approve", "reject"} => conv.current = plan.run /\ source[m] = "final"

\* A Run whose late result stays bound to the thread when new work replaces it.
Retained(m) ==
    IF Mode(conv.current) \in {"tool", "unknown", "blocked"} /\ conv.current # m
    THEN conv.retained \cup {conv.current} ELSE conv.retained

\* _execute up to the Run's own transition: the checks, and the conversation.
Execute ==
    LET m == Msg
        open == conv.closed /\ text[m] # "reopen"
    IN
    /\ w.pc = "exec" /\ Author[m] \in members /\ DecidesNow(m, Plan)
    /\ conv' = CASE Plan.act = "close" -> [conv EXCEPT !.closed = TRUE]
                 [] Plan.act = "reply" -> [conv EXCEPT !.closed = open]
                 [] Plan.act = "dialogue" -> conv
                 [] Plan.act = "create" -> [current |-> m, retained |-> Retained(m),
                                            closed |-> open]
                 [] OTHER -> [conv EXCEPT !.current = Plan.run, !.closed = open]
    /\ w' = IF Plan.act \in {"reply", "dialogue", "close"}
            THEN [w EXCEPT !.pc = "finish", !.reply = Plan.reply]
            ELSE [w EXCEPT !.pc = "act"]
    /\ UNCHANGED <<rows, source, synced, text, reviewed, members, runs, history, faults>>

\* The reply of an executed plan.
ReplyTo(m, plan, x) ==
    CASE m \in cancelled /\ x.mode # "completed" -> Reply("cancelled")
      [] plan.act = "revise" /\ x.mode = "tool" -> Reply("noted")
      [] plan.act = "pause" -> Reply("paused")
      [] x.mode = "running" -> Reply("working")
      [] x.mode = "approval" -> Says("proposal", plan.run, x.rev)
      [] x.mode = "completed" -> Says("result", plan.run, x.rev)
      [] OTHER -> Says(x.mode, plan.run, 0)

\* _execute's mutation of the Run and its first slice, under the Run's lock.
Act ==
    LET m == Msg  r == Plan.run IN
    /\ w.pc = "act"
    /\ \E end \in Outcomes(m, Plan) :
         LET x == IF m \in cancelled /\ Plan.act # "pause" THEN Stopped(end) ELSE end IN
         /\ run' = [run EXCEPT ![r] = x]
         /\ queue' = IF x = run[r] THEN queue ELSE [queue EXCEPT ![r] = Phase(x)]
         /\ w' = [w EXCEPT !.pc = "finish", !.reply = ReplyTo(m, Plan, x)]
    /\ origin' = [origin EXCEPT ![r] = m]
    /\ applied' = IF Plan.act \in {"revise", "pause"} THEN applied \cup {m} ELSE applied
    /\ grants' = IF Plan.act = "approve"
                 THEN grants \cup {[msg |-> m, what |-> Proposal(r)]}
                 ELSE grants
    /\ UNCHANGED <<thread, tell, cancelled, posted, known, faults>>

\* execute_requested_work, after a message's own slice and after every resumed one:
\* the request itself covers the proposal it led to.
ExecuteRequested ==
    LET driven == w.pc = "driven"
        r == IF driven THEN w.run ELSE Plan.run
        m == IF driven THEN origin[r] ELSE Msg
    IN
    /\ \/ driven
       \/ w.pc = "finish" /\ Plan.act \in {"create", "revise"}
    /\ Mode(r) = "approval" /\ source[m] = "final" /\ Author[m] \in members
    /\ \E end \in SliceEnds(Later(run[r], "running")) :
         LET x == IF m \in cancelled THEN Stopped(end) ELSE end IN
         /\ run' = [run EXCEPT ![r] = x]
         /\ queue' = [queue EXCEPT ![r] = Phase(x)]
         /\ w' = IF driven THEN w ELSE [w EXCEPT !.reply = ReplyTo(m, Plan, x)]
    /\ UNCHANGED <<thread, origin, tell, cancelled, applied, history, faults>>

\* Anything the plan or the execution raises: the message ends blocked, told so.
Fail ==
    /\ \/ w.pc \in {"plan", "exec"} /\ Author[Msg] \notin members
       \/ w.pc = "exec" /\ ~DecidesNow(Msg, Plan)
       \/ w.pc = "act" /\ (Outcomes(Msg, Plan) = {} \/ Unsafe(Msg, Plan))
    /\ rows' = [rows EXCEPT ![w.row] = [@ EXCEPT !.state = "blocked", !.result = Reply("failed")]]
    /\ origin' = IF w.pc = "act" /\ Plan.run # NoRun
                 THEN [origin EXCEPT ![Plan.run] = Msg] ELSE origin
    /\ w' = Idle
    /\ UNCHANGED <<conv, source, synced, text, reviewed, members, run, queue, tell, cancelled,
                   applied, history, faults>>

\* finish: the reply and, for an accepted completion, its identity.
Finish ==
    LET r == IF Plan.act = "dialogue" THEN NoRun ELSE Plan.run
        bound == rows[w.row].bound
    IN
    /\ w.pc = "finish"
    /\ rows' = [rows EXCEPT ![w.row] =
                   [@ EXCEPT !.state = "done", !.result = w.reply,
                             !.bound = IF bound = Unbound /\ w.reply = Identity(r)
                                       THEN w.reply ELSE bound]]
    /\ Goto("defer")
    /\ UNCHANGED <<conv, source, synced, text, reviewed, members, runs, history, faults>>

\* _defer_running_result: a Run still at work answers later; otherwise the reply
\* stands for the notice of this message's slice.
Defer ==
    LET m == Msg IN
    /\ w.pc = "defer"
    /\ IF Plan.act # "dialogue" /\ Mode(Plan.run) = "running"
       THEN /\ rows' = [rows EXCEPT ![w.row].note = IF @ = "pending" THEN "deferred" ELSE @]
            /\ UNCHANGED queue
       ELSE /\ queue' = IF Plan.act = "dialogue" THEN queue
                        ELSE [r \in Message |-> IF queue[r] = "notify" /\ origin[r] = m
                                                THEN "none" ELSE queue[r]]
            /\ UNCHANGED rows
    /\ w' = Idle
    /\ UNCHANGED <<conv, source, synced, text, reviewed, members, run, origin, tell, cancelled,
                   applied, history, faults>>

-----------------------------------------------------------------------------
(* Driving a Run beyond its first slice *)

\* _drive_once: claim a due Run, for its next slice or for its notice.
ClaimDrive(r) ==
    /\ w.pc = "take" /\ Claimable = {} /\ queue[r] # "none"
    /\ w' = [Idle EXCEPT !.pc = IF queue[r] = "pending" THEN "drive" ELSE "tell", !.run = r]
    /\ UNCHANGED <<thread, runs, history, faults>>

NothingToDrive ==
    /\ w.pc = "take" /\ Claimable = {} /\ \A r \in Message : queue[r] = "none"
    /\ w' = Idle
    /\ UNCHANGED <<thread, runs, history, faults>>

\* The thread is closed or its member is gone.
Unauthorized(r) == conv.closed \/ Author[origin[r]] \notin members

\* block(): a notice is dropped, a Run at work is blocked.
DriveDenied ==
    /\ w.pc \in {"drive", "tell"} /\ Unauthorized(w.run)
    /\ run' = IF w.pc = "tell" THEN run ELSE [run EXCEPT ![w.run] = Later(@, "blocked")]
    /\ queue' = [queue EXCEPT ![w.run] = "none"]
    /\ w' = Idle
    /\ UNCHANGED <<thread, origin, tell, cancelled, applied, history, faults>>

DriveSlice ==
    LET r == w.run IN
    /\ w.pc = "drive" /\ ~Unauthorized(r)
    /\ \E end \in IF Mode(r) = "running" THEN SliceEnds(run[r]) ELSE {run[r]} :
         LET x == IF origin[r] \in cancelled THEN Stopped(end) ELSE end IN
         /\ run' = [run EXCEPT ![r] = x]
         /\ queue' = [queue EXCEPT ![r] = Phase(x)]
         /\ w' = IF x.mode = "approval" THEN [w EXCEPT !.pc = "driven"] ELSE Idle
    /\ UNCHANGED <<thread, origin, tell, cancelled, applied, history, faults>>

DriveEnds ==
    /\ w.pc = "driven"
    /\ w' = Idle
    /\ UNCHANGED <<thread, runs, history, faults>>

\* enqueue_run_notification for an open thread whose current or retained Run it is.
\* Rows with the key of an earlier one are ignored, a repeated text is skipped.
Enqueued(r, key, result) ==
    LET last == rows[Len(rows)]
        senders == {i \in Inbox : rows[i].plan.run = r \/ r = conv.current}
        sender == rows[CHOOSE i \in senders : \A j \in senders : j <= i].user
        again == last.result = result /\ last.note \in {"delivered", "skipped"}
    IN IF \/ conv.closed \/ r \notin {conv.current} \cup conv.retained \/ senders = {}
          \/ \E i \in DOMAIN rows : rows[i].key = key
       THEN rows
       ELSE Append(rows, [NewRow(NoMessage, key, sender, r, "done", result,
                                 IF again THEN "skipped" ELSE "pending")
                          EXCEPT !.bound = Identity(r)])

\* _notify_drive_claim: the result is stored, as the message's own answer if that is
\* still open; the claim is discarded by a later commit.
TellDrive ==
    LET r == w.run
        i == RowOf(origin[r])
        bound == IF rows[i].bound = Unbound THEN Identity(r) ELSE rows[i].bound
    IN
    /\ w.pc = "tell" /\ ~Unauthorized(r)
    /\ rows' = IF rows[i].note \in {"pending", "deferred"}
               THEN [rows EXCEPT ![i] =
                        [@ EXCEPT !.state = "done", !.result = ResultText(r), !.note = "pending",
                                  !.bound = bound]]
               ELSE Enqueued(r, Says("drive", r, run[r].rev), ResultText(r))
    /\ Goto("discard")
    /\ UNCHANGED <<conv, source, synced, text, reviewed, members, runs, history, faults>>

Discard ==
    /\ w.pc = "discard"
    /\ queue' = [queue EXCEPT ![w.run] = "none"]
    /\ w' = Idle
    /\ UNCHANGED <<thread, run, origin, tell, cancelled, applied, history, faults>>

-----------------------------------------------------------------------------
(* The outbox *)

\* _notify checks the Run the row was queued for if the thread retains it, and the
\* current one otherwise.
Target(row) == IF row.run \in conv.retained THEN row.run ELSE conv.current

\* A claimed row that is not sent: its user is gone, another result has replaced it,
\* or there is no text.
Withhold ==
    LET row == rows[w.row] IN
    /\ w.pc = "post"
    /\ rows' = [rows EXCEPT ![w.row].note =
                   CASE row.user \notin members -> "denied"
                     [] Mode(Target(row)) # "none" /\ ~Matches(row, Target(row)) -> "superseded"
                     [] OTHER -> "skipped"]
    /\ \/ row.user \notin members \/ row.result = Reply("empty")
       \/ Mode(Target(row)) # "none" /\ ~Matches(row, Target(row))
    /\ w' = Idle
    /\ UNCHANGED <<conv, source, synced, text, reviewed, members, runs, history, faults>>

\* The request to Slack: it may be refused, and its answer may be lost.
Post(answer) ==
    LET row == rows[w.row] IN
    /\ w.pc = "post" /\ row.user \in members /\ row.result # Reply("empty")
    /\ Mode(Target(row)) # "none" => Matches(row, Target(row))
    /\ answer # "delivered" => faults < MaxFaults
    /\ faults' = IF answer = "delivered" THEN faults ELSE faults + 1
    /\ rows' = [rows EXCEPT ![w.row].sends = @ + 1]
    /\ posted' = IF answer # "failed" /\ row.result.kind = "proposal"
                 THEN posted \cup {[user |-> row.user, what |-> row.result]} ELSE posted
    /\ w' = [w EXCEPT !.pc = "sent", !.reply = Reply(answer)]
    /\ UNCHANGED <<conv, source, synced, text, reviewed, members, runs, known, grants>>

Sent ==
    /\ w.pc = "sent"
    /\ rows' = [rows EXCEPT ![w.row].note = w.reply.kind]
    /\ w' = Idle
    /\ UNCHANGED <<conv, source, synced, text, reviewed, members, runs, history, faults>>

-----------------------------------------------------------------------------
(* The operation worker's thread, and restarts *)

\* The worker thread holds this Run's lock.
Locked(r) == /\ w.run = r
             /\ w.pc \in {"plan", "exec", "act", "finish", "defer", "drive", "driven", "tell",
                      "discard"}

\* complete_deferred and mark_deferred_uncertain move the Run; the notice is the
\* callback's, after it.
Settle(r, mode) ==
    /\ Mode(r) \in {"tool", "unknown"} /\ mode # Mode(r) /\ run[r].rev < MaxRev
    /\ ~Locked(r)
    /\ mode = "unknown" => faults < MaxFaults
    /\ faults' = IF mode = "unknown" THEN faults + 1 ELSE faults
    /\ run' = [run EXCEPT ![r] = Later(@, mode)]
    /\ queue' = [queue EXCEPT ![r] = Phase([mode |-> mode])]
    /\ tell' = tell \cup {r}
    /\ UNCHANGED <<thread, origin, cancelled, applied, w, history>>

\* enqueue_run_update: nothing for a Run that is at work again.
TellUpdate(r) ==
    /\ r \in tell /\ ~Locked(r)
    /\ rows' = IF Mode(r) = "running" THEN rows
               ELSE Enqueued(r, Says("op", r, 0), Summary(r))
    /\ tell' = tell \ {r}
    /\ UNCHANGED <<conv, source, synced, text, reviewed, members, run, queue, origin,
                   cancelled, applied, w, history, faults>>

\* recover() after a crash: an interrupted message is replayed if its plan is
\* idempotent, and a send without an answer is never repeated.
Replayable == {"none", "create", "reply", "dialogue", "close", "revise", "pause"}
\* Mutated form: an interrupted send is due again.
RecoveredSending(row) ==
    [row EXCEPT !.state = IF @ # "running" THEN @
                          ELSE IF row.plan.act \in Replayable THEN "pending" ELSE "blocked",
                !.result = IF row.state = "running" THEN Reply("restarted") ELSE @,
                !.note = IF @ = "sending" THEN "pending" ELSE @]
\* Mutated form: an interrupted message stays claimed.
RecoveredClaimed(row) == [row EXCEPT !.note = IF @ = "sending" THEN "unknown" ELSE @]
Recovered(row) ==
    [row EXCEPT !.state = IF @ # "running" THEN @
                          ELSE IF row.plan.act \in Replayable THEN "pending" ELSE "blocked",
                !.result = IF row.state = "running" THEN Reply("restarted") ELSE @,
                !.note = IF @ = "sending" THEN "unknown" ELSE @]

Crash ==
    /\ faults < MaxFaults /\ w # Idle
    /\ rows' = [i \in DOMAIN rows |-> Recovered(rows[i])]
    /\ w' = Idle /\ faults' = faults + 1
    /\ UNCHANGED <<conv, source, synced, text, reviewed, members, runs, history>>

-----------------------------------------------------------------------------
Init ==
    /\ conv = [current |-> NoRun, retained |-> {}, closed |-> FALSE]
    /\ rows = <<>> /\ source = [m \in Message |-> "none"] /\ synced = {}
    /\ text = [m \in Message |-> "none"] /\ reviewed = [m \in Message |-> Reply("none")]
    /\ members = User
    /\ run = [r \in Message |-> [mode |-> "none", rev |-> 0]]
    /\ queue = [r \in Message |-> "none"] /\ origin = [r \in Message |-> NoMessage]
    /\ tell = {} /\ cancelled = {} /\ applied = {} /\ w = Idle
    /\ posted = {} /\ known = [m \in Message |-> {}] /\ grants = {} /\ faults = 0

\* One turn of the Slack worker's loop.
Work ==
    \/ \E m \in Message : Acknowledge(m)
    \/ ClaimNotification \/ NothingToPost \/ ClaimMessage
    \/ MakePlan \/ Requeue \/ Execute \/ Act \/ ExecuteRequested \/ Fail \/ Finish \/ Defer
    \/ \E r \in Message : ClaimDrive(r)
    \/ NothingToDrive \/ DriveDenied \/ DriveSlice \/ DriveEnds \/ TellDrive \/ Discard
    \/ Withhold \/ \E a \in {"delivered", "failed", "unknown"} : Post(a)
    \/ Sent

Next ==
    \/ \E m \in Message : \E t \in Texts[m] : Receive(m, t)
    \/ \E m \in Message : Edit(m) \/ Cancel(m)
    \/ \E u \in User : Leave(u)
    \/ Work
    \/ \E r \in Message : TellUpdate(r) \/ \E k \in {"running", "unknown"} : Settle(r, k)
    \/ Crash

Spec == Init /\ [][Next]_vars

\* The worker loop keeps turning (bootstrap/durable_worker.py).
FairSpec == Spec /\ WF_vars(Work)

-----------------------------------------------------------------------------
(* Properties *)

\* The shape of the state.
Modes == {"none", "running", "input", "approval", "tool", "unknown", "completed", "stopped",
          "blocked"}
Kinds == Modes \cup {"proposal", "result", "incomplete", "unbound", "nothing", "message", "empty",
                     "closed", "help", "answer", "cancelled", "noted", "paused", "working",
                     "failed", "restarted", "drive", "op", "delivered"}
Acts == {"none", "create", "revise", "pause", "resume", "approve", "reject", "close", "reply",
         "dialogue"}
Pcs == {"idle", "take", "plan", "exec", "act", "finish", "defer", "drive", "driven", "tell",
        "discard", "post", "sent"}
Notes == {"pending", "deferred", "sending", "delivered", "failed", "unknown", "skipped",
          "denied", "superseded"}

Saying == [kind : Kinds, run : Message \cup {NoRun}, rev : Nat]
PlanType == [act : Acts, run : Message \cup {NoRun}, rev : Nat, reply : Saying]
RowType == [msg : Message \cup {NoMessage}, key : Saying, user : User,
            run : Message \cup {NoRun}, state : {"pending", "running", "done", "blocked"},
            plan : PlanType, result : Saying, note : Notes, bound : Saying, sends : Nat]

ThreadType ==
    /\ conv \in [current : Message \cup {NoRun}, retained : SUBSET Message, closed : BOOLEAN]
    /\ rows \in Seq(RowType)
    /\ source \in [Message -> {"none", "final", "edited"}]
    /\ synced \subseteq Message /\ members \subseteq User
    /\ text \in [Message -> Wordings \cup {"none"}]
    /\ reviewed \in [Message -> Saying]

RunsType ==
    /\ run \in [Message -> [mode : Modes, rev : 0..MaxRev]]
    /\ queue \in [Message -> {"none", "pending", "notify"}]
    /\ origin \in [Message -> Message \cup {NoMessage}]
    /\ tell \subseteq Message /\ cancelled \subseteq Message /\ applied \subseteq Message

HistoryType ==
    /\ posted \subseteq [user : User, what : Saying]
    /\ known \in [Message -> SUBSET Saying]
    /\ grants \subseteq [msg : Message, what : Saying]

TypeOK ==
    /\ ThreadType /\ RunsType /\ HistoryType
    /\ w \in [pc : Pcs, row : Nat, run : Message \cup {NoRun}, reply : Saying]
    /\ faults \in Nat

\* A plain assent approves only a proposal that its author had been sent before the
\* message was admitted, whatever is planned, shown, edited or retried in between.
AssentWasShown ==
    \A g \in grants : g.what \in known[g.msg]

\* No row of the outbox is sent twice: not after a lost answer, a crash between the
\* request and its record, or a replay of the message.
SentOnce == \A i \in DOMAIN rows : rows[i].sends <= 1

\* The answer to a message is settled: posted, withheld, or left to the slice that
\* still runs under its authority.
Settled(m) ==
    LET row == rows[RowOf(m)] IN
    /\ row.state \in {"done", "blocked"} /\ row.note \notin {"pending", "sending"}
    /\ row.note = "deferred" =>
          conv.closed \/ Author[m] \notin members \/ origin[row.plan.run] # m

\* Every admitted message ends answered or reported blocked, through crashes,
\* leases held elsewhere, cancellation, and long Runs.
MessagesSettle == \A m \in Message : Admitted(m) ~> (Admitted(m) /\ Settled(m))

\* A completed Run that the thread follows, with nothing left to do about it, has its
\* result in the outbox, and not withheld for another Run's sake.
ResultTold ==
    \A r \in Message :
        (/\ Mode(r) = "completed" /\ queue[r] = "none" /\ ~conv.closed
         /\ r \in conv.retained /\ members = User
         /\ w = Idle)
        => \E i \in DOMAIN rows : /\ rows[i].result = Says("result", r, run[r].rev)
                                  /\ rows[i].note # "superseded"
=============================================================================
