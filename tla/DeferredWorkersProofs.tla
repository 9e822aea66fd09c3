------------------------- MODULE DeferredWorkersProofs -------------------------
(***************************************************************************)
(* For every number of operations, lanes and faults: the type invariant of *)
(* DeferredWorkers, that the provider is paid once for an operation, and   *)
(* that what is settled was recorded by the Run.                           *)
(***************************************************************************)
EXTENDS DeferredWorkers, TLAPS

-----------------------------------------------------------------------------
(* The inductive invariant. *)

Free == {"idle", "recover", "repair", "select"}
Own == {"taken", "call", "calling", "ingest"}

\* A thread has an operation of its own table.  What it took from the queue it
\* has until its poll ends (back is idle); what it notifies or repairs it has
\* beside others.
Holds(w, t) ==
    /\ t.pc \in Free => t.op = None
    /\ t.pc \notin Free => t.op \in Operations /\ (w \in Lanes <=> t.op \in Traces)
    /\ t.pc \in Own \cup {"idle", "select"} => t.back = "idle"
    /\ t.pc \in Own => w \in Lanes \cup {Editor}
    /\ \A n \in t.todo : w \in Lanes <=> n[1] \in Traces

Holding == \A w \in Threads : Holds(w, th[w])

\* The active set of the lanes: no two have taken one operation.
Exclusive == \A w, x \in Lanes :
    (th[w].back = "idle" /\ th[x].back = "idle" /\ th[w].op = th[x].op /\ w # x)
        => th[w].op = None

\* A result completes a row; before the start nothing was paid, and only an
\* operation that may have been paid sends its Run into reconciliation.
Rows == \A o \in Operations :
    /\ row[o].result # None <=> row[o].stage = "completed"
    /\ row[o].stage \in {"none", "queued"} => entered[o] = 0
    /\ entered[o] <= 1
    /\ run[o].state = "awaiting_reconciliation" => row[o].stage \in {"uncertain", "completed"}

\* What a thread may rely on for the operation it has.
Relies(w) ==
    LET o == th[w].op
        pc == th[w].pc
    IN  /\ pc = "call" => row[o].stage = "started" /\ entered[o] = 0
        /\ pc = "calling" => row[o].stage = "started"
        /\ pc = "ingest" => row[o].stage = "generated"
        /\ pc = "project" => row[o].stage \in {"uncertain", "completed"} /\ th[w].note = "uncertain"
        /\ pc \in {"finish", "settle", "publish"} => th[w].note \in Notes
        /\ pc = "finish" => row[o].result # None
        /\ pc = "settle" \/ (pc = "publish" /\ o \in Images /\ th[w].note = "final") =>
            row[o].result # None /\ run[o].recorded = row[o].result
Reliance == \A w \in Threads : Relies(w)

\* What the repair found uncertain is uncertain still, or was completed since.
Repairs == \A n \in th[Editor].todo : row[n[1]].stage \in {"uncertain", "completed"}

IInv == TypeOK /\ Holding /\ Exclusive /\ Rows /\ Reliance /\ Repairs /\ SettledRecorded

-----------------------------------------------------------------------------
(* Steps of a thread. *)

\* A thread goes on with the operation it has.
LEMMA GoesOn ==
    ASSUME IInv, NEW w \in Threads, NEW t \in Thread,
           th' = [th EXCEPT ![w] = t], th[w].pc \notin Free, t.pc \notin Free,
           t.pc \in Own => th[w].pc \in Own,
           t.op = th[w].op, t.back = th[w].back, t.todo = th[w].todo
    PROVE  /\ th' \in [Threads -> Thread] /\ Holding' /\ Exclusive'
           /\ th'[w] = t /\ \A x \in Threads \ {w} : th'[x] = th[x]
           /\ th'[Editor].todo = th[Editor].todo
<1>1. /\ th' \in [Threads -> Thread]
      /\ th'[w] = t /\ \A x \in Threads \ {w} : th'[x] = th[x]
  BY DEF IInv, TypeOK
<1>2. Holding'
  BY <1>1 DEF IInv, Holding, Holds, Free, Own
<1>3. Exclusive'
  BY <1>1 DEF IInv, Exclusive, Threads
<1> QED
  BY <1>1, <1>2, <1>3 DEF Threads

\* A thread leaves the operation, or a queue that has none.
LEMMA Leaves ==
    ASSUME IInv, NEW w \in Threads, Leave(w)
    PROVE  /\ th' \in [Threads -> Thread] /\ Holding' /\ Exclusive'
           /\ th'[w].pc \in Free /\ \A x \in Threads \ {w} : th'[x] = th[x]
           /\ th'[Editor].todo = th[Editor].todo
<1> DEFINE t == [th[w] EXCEPT !.pc = th[w].back, !.op = None, !.note = None]
<1>1. t \in Thread /\ t.pc \in {"idle", "recover", "repair"} /\ t.op = None
      /\ t.back = th[w].back /\ t.todo = th[w].todo /\ t.pc = th[w].back
  BY DEF IInv, TypeOK, Thread
<1>2. th' = [th EXCEPT ![w] = t]
  BY DEF Leave
<1> HIDE DEF t
<1>3. /\ th' \in [Threads -> Thread]
      /\ th'[w] = t /\ \A x \in Threads \ {w} : th'[x] = th[x]
  BY <1>1, <1>2 DEF IInv, TypeOK
<1>4. Holding'
  BY <1>1, <1>3 DEF IInv, Holding, Holds, Free, Own
<1>5. Exclusive'
  BY <1>1, <1>3 DEF IInv, Exclusive, Threads
<1> QED
  BY <1>1, <1>3, <1>4, <1>5 DEF Threads, Free

\* Nobody else relies on what a step adds to a row or to a Run's record.
LEMMA OthersKeep ==
    ASSUME IInv, NEW x \in Threads, th'[x] = th[x],
           \A o \in Operations :
              /\ row'[o].stage = row[o].stage /\ row'[o].result = row[o].result
              /\ entered'[o] = entered[o]
              /\ run[o].recorded # None => run'[o].recorded = run[o].recorded
    PROVE  Relies(x)'
BY DEF IInv, Holding, Holds, Reliance, Relies, Free

\* One thread at a time has taken an operation.
LEMMA OneOwner ==
    ASSUME IInv, NEW w \in Threads, NEW x \in Threads, w # x,
           th[w].pc \in Own, th[x].pc \in Own
    PROVE  th[w].op # th[x].op
BY DeferredConstants DEF IInv, TypeOK, Thread, Holding, Holds, Exclusive, Own, Free, Threads, Traces

\* Nobody else relies on the row of an operation that a thread has taken and
\* that has no result.
LEMMA OwnerWrites ==
    ASSUME IInv, NEW w \in Threads, NEW x \in Threads, w # x, th'[x] = th[x],
           th[w].pc \in Own, row[th[w].op].result = None,
           \/ row[th[w].op].stage # "uncertain"
           \/ row'[th[w].op].stage \in {"uncertain", "completed"},
           \A o \in Operations \ {th[w].op} : row'[o] = row[o] /\ entered'[o] = entered[o],
           run' = run
    PROVE  Relies(x)'
<1> DEFINE o == th[w].op
<1>1. o \in Operations /\ (th[x].pc \notin Free => th[x].op \in Operations)
  BY DEF IInv, Holding, Holds, Own, Free
<1>2. CASE th[x].op # o
  BY <1>1, <1>2 DEF IInv, Reliance, Relies, Free
<1>3. CASE th[x].op = o
  <2>1. th[x].pc \notin Own
    BY <1>3, OneOwner
  <2>2. row[o].stage # "completed"
    BY <1>1 DEF IInv, Rows
  <2>3. th[x].pc \notin {"finish", "settle"}
        /\ ~(th[x].pc = "publish" /\ o \in Images /\ th[x].note = "final")
    BY <1>3 DEF IInv, Reliance, Relies
  <2>4. th[x].pc = "project" =>
            row'[o].stage \in {"uncertain", "completed"} /\ th[x].note = "uncertain"
    BY <1>3, <2>2 DEF IInv, Reliance, Relies
  <2>5. th[x].pc \in {"finish", "settle", "publish"} => th[x].note \in Notes
    BY DEF IInv, Reliance, Relies
  <2> QED
    BY <1>3, <2>1, <2>3, <2>4, <2>5 DEF Relies, Own
<1> QED
  BY <1>2, <1>3

-----------------------------------------------------------------------------
(* The service and the tool. *)

LEMMA InitInv == Init => IInv
BY DeferredConstants DEF Init, Idle, NoRow, IInv, TypeOK, Row, Run, Thread, Holding, Holds, Exclusive,
   Rows, Reliance, Relies, Repairs, SettledRecorded, Free, Own, Stages, Results, RunStates, Notes,
   Threads, Operations

LEMMA AcceptPreserves == ASSUME IInv, NEW o \in Operations, Accept(o) PROVE IInv'
<1>1. TypeOK'
  <2>1. [row[o] EXCEPT !.stage = "queued"] \in Row /\ [run[o] EXCEPT !.state = "admitted"] \in Run
    BY DEF IInv, TypeOK, Row, Run, Stages, RunStates
  <2> QED
    BY <2>1 DEF Accept, IInv, TypeOK
<1>2. Holding' /\ Exclusive' /\ Rows' /\ Repairs' /\ SettledRecorded'
  BY DEF Accept, Accepted, IInv, TypeOK, Row, Run, Holding, Exclusive, Rows, Repairs, SettledRecorded
<1>3. Reliance'
  BY DEF Accept, Accepted, IInv, TypeOK, Row, Run, Holding, Holds, Rows, Reliance, Relies, Free
<1> QED
  BY <1>1, <1>2, <1>3 DEF IInv

\* Handlers and a crash move Runs, and keep what they recorded.
LEMMA RunsMove ==
    ASSUME IInv, run' \in [Operations -> Run], UNCHANGED <<row, th, published, entered, faults>>,
           \A o \in Operations :
              /\ run'[o].recorded = run[o].recorded
              /\ run'[o].state = "awaiting_reconciliation" => run[o].state = run'[o].state
    PROVE  IInv'
<1>1. TypeOK' /\ Holding' /\ Exclusive' /\ Rows' /\ Repairs' /\ SettledRecorded'
  BY DEF IInv, TypeOK, Holding, Exclusive, Rows, Repairs, SettledRecorded
<1>2. Reliance'
  BY OthersKeep DEF IInv, Reliance
<1> QED
  BY <1>1, <1>2 DEF IInv

LEMMA AwaitPreserves == ASSUME IInv, NEW o \in Operations, Await(o) PROVE IInv'
BY RunsMove DEF Await, IInv, TypeOK, Run, RunStates

LEMMA StopPreserves == ASSUME IInv, NEW o \in Operations, Stop(o) PROVE IInv'
BY RunsMove DEF Stop, IInv, TypeOK, Run, RunStates

-----------------------------------------------------------------------------
(* What all threads do. *)

\* A thread leaves its operation, and at most settles or marks rows whose
\* result the Run has.
LEMMA LeavePreserves ==
    ASSUME IInv, NEW w \in Threads, Leave(w), row' \in [Operations -> Row], faults' \in 0..MaxFaults,
           \A o \in Operations :
              /\ row'[o].stage = row[o].stage /\ row'[o].result = row[o].result
              /\ row'[o].settled => row[o].settled
                    \/ (row[o].result # None /\ run[o].recorded = row[o].result),
           UNCHANGED <<run, published, entered>>
    PROVE  IInv'
<1>1. /\ th' \in [Threads -> Thread] /\ Holding' /\ Exclusive'
      /\ th'[w].pc \in Free /\ \A x \in Threads \ {w} : th'[x] = th[x]
      /\ th'[Editor].todo = th[Editor].todo
  BY Leaves
<1>2. TypeOK' /\ Rows' /\ SettledRecorded'
  BY <1>1 DEF IInv, TypeOK, Rows, SettledRecorded
<1>3. Repairs'
  BY <1>1 DEF IInv, TypeOK, Thread, Threads, Repairs
<1>4. Relies(w)'
  BY <1>1 DEF Relies, Free
<1>5. ASSUME NEW x \in Threads, x # w PROVE Relies(x)'
  BY <1>1, <1>5, OthersKeep
<1> QED
  BY <1>1, <1>2, <1>3, <1>4, <1>5 DEF IInv, Reliance

\* A thread goes on, and rows and Runs change only in what nobody relies on.
LEMMA GoOnPreserves ==
    ASSUME IInv, NEW w \in Threads, NEW t \in Thread,
           th' = [th EXCEPT ![w] = t], th[w].pc \notin Free, t.pc \notin Free,
           t.pc \in Own => th[w].pc \in Own,
           t.op = th[w].op, t.back = th[w].back, t.todo = th[w].todo,
           row' \in [Operations -> Row], run' \in [Operations -> Run],
           published' \subseteq Operations \X Notes,
           \A o \in Operations :
              /\ row'[o].stage = row[o].stage /\ row'[o].result = row[o].result
              /\ row'[o].settled => row[o].settled
                    \/ (row[o].result # None /\ run[o].recorded = row[o].result)
              /\ run[o].recorded # None => run'[o].recorded = run[o].recorded
              /\ run'[o].state = "awaiting_reconciliation" =>
                    run[o].state = run'[o].state \/ row[o].stage \in {"uncertain", "completed"},
           UNCHANGED <<entered, faults>>, Relies(w)'
    PROVE  IInv'
<1>1. /\ th' \in [Threads -> Thread] /\ Holding' /\ Exclusive'
      /\ th'[w] = t /\ \A x \in Threads \ {w} : th'[x] = th[x]
      /\ th'[Editor].todo = th[Editor].todo
  BY GoesOn
<1>2. TypeOK' /\ Rows' /\ SettledRecorded'
  BY <1>1 DEF IInv, TypeOK, Rows, SettledRecorded
<1>3. Repairs'
  BY <1>1 DEF IInv, TypeOK, Thread, Threads, Repairs
<1>4. ASSUME NEW x \in Threads, x # w PROVE Relies(x)'
  BY <1>1, <1>4, OthersKeep
<1> QED
  BY <1>1, <1>2, <1>3, <1>4 DEF IInv, Reliance

\* The thread that has taken an operation writes its row.
LEMMA OwnerPreserves ==
    ASSUME IInv, NEW w \in Threads, NEW t \in Thread, NEW r \in Row,
           th' = [th EXCEPT ![w] = t], th[w].pc \in Own, t.pc \notin Free,
           t.op = th[w].op, t.back = th[w].back, t.todo = th[w].todo,
           row' = [row EXCEPT ![th[w].op] = r],
           row[th[w].op].result = None,
           r.stage \notin {"none", "queued"}, r.settled = row[th[w].op].settled,
           r.result # None <=> r.stage = "completed",
           row[th[w].op].stage = "uncertain" => r.stage \in {"uncertain", "completed"},
           UNCHANGED <<run, published, entered, faults>>, Relies(w)'
    PROVE  IInv'
<1> DEFINE o == th[w].op
<1>1. o \in Operations /\ th[w].pc \notin Free /\ row[o].stage # "completed" /\ ~row[o].settled
  BY DEF IInv, Holding, Holds, Rows, Own, Free, SettledRecorded
<1>2. /\ th' \in [Threads -> Thread] /\ Holding' /\ Exclusive'
      /\ th'[w] = t /\ \A x \in Threads \ {w} : th'[x] = th[x]
      /\ th'[Editor].todo = th[Editor].todo
  BY <1>1, GoesOn
<1>3. row' \in [Operations -> Row] /\ row'[o] = r /\ \A p \in Operations \ {o} : row'[p] = row[p]
  BY <1>1 DEF IInv, TypeOK
<1>4. TypeOK' /\ Rows' /\ SettledRecorded'
  BY <1>1, <1>2, <1>3 DEF IInv, TypeOK, Rows, SettledRecorded
<1>5. Repairs'
  BY <1>1, <1>2, <1>3 DEF IInv, TypeOK, Thread, Threads, Repairs
<1>6. ASSUME NEW x \in Threads, x # w PROVE Relies(x)'
  BY <1>1, <1>2, <1>3, <1>6, OwnerWrites
<1> QED
  BY <1>2, <1>4, <1>5, <1>6 DEF IInv, Reliance

LEMMA FinishPreserves == ASSUME IInv, NEW w \in Threads, Finish(w) PROVE IInv'
<1> DEFINE o == th[w].op
<1>1. /\ o \in Operations /\ row[o].result # None /\ row[o].stage = "completed"
      /\ row[o].result \in Results /\ th[w].pc = "finish" /\ th[w].note \in Notes
  BY DEF Finish, At, IInv, TypeOK, Row, Holding, Holds, Reliance, Relies, Rows, Free
<1>2. CASE Takes(o, row[o].result) /\ Records(o, row[o].result)
           /\ Goto(w, IF o \in Images THEN "publish" ELSE "settle")
  <2> DEFINE t == [th[w] EXCEPT !.pc = IF o \in Images THEN "publish" ELSE "settle"]
  <2>1. t \in Thread /\ t.op = o /\ t.back = th[w].back /\ t.todo = th[w].todo
        /\ t.pc \in {"publish", "settle"} /\ t.note = th[w].note
    BY DEF IInv, TypeOK, Thread
  <2>2. th' = [th EXCEPT ![w] = t] /\ th'[w] = t
    BY <1>2 DEF Goto, IInv, TypeOK
  <2>3. /\ run' \in [Operations -> Run]
        /\ run'[o] = [state |-> "recorded", recorded |-> row[o].result]
        /\ \A p \in Operations \ {o} : run'[p] = run[p]
    BY <1>1, <1>2 DEF Records, IInv, TypeOK, Run, RunStates
  <2>4. Relies(w)'
    BY <1>1, <2>1, <2>2, <2>3 DEF Finish, Relies
  <2> HIDE DEF t
  <2>5. row' = row /\ published' = published /\ UNCHANGED <<entered, faults>>
    BY DEF Finish
  <2>6. \A p \in Operations : run[p].recorded # None => run'[p].recorded = run[p].recorded
    BY <1>2, <2>3 DEF Takes
  <2> QED
    BY <1>1, <2>1, <2>2, <2>3, <2>4, <2>5, <2>6, GoOnPreserves DEF IInv, TypeOK, Free, Own
<1>3. CASE Leave(w) /\ UNCHANGED run
  BY <1>3, LeavePreserves DEF Finish, IInv, TypeOK
<1> QED
  BY <1>2, <1>3 DEF Finish

LEMMA SettlePreserves == ASSUME IInv, NEW w \in Threads, Settle(w) PROVE IInv'
<1> DEFINE o == th[w].op
<1>1. /\ o \in Operations /\ row[o].result # None /\ run[o].recorded = row[o].result
      /\ th[w].pc = "settle" /\ th[w].note \in Notes
      /\ UNCHANGED <<run, published, entered, faults>>
  BY DEF Settle, At, IInv, Holding, Holds, Reliance, Relies, Free
<1> DEFINE r == IF o \in Images THEN [row[o] EXCEPT !.settled = TRUE]
                ELSE [row[o] EXCEPT !.settled = TRUE, !.told = FALSE]
<1>2. r \in Row /\ r.stage = row[o].stage /\ r.result = row[o].result
  BY <1>1 DEF IInv, TypeOK, Row
<1>3. row' = [row EXCEPT ![o] = r]
  BY DEF Settle
<1> HIDE DEF r
<1>4. /\ row' \in [Operations -> Row]
      /\ \A p \in Operations : /\ row'[p].stage = row[p].stage /\ row'[p].result = row[p].result
                               /\ row'[p].settled => row[p].settled
                                    \/ (row[p].result # None /\ run[p].recorded = row[p].result)
  BY <1>1, <1>2, <1>3 DEF IInv, TypeOK
<1>5. CASE o \in Images
  <2>1. Leave(w)
    BY <1>5 DEF Settle
  <2> QED
    BY <1>1, <1>4, <2>1, LeavePreserves DEF IInv, TypeOK
<1>6. CASE o \notin Images
  <2> DEFINE t == [th[w] EXCEPT !.pc = "publish"]
  <2>1. t \in Thread /\ t.op = o /\ t.back = th[w].back /\ t.todo = th[w].todo /\ t.pc = "publish"
        /\ t.note = th[w].note
    BY DEF IInv, TypeOK, Thread
  <2>2. th' = [th EXCEPT ![w] = t] /\ th'[w] = t
    BY <1>6 DEF Settle, Goto, IInv, TypeOK
  <2>3. Relies(w)'
    BY <1>1, <1>6, <2>1, <2>2 DEF Relies
  <2> HIDE DEF t
  <2>4. run' \in [Operations -> Run] /\ published' \subseteq Operations \X Notes
    BY <1>1 DEF IInv, TypeOK
  <2> QED
    BY <1>1, <1>4, <2>1, <2>2, <2>3, <2>4, GoOnPreserves DEF Free, Own
<1> QED
  BY <1>5, <1>6

LEMMA ProjectPreserves == ASSUME IInv, NEW w \in Threads, Project(w) PROVE IInv'
<1> DEFINE o == th[w].op
<1>1. o \in Operations /\ th[w].pc = "project" /\ row[o].stage \in {"uncertain", "completed"}
  BY DEF Project, At, IInv, Holding, Holds, Reliance, Relies, Free
<1>2. CASE run[o].recorded = None
  <2> DEFINE t == [th[w] EXCEPT !.pc = "publish"]
  <2>1. t \in Thread /\ t.op = o /\ t.back = th[w].back /\ t.todo = th[w].todo /\ t.pc = "publish"
    BY DEF IInv, TypeOK, Thread
  <2>2. th' = [th EXCEPT ![w] = t] /\ th'[w] = t
    BY <1>2 DEF Project, Goto, IInv, TypeOK
  <2>3. run' = [run EXCEPT ![o].state = "awaiting_reconciliation"]
    BY <1>2 DEF Project, MarksUncertain
  <2>4. /\ run' \in [Operations -> Run]
        /\ \A p \in Operations : /\ run'[p].recorded = run[p].recorded
                                 /\ p # o => run'[p] = run[p]
    BY <2>3 DEF IInv, TypeOK, Run, RunStates
  <2>5. t.note = "uncertain" /\ "uncertain" \in Notes
    BY <1>1 DEF IInv, TypeOK, Thread, Reliance, Relies, Notes
  <2>6. Relies(w)'
    BY <2>1, <2>2, <2>5 DEF Relies
  <2> HIDE DEF t
  <2> QED
    BY <1>1, <2>1, <2>2, <2>4, <2>6, GoOnPreserves DEF Project, IInv, TypeOK, Free, Own
<1>3. CASE run[o].recorded # None
  BY <1>3, LeavePreserves DEF Project, IInv, TypeOK
<1> QED
  BY <1>2, <1>3

LEMMA PublishPreserves == ASSUME IInv, NEW w \in Threads, Publish(w) PROVE IInv'
<1> DEFINE o == th[w].op
           t == [th[w] EXCEPT !.pc = IF o \in Images /\ th[w].note = "final" THEN "settle" ELSE "mark"]
<1>1. o \in Operations /\ th[w].pc = "publish"
  BY DEF Publish, At, IInv, Holding, Holds, Free
<1>2. t \in Thread /\ t.op = o /\ t.back = th[w].back /\ t.todo = th[w].todo
      /\ t.pc \in {"settle", "mark"}
  BY DEF IInv, TypeOK, Thread
<1>3. th' = [th EXCEPT ![w] = t] /\ th'[w] = t
  BY DEF Publish, Goto, IInv, TypeOK
<1>4. Relies(w)'
  BY <1>1, <1>2, <1>3 DEF Publish, IInv, TypeOK, Thread, Reliance, Relies
<1>5. published' \subseteq Operations \X Notes
  BY <1>1 DEF Publish, IInv, TypeOK, Reliance, Relies
<1> HIDE DEF t
<1> QED
  BY <1>1, <1>2, <1>3, <1>4, <1>5, GoOnPreserves DEF Publish, IInv, TypeOK, Free, Own

LEMMA MarkPreserves == ASSUME IInv, NEW w \in Threads, Mark(w) PROVE IInv'
<1> DEFINE o == th[w].op
<1>1. o \in Operations
  BY DEF Mark, At, IInv, Holding, Holds, Free
<1> DEFINE r == [row[o] EXCEPT !.told = @ \/ o \in Traces \/ row[o].stage = "uncertain"]
<1>2. r \in Row /\ r.stage = row[o].stage /\ r.result = row[o].result /\ r.settled = row[o].settled
  BY <1>1 DEF IInv, TypeOK, Row
<1>3. row' = [row EXCEPT ![o] = r]
  BY DEF Mark
<1> HIDE DEF r
<1>4. /\ row' \in [Operations -> Row]
      /\ \A p \in Operations : /\ row'[p].stage = row[p].stage /\ row'[p].result = row[p].result
                               /\ row'[p].settled = row[p].settled
  BY <1>1, <1>2, <1>3 DEF IInv, TypeOK
<1> QED
  BY <1>1, <1>4, LeavePreserves DEF Mark, IInv, TypeOK

LEMMA EnterPreserves == ASSUME IInv, NEW w \in Threads, Enter(w) PROVE IInv'
<1> DEFINE o == th[w].op
           t == [th[w] EXCEPT !.pc = "calling"]
<1>1. /\ o \in Operations /\ th[w].pc = "call" /\ row[o].stage = "started" /\ entered[o] = 0
      /\ row[o].result = None
  BY DEF Enter, At, IInv, Holding, Holds, Reliance, Relies, Rows, Free
<1>2. t \in Thread /\ t.op = o /\ t.back = th[w].back /\ t.todo = th[w].todo /\ t.pc = "calling"
  BY DEF IInv, TypeOK, Thread
<1>3. th' = [th EXCEPT ![w] = t]
  BY DEF Enter, Goto
<1> HIDE DEF t
<1>4. /\ th' \in [Threads -> Thread] /\ Holding' /\ Exclusive'
      /\ th'[w] = t /\ \A x \in Threads \ {w} : th'[x] = th[x]
      /\ th'[Editor].todo = th[Editor].todo
  BY <1>1, <1>2, <1>3, GoesOn DEF Free, Own
<1>5. entered' \in [Operations -> Nat] /\ entered'[o] = 1
      /\ \A p \in Operations \ {o} : entered'[p] = entered[p]
  BY <1>1 DEF Enter, IInv, TypeOK
<1>6. TypeOK' /\ Rows' /\ SettledRecorded' /\ Relies(w)'
  BY <1>1, <1>2, <1>4, <1>5 DEF Enter, IInv, TypeOK, Rows, SettledRecorded, Relies
<1>7. Repairs'
  BY <1>4 DEF Enter, IInv, TypeOK, Thread, Threads, Repairs
<1>8. ASSUME NEW x \in Threads, x # w PROVE Relies(x)'
  BY <1>1, <1>4, <1>5, <1>8, OwnerWrites DEF Enter, Own
<1> QED
  BY <1>4, <1>6, <1>7, <1>8 DEF IInv, Reliance

LEMMA ProviderRaisesPreserves == ASSUME IInv, NEW w \in Threads, ProviderRaises(w) PROVE IInv'
<1> DEFINE o == th[w].op
           t == [th[w] EXCEPT !.pc = "project", !.note = "uncertain"]
           r == [row[o] EXCEPT !.stage = "uncertain"]
<1>1. /\ o \in Operations /\ th[w].pc = "calling" /\ row[o].stage = "started" /\ row[o].result = None
  BY DEF ProviderRaises, At, IInv, Holding, Holds, Reliance, Relies, Rows, Free
<1>2. t \in Thread /\ t.op = o /\ t.back = th[w].back /\ t.todo = th[w].todo /\ t.pc = "project"
      /\ t.note = "uncertain"
  BY DEF IInv, TypeOK, Thread, Notes
<1>3. r \in Row /\ r.stage = "uncertain" /\ r.settled = row[o].settled /\ r.result = None
  BY <1>1 DEF IInv, TypeOK, Row, Stages
<1>4. th' = [th EXCEPT ![w] = t] /\ row' = [row EXCEPT ![o] = r]
  BY DEF ProviderRaises, Projecting, IInv, TypeOK, Thread
<1> HIDE DEF t, r
<1>5. Relies(w)'
  BY <1>1, <1>2, <1>3, <1>4 DEF IInv, TypeOK, Relies
<1> QED
  BY <1>1, <1>2, <1>3, <1>4, <1>5, OwnerPreserves DEF ProviderRaises, Free, Own

\* A thread takes an operation up, or reads a list of them.
LEMMA TakePreserves ==
    ASSUME IInv, NEW w \in Threads, NEW t \in Thread, th' = [th EXCEPT ![w] = t], Holds(w, t),
           w \in Lanes /\ t.back = "idle" /\ t.op # None =>
              \A x \in Lanes \ {w} : th[x].back = "idle" => th[x].op # t.op,
           w = Editor => \A n \in t.todo : row[n[1]].stage \in {"uncertain", "completed"},
           row' \in [Operations -> Row],
           \A o \in Operations : row[o].stage \in {"uncertain", "completed"} =>
                                    row'[o].stage \in {"uncertain", "completed"},
           Rows', SettledRecorded', Relies(w)', \A x \in Threads \ {w} : Relies(x)',
           UNCHANGED <<run, published, entered, faults>>
    PROVE  IInv'
<1>1. /\ th' \in [Threads -> Thread] /\ th'[w] = t /\ \A x \in Threads \ {w} : th'[x] = th[x]
  BY DEF IInv, TypeOK
<1>2. TypeOK' /\ Holding'
  BY <1>1 DEF IInv, TypeOK, Holding, Holds
<1>3. Exclusive'
  BY <1>1 DEF IInv, Exclusive, Threads
<1>4. Repairs'
  <2>1. Editor \in Threads /\ \A n \in th'[Editor].todo : n[1] \in Operations
    BY <1>2 DEF TypeOK, Thread, Threads
  <2>2. \A n \in th'[Editor].todo : row[n[1]].stage \in {"uncertain", "completed"}
    BY <1>1, <2>1 DEF IInv, Repairs
  <2> QED
    BY <2>1, <2>2 DEF Repairs
<1> QED
  BY <1>2, <1>3, <1>4 DEF IInv, Reliance

\* The same when no row changes.
LEMMA TakesUp ==
    ASSUME IInv, NEW w \in Threads, NEW t \in Thread, th' = [th EXCEPT ![w] = t], Holds(w, t),
           w \in Lanes /\ t.back = "idle" /\ t.op # None =>
              \A x \in Lanes \ {w} : th[x].back = "idle" => th[x].op # t.op,
           w = Editor => \A n \in t.todo : row[n[1]].stage \in {"uncertain", "completed"},
           Relies(w)', UNCHANGED <<row, run, published, entered, faults>>
    PROVE  IInv'
<1>1. \A x \in Threads \ {w} : th'[x] = th[x]
  BY DEF IInv, TypeOK
<1>2. \A x \in Threads \ {w} : Relies(x)'
  BY <1>1, OthersKeep
<1>3. row' \in [Operations -> Row] /\ Rows' /\ SettledRecorded'
  BY DEF IInv, TypeOK, Rows, SettledRecorded
<1> QED
  BY <1>2, <1>3, TakePreserves

-----------------------------------------------------------------------------
(* A lane. *)

LEMMA LanePollPreserves == ASSUME IInv, NEW w \in Lanes, LanePoll(w) PROVE IInv'
<1> DEFINE t == [th[w] EXCEPT !.pc = "recover", !.todo = Pending]
<1>0. w \in Threads /\ w # Editor /\ th[w].pc = "idle" /\ th[w].op = None
  BY DeferredConstants DEF Threads, LanePoll, At, IInv, Holding, Holds, Free
<1>1. \A n \in Pending : n \in Operations \X Notes /\ n[1] \in Traces
  BY DEF Pending, Notice, Notes, Traces
<1>2. t \in Thread /\ t.pc = "recover" /\ t.op = None /\ t.todo = Pending
  BY <1>0, <1>1 DEF IInv, TypeOK, Thread
<1>3. th' = [th EXCEPT ![w] = t] /\ th'[w] = t
  BY <1>0 DEF LanePoll, IInv, TypeOK
<1> HIDE DEF t
<1>4. Holds(w, t)
  BY <1>1, <1>2 DEF Holds, Free, Own
<1>5. Relies(w)'
  BY <1>2, <1>3 DEF Relies
<1> QED
  BY <1>0, <1>2, <1>3, <1>4, <1>5, TakesUp DEF LanePoll

LEMMA RecoverPreserves == ASSUME IInv, NEW w \in Lanes, Recover(w) PROVE IInv'
<1>0. w \in Threads /\ w # Editor /\ th[w].pc = "recover" /\ th[w].op = None
  BY DeferredConstants DEF Threads, Recover, At, IInv, Holding, Holds, Free
<1>1. \A n \in th[w].todo : n \in Operations \X Notes /\ n[1] \in Traces
  BY <1>0 DEF IInv, TypeOK, Thread, Holding, Holds
<1>2. CASE th[w].todo = {}
  <2> DEFINE t == [th[w] EXCEPT !.pc = "select", !.back = "idle"]
  <2>1. t \in Thread /\ t.pc = "select" /\ t.op = None /\ t.back = "idle" /\ t.todo = {}
    BY <1>0, <1>2 DEF IInv, TypeOK, Thread
  <2>2. th' = [th EXCEPT ![w] = t] /\ th'[w] = t
    BY <1>0, <1>2 DEF Recover, IInv, TypeOK
  <2> HIDE DEF t
  <2>3. Holds(w, t) /\ Relies(w)'
    BY <2>1, <2>2 DEF Holds, Relies, Free, Own
  <2> QED
    BY <1>0, <2>1, <2>2, <2>3, TakesUp DEF Recover
<1>3. ASSUME NEW n \in th[w].todo,
             th' = [th EXCEPT ![w] = [pc |-> "publish", op |-> n[1], note |-> n[2],
                                      todo |-> @.todo \ {n}, back |-> "recover"]]
      PROVE  IInv'
  <2> DEFINE t == [pc |-> "publish", op |-> n[1], note |-> n[2],
                   todo |-> th[w].todo \ {n}, back |-> "recover"]
  <2>1. /\ t \in Thread /\ t.pc = "publish" /\ t.op = n[1] /\ t.note \in Notes
        /\ t.back = "recover" /\ t.todo \subseteq th[w].todo
    BY <1>0, <1>1 DEF IInv, TypeOK, Thread
  <2>2. th' = [th EXCEPT ![w] = t] /\ th'[w] = t
    BY <1>0, <1>3 DEF IInv, TypeOK
  <2> HIDE DEF t
  <2>3. Holds(w, t) /\ Relies(w)'
    BY <1>1, <2>1, <2>2 DEF Holds, Relies, Free, Own, Traces
  <2> QED
    BY <1>0, <2>1, <2>2, <2>3, TakesUp DEF Recover
<1> QED
  BY <1>2, <1>3 DEF Recover

LEMMA LaneSelectPreserves == ASSUME IInv, NEW w \in Lanes, LaneSelect(w) PROVE IInv'
<1>0. w \in Threads /\ w # Editor /\ th[w].pc \in {"select", "idle"} /\ th[w].back = "idle"
  BY DeferredConstants DEF Threads, LaneSelect, At, IInv, Holding, Holds
<1>1. CASE Leave(w)
  BY <1>0, <1>1, LeavePreserves DEF LaneSelect, IInv, TypeOK
<1>2. ASSUME NEW o \in Traces, LaneReady(o), th' = [th EXCEPT ![w].pc = "taken", ![w].op = o]
      PROVE  IInv'
  <2> DEFINE t == [th[w] EXCEPT !.pc = "taken", !.op = o]
  <2>1. t \in Thread /\ t.pc = "taken" /\ t.op = o /\ t.back = "idle" /\ t.todo = th[w].todo
    BY <1>0 DEF IInv, TypeOK, Thread, Traces
  <2>2. th' = [th EXCEPT ![w] = t] /\ th'[w] = t
    BY <1>0, <1>2 DEF IInv, TypeOK
  <2> HIDE DEF t
  <2>3. Holds(w, t)
    BY <1>0, <2>1 DEF IInv, Holding, Holds, Free, Own, Traces
  <2>4. Relies(w)'
    BY <2>1, <2>2 DEF Relies
  <2>5. \A x \in Lanes \ {w} : th[x].back = "idle" => th[x].op # t.op
    BY <1>2, <2>1 DEF LaneReady, Active
  <2> QED
    BY <1>0, <2>1, <2>2, <2>3, <2>4, <2>5, TakesUp DEF LaneSelect
<1> QED
  BY <1>1, <1>2 DEF LaneSelect, First

\* What the steps under the Run's lock do: the thread goes on to finish the
\* operation, to project its uncertainty or to the call.
LEMMA FinishingGoesOn ==
    ASSUME IInv, NEW w \in Threads, th[w].pc \in Own, Finishing(w, th[w].op)
    PROVE  \E t \in Thread : /\ th' = [th EXCEPT ![w] = t] /\ th'[w] = t
                             /\ t.pc = "finish" /\ t.note = "final" /\ t.op = th[w].op
                             /\ t.back = th[w].back /\ t.todo = th[w].todo
<1> DEFINE t == [th[w] EXCEPT !.pc = "finish", !.note = "final"]
<1>1. t \in Thread /\ t.pc = "finish" /\ t.note = "final" /\ t.op = th[w].op
      /\ t.back = th[w].back /\ t.todo = th[w].todo
  BY DEF IInv, TypeOK, Thread, Notes
<1>2. th' = [th EXCEPT ![w] = t] /\ th'[w] = t
  BY DEF Finishing, IInv, TypeOK, Thread
<1> QED
  BY <1>1, <1>2

LEMMA ProjectingGoesOn ==
    ASSUME IInv, NEW w \in Threads, th[w].pc \in Own, Projecting(w, th[w].op)
    PROVE  \E t \in Thread : /\ th' = [th EXCEPT ![w] = t] /\ th'[w] = t
                             /\ t.pc = "project" /\ t.note = "uncertain" /\ t.op = th[w].op
                             /\ t.back = th[w].back /\ t.todo = th[w].todo
<1> DEFINE t == [th[w] EXCEPT !.pc = "project", !.note = "uncertain"]
<1>1. t \in Thread /\ t.pc = "project" /\ t.note = "uncertain" /\ t.op = th[w].op
      /\ t.back = th[w].back /\ t.todo = th[w].todo
  BY DEF IInv, TypeOK, Thread, Notes
<1>2. th' = [th EXCEPT ![w] = t] /\ th'[w] = t
  BY DEF Projecting, IInv, TypeOK, Thread
<1> QED
  BY <1>1, <1>2

\* An owner stores a result and finishes.
LEMMA StoresPreserves ==
    ASSUME IInv, NEW w \in Threads, th[w].pc \in Own, row[th[w].op].result = None,
           NEW result \in Results, Finishing(w, th[w].op),
           Stored(th[w].op, result), UNCHANGED <<run, published, entered, faults>>
    PROVE  IInv'
<1> DEFINE o == th[w].op
           r == [row[o] EXCEPT !.result = result, !.stage = "completed"]
<1>1. o \in Operations
  BY DEF IInv, Holding, Holds, Own, Free
<1>2. r \in Row /\ r.stage = "completed" /\ r.settled = row[o].settled /\ r.result = result
  BY <1>1 DEF IInv, TypeOK, Row, Stages
<1>3. row' = [row EXCEPT ![o] = r] /\ row'[o] = r
  BY <1>1 DEF Stored, IInv, TypeOK, Row
<1> HIDE DEF r
<1>4. PICK t \in Thread : /\ th' = [th EXCEPT ![w] = t] /\ th'[w] = t
                         /\ t.pc = "finish" /\ t.note = "final" /\ t.op = th[w].op
                         /\ t.back = th[w].back /\ t.todo = th[w].todo
  BY FinishingGoesOn
<1>5. result # None /\ r.result # None
  BY <1>2, DeferredConstants
<1>6. Relies(w)'
  BY <1>1, <1>3, <1>4, <1>5 DEF Relies, Notes
<1> QED
  BY <1>1, <1>2, <1>3, <1>4, <1>5, <1>6, OwnerPreserves DEF Free

\* An owner finds its operation uncertain and projects it.
LEMMA DoubtsPreserves ==
    ASSUME IInv, NEW w \in Threads, th[w].pc \in Own, row[th[w].op].result = None,
           NEW r \in Row, r.stage = "uncertain", r.result = None,
           r.settled = row[th[w].op].settled, row' = [row EXCEPT ![th[w].op] = r],
           Projecting(w, th[w].op), UNCHANGED <<run, published, entered, faults>>
    PROVE  IInv'
<1> DEFINE o == th[w].op
<1>1. o \in Operations
  BY DEF IInv, Holding, Holds, Own, Free
<1>2. row'[o] = r
  BY <1>1 DEF IInv, TypeOK
<1>3. PICK t \in Thread : /\ th' = [th EXCEPT ![w] = t] /\ th'[w] = t
                         /\ t.pc = "project" /\ t.note = "uncertain" /\ t.op = th[w].op
                         /\ t.back = th[w].back /\ t.todo = th[w].todo
  BY ProjectingGoesOn
<1>4. Relies(w)'
  BY <1>1, <1>2, <1>3 DEF Relies
<1> QED
  BY <1>1, <1>2, <1>3, <1>4, OwnerPreserves DEF Free

\* The start is committed before the call.
LEMMA StartsPreserves ==
    ASSUME IInv, NEW w \in Threads, th[w].pc \in Own, row[th[w].op].stage = "queued",
           row' = [row EXCEPT ![th[w].op].stage = "started"], Goto(w, "call"),
           UNCHANGED <<run, published, entered, faults>>
    PROVE  IInv'
<1> DEFINE o == th[w].op
           r == [row[o] EXCEPT !.stage = "started"]
           t == [th[w] EXCEPT !.pc = "call"]
<1>1. o \in Operations /\ row[o].result = None /\ entered[o] = 0
  BY DEF IInv, Holding, Holds, Rows, Own, Free
<1>2. r \in Row /\ r.stage = "started" /\ r.settled = row[o].settled /\ r.result = None
  BY <1>1 DEF IInv, TypeOK, Row, Stages
<1>3. row' = [row EXCEPT ![o] = r] /\ row'[o] = r
  BY <1>1 DEF IInv, TypeOK
<1>4. t \in Thread /\ t.op = o /\ t.back = th[w].back /\ t.todo = th[w].todo /\ t.pc = "call"
  BY DEF IInv, TypeOK, Thread
<1>5. th' = [th EXCEPT ![w] = t] /\ th'[w] = t
  BY DEF Goto, IInv, TypeOK
<1> HIDE DEF r, t
<1>6. Relies(w)'
  BY <1>1, <1>2, <1>3, <1>4, <1>5 DEF Relies
<1> QED
  BY <1>1, <1>2, <1>3, <1>4, <1>5, <1>6, OwnerPreserves DEF Free, Own

\* The result is there already.
LEMMA ResumesPreserves ==
    ASSUME IInv, NEW w \in Threads, th[w].pc \in Own, row[th[w].op].result # None,
           Finishing(w, th[w].op), UNCHANGED <<row, run, published, entered, faults>>
    PROVE  IInv'
<1>1. PICK t \in Thread : /\ th' = [th EXCEPT ![w] = t] /\ th'[w] = t
                         /\ t.pc = "finish" /\ t.note = "final" /\ t.op = th[w].op
                         /\ t.back = th[w].back /\ t.todo = th[w].todo
  BY FinishingGoesOn
<1>2. Relies(w)'
  BY <1>1 DEF Relies, Notes
<1> QED
  BY <1>1, <1>2, GoOnPreserves DEF IInv, TypeOK, Free, Own

LEMMA LaneBeginPreserves == ASSUME IInv, NEW w \in Lanes, LaneBegin(w) PROVE IInv'
<1> DEFINE o == th[w].op
<1>1. w \in Threads /\ th[w].pc \in Own /\ o \in Operations
  BY DEF Threads, LaneBegin, At, IInv, Holding, Holds, Own, Free
<1>2. UNCHANGED <<run, published, entered, faults>>
  BY DEF LaneBegin
<1>3. row[o].stage = "queued" => row[o].result = None
  BY <1>1 DEF IInv, Rows
<1>4. CASE row[o].result # None /\ Finishing(w, o) /\ UNCHANGED row
  BY <1>1, <1>2, <1>4, ResumesPreserves
<1>5. ASSUME row[o].result = None, Finishing(w, o),
             Stored(o, "succeeded") \/ Stored(o, "no_effect")
      PROVE  IInv'
  BY <1>1, <1>2, <1>5, StoresPreserves DEF Results
<1>6. CASE /\ row[o].result = None /\ Projecting(w, o)
           /\ \/ row' = [row EXCEPT ![o].invalid = TRUE, ![o].stage = "uncertain"]
              \/ row' = [row EXCEPT ![o].stage = "uncertain"]
  <2> DEFINE r == row'[o]
  <2>1. r \in Row /\ r.stage = "uncertain" /\ r.result = None /\ r.settled = row[o].settled
    <3>1. row[o] \in Row
      BY <1>1 DEF IInv, TypeOK
    <3>2. r = [row[o] EXCEPT !.invalid = TRUE, !.stage = "uncertain"]
          \/ r = [row[o] EXCEPT !.stage = "uncertain"]
      BY <1>1, <1>6 DEF IInv, TypeOK
    <3> HIDE DEF r
    <3> QED
      BY <1>6, <3>1, <3>2 DEF Row, Stages
  <2>2. row' = [row EXCEPT ![o] = r]
    BY <1>1, <1>6 DEF IInv, TypeOK
  <2> HIDE DEF r
  <2> QED
    BY <1>1, <1>2, <1>6, <2>1, <2>2, DoubtsPreserves
<1>7. CASE /\ row[o].stage = "queued"
           /\ row' = [row EXCEPT ![o].stage = "started"] /\ Goto(w, "call")
  BY <1>1, <1>2, <1>7, StartsPreserves
<1> QED
  BY <1>3, <1>4, <1>5, <1>6, <1>7 DEF LaneBegin

LEMMA CheckpointPreserves == ASSUME IInv, NEW w \in Lanes, Checkpoint(w) PROVE IInv'
<1> DEFINE o == th[w].op
           r == [row[o] EXCEPT !.proof = TRUE]
           t == th[w]
<1>1. w \in Threads /\ th[w].pc = "calling" /\ o \in Operations /\ t \in Thread
  BY DEF Threads, Checkpoint, At, IInv, TypeOK, Holding, Holds, Free
<1>2. r \in Row /\ r.stage = row[o].stage /\ r.settled = row[o].settled /\ r.result = row[o].result
  BY <1>1 DEF IInv, TypeOK, Row
<1>3. row' = [row EXCEPT ![o] = r]
  BY <1>1 DEF Checkpoint
<1> HIDE DEF r
<1>4. /\ row' \in [Operations -> Row]
      /\ \A p \in Operations : /\ row'[p].stage = row[p].stage /\ row'[p].result = row[p].result
                               /\ row'[p].settled = row[p].settled
  BY <1>1, <1>2, <1>3 DEF IInv, TypeOK
<1>5. th' = [th EXCEPT ![w] = t] /\ th'[w] = t
  BY <1>1 DEF Checkpoint, IInv, TypeOK
<1>6. Relies(w)'
  BY <1>1, <1>4, <1>5 DEF IInv, Reliance, Relies
<1> QED
  BY <1>1, <1>4, <1>5, <1>6, GoOnPreserves DEF Checkpoint, IInv, TypeOK, Free, Own

LEMMA LaneReturnsPreserves == ASSUME IInv, NEW w \in Lanes, LaneReturns(w) PROVE IInv'
<1> DEFINE o == th[w].op
           r == [row[o] EXCEPT !.stage = "generated", !.proof = TRUE]
           t == [th[w] EXCEPT !.pc = "ingest"]
<1>1. w \in Threads /\ th[w].pc = "calling" /\ o \in Operations /\ row[o].stage = "started"
      /\ row[o].result = None
  BY DEF Threads, LaneReturns, At, IInv, TypeOK, Holding, Holds, Reliance, Relies, Rows, Free
<1>2. r \in Row /\ r.stage = "generated" /\ r.settled = row[o].settled /\ r.result = None
  BY <1>1 DEF IInv, TypeOK, Row, Stages
<1>3. row' = [row EXCEPT ![o] = r] /\ row'[o] = r
  BY <1>1 DEF LaneReturns, IInv, TypeOK
<1>4. t \in Thread /\ t.op = o /\ t.back = th[w].back /\ t.todo = th[w].todo /\ t.pc = "ingest"
  BY <1>1 DEF IInv, TypeOK, Thread
<1>5. th' = [th EXCEPT ![w] = t] /\ th'[w] = t
  BY <1>1 DEF LaneReturns, Goto, IInv, TypeOK
<1> HIDE DEF r, t
<1>6. Relies(w)'
  BY <1>1, <1>2, <1>3, <1>4, <1>5 DEF Relies
<1> QED
  BY <1>1, <1>2, <1>3, <1>4, <1>5, <1>6, OwnerPreserves DEF LaneReturns, Free, Own

LEMMA IngestPreserves == ASSUME IInv, NEW w \in Lanes, Ingest(w) PROVE IInv'
<1> DEFINE o == th[w].op
<1>1. w \in Threads /\ th[w].pc = "ingest" /\ o \in Operations /\ row[o].result = None
  BY DEF Threads, Ingest, At, IInv, Holding, Holds, Reliance, Relies, Rows, Free
<1>2. PICK result \in Verdicts : Stored(o, result)
  BY DEF Ingest
<1>3. result \in Results
  BY DeferredConstants DEF Results
<1> QED
  BY <1>1, <1>2, <1>3, StoresPreserves DEF Ingest, Own

-----------------------------------------------------------------------------
(* The editor and the reviewer. *)

LEMMA EditorPollPreserves == ASSUME IInv, EditorPoll PROVE IInv'
<1> DEFINE todo == {<<o, IF row[o].told THEN "final" ELSE "uncertain">> : o \in Uncertain}
           t == [th[Editor] EXCEPT !.pc = "repair", !.back = "repair", !.todo = todo]
<1>0. /\ Editor \in Threads /\ Editor \notin Lanes /\ th[Editor].pc = "idle"
      /\ th[Editor].op = None /\ Images \subseteq Operations
  BY DeferredConstants DEF Threads, EditorPoll, At, IInv, Holding, Holds, Free
<1>1. \A n \in todo : /\ n \in Operations \X Notes /\ n[1] \notin Traces
                       /\ row[n[1]].stage \in {"uncertain", "completed"}
  BY <1>0 DEF Uncertain, Unsettled, Notes, Traces
<1> HIDE DEF todo
<1>2. t \in Thread /\ t.pc = "repair" /\ t.op = None /\ t.todo = todo
  BY <1>0, <1>1 DEF IInv, TypeOK, Thread
<1>3. th' = [th EXCEPT ![Editor] = t] /\ th'[Editor] = t
  BY <1>0 DEF EditorPoll, IInv, TypeOK, todo
<1> HIDE DEF t
<1>4. Holds(Editor, t) /\ Relies(Editor)'
  BY <1>0, <1>1, <1>2, <1>3 DEF Holds, Relies, Free, Own
<1> QED
  BY <1>0, <1>1, <1>2, <1>3, <1>4, TakesUp DEF EditorPoll

\* A result that the Run has, or that a reviewer gives an uncertain edit,
\* completes the row; nobody relies on what the row held.
LEMMA Completes ==
    ASSUME IInv, NEW w \in Threads, NEW o \in Operations, NEW result \in Results,
           Stored(o, result), row[o].stage \in {"uncertain", "completed"},
           row[o].result # None => run[o].recorded = result, UNCHANGED <<run, entered>>,
           \A x \in Threads \ {w} : th'[x] = th[x]
    PROVE  /\ row' \in [Operations -> Row] /\ Rows' /\ SettledRecorded'
           /\ \A p \in Operations : row[p].stage \in {"uncertain", "completed"} =>
                                     row'[p].stage \in {"uncertain", "completed"}
           /\ row'[o].result = result /\ result # None
           /\ \A x \in Threads \ {w} : Relies(x)'
<1>1. /\ row' \in [Operations -> Row] /\ row'[o].stage = "completed"
      /\ row'[o].result = result /\ row'[o].settled = row[o].settled
      /\ \A p \in Operations \ {o} : row'[p] = row[p]
  <2> DEFINE r == [row[o] EXCEPT !.result = result, !.stage = "completed"]
  <2>1. r \in Row /\ r.stage = "completed" /\ r.settled = row[o].settled /\ r.result = result
    BY DEF IInv, TypeOK, Row, Stages
  <2>2. row' = [row EXCEPT ![o] = r]
    BY DEF Stored, IInv, TypeOK, Row
  <2> HIDE DEF r
  <2> QED
    BY <2>1, <2>2 DEF IInv, TypeOK
<1>2. result # None
  BY DeferredConstants
<1>3. Rows' /\ SettledRecorded'
  BY <1>1, <1>2 DEF IInv, Rows, SettledRecorded
<1>4. ASSUME NEW x \in Threads \ {w} PROVE Relies(x)'
  <2>1. Relies(x) /\ (th[x].pc \notin Free => th[x].op \in Operations)
    BY DEF IInv, Reliance, Holding, Holds
  <2>2. CASE th[x].op # o
    BY <1>1, <2>1, <2>2 DEF Relies, Free
  <2>3. CASE th[x].op = o
    BY <1>1, <1>2, <2>1, <2>3 DEF Relies, IInv, Rows
  <2> QED
    BY <2>2, <2>3
<1> QED
  BY <1>1, <1>2, <1>3, <1>4

LEMMA RepairPreserves == ASSUME IInv, Repair PROVE IInv'
<1>0. /\ Editor \in Threads /\ Editor \notin Lanes /\ th[Editor].pc = "repair"
      /\ th[Editor].op = None /\ UNCHANGED <<run, published, entered, faults>>
  BY DeferredConstants DEF Threads, Repair, At, IInv, Holding, Holds, Free
<1>1. \A n \in th[Editor].todo : /\ n \in Operations \X Notes /\ n[1] \notin Traces
                                  /\ row[n[1]].stage \in {"uncertain", "completed"}
  BY <1>0 DEF IInv, TypeOK, Thread, Holding, Holds, Repairs
<1>2. CASE /\ th' = [th EXCEPT ![Editor].pc = "select", ![Editor].back = "idle"]
           /\ UNCHANGED row /\ th[Editor].todo = {}
  <2> DEFINE t == [th[Editor] EXCEPT !.pc = "select", !.back = "idle"]
  <2>1. t \in Thread /\ t.pc = "select" /\ t.op = None /\ t.back = "idle" /\ t.todo = {}
    BY <1>0, <1>2 DEF IInv, TypeOK, Thread
  <2>2. th' = [th EXCEPT ![Editor] = t] /\ th'[Editor] = t
    BY <1>0, <1>2 DEF IInv, TypeOK
  <2> HIDE DEF t
  <2>3. Holds(Editor, t) /\ Relies(Editor)'
    BY <2>1, <2>2 DEF Holds, Relies, Free, Own
  <2> QED
    BY <1>0, <1>2, <2>1, <2>2, <2>3, TakesUp
<1>3. ASSUME NEW n \in th[Editor].todo, NEW t \in Thread, th' = [th EXCEPT ![Editor] = t],
             t.pc \in {"repair", "project", "finish"}, t.op = IF t.pc = "repair" THEN None ELSE n[1],
             t.back = "repair", t.todo = th[Editor].todo \ {n}
      PROVE  /\ th'[Editor] = t /\ \A x \in Threads \ {Editor} : th'[x] = th[x]
             /\ Holds(Editor, t) /\ \A m \in t.todo : row[m[1]].stage \in {"uncertain", "completed"}
  <2>1. th'[Editor] = t /\ \A x \in Threads \ {Editor} : th'[x] = th[x]
    BY <1>0, <1>3 DEF IInv, TypeOK
  <2>2. Holds(Editor, t)
    BY <1>0, <1>1, <1>3 DEF Holds, Free, Own, Traces
  <2> QED
    BY <1>1, <1>3, <2>1, <2>2
<1>4. ASSUME NEW n \in th[Editor].todo, run[n[1]].recorded # None,
             Stored(n[1], run[n[1]].recorded),
             th' = [th EXCEPT ![Editor] =
                      [pc |-> "finish", note |-> "final", op |-> n[1],
                       todo |-> @.todo \ {n}, back |-> "repair"]]
      PROVE  IInv'
  <2> DEFINE t == [pc |-> "finish", note |-> "final", op |-> n[1],
                   todo |-> th[Editor].todo \ {n}, back |-> "repair"]
  <2>1. /\ t \in Thread /\ t.pc = "finish" /\ t.op = n[1] /\ t.note = "final"
        /\ t.back = "repair" /\ t.todo = th[Editor].todo \ {n}
    BY <1>0, <1>1 DEF IInv, TypeOK, Thread, Notes
  <2>2. th' = [th EXCEPT ![Editor] = t]
    BY <1>4
  <2> HIDE DEF t
  <2>3. /\ th'[Editor] = t /\ \A x \in Threads \ {Editor} : th'[x] = th[x]
        /\ Holds(Editor, t) /\ \A m \in t.todo : row[m[1]].stage \in {"uncertain", "completed"}
    BY <1>3, <2>1, <2>2
  <2>4. n[1] \in Operations /\ run[n[1]].recorded \in Results
    BY <1>1, <1>4 DEF IInv, TypeOK, Run
  <2>5. /\ row' \in [Operations -> Row] /\ Rows' /\ SettledRecorded'
        /\ \A p \in Operations : row[p].stage \in {"uncertain", "completed"} =>
                                  row'[p].stage \in {"uncertain", "completed"}
        /\ row'[n[1]].result # None
        /\ \A x \in Threads \ {Editor} : Relies(x)'
    BY <1>0, <1>1, <1>4, <2>3, <2>4, Completes
  <2>6. Relies(Editor)'
    BY <2>1, <2>3, <2>5 DEF Relies, Notes
  <2> QED
    BY <1>0, <2>1, <2>2, <2>3, <2>5, <2>6, TakePreserves
<1>5. ASSUME NEW n \in th[Editor].todo, UNCHANGED row,
             NEW place \in {"repair", "project"}, NEW note \in {"uncertain", None},
             place = "project" => note = "uncertain",
             th' = [th EXCEPT ![Editor] =
                      [pc |-> place, note |-> note, op |-> IF place = "repair" THEN None ELSE n[1],
                       todo |-> @.todo \ {n}, back |-> "repair"]]
      PROVE  IInv'
  <2> DEFINE t == [pc |-> place, note |-> note, op |-> IF place = "repair" THEN None ELSE n[1],
                   todo |-> th[Editor].todo \ {n}, back |-> "repair"]
  <2>1. /\ t \in Thread /\ t.pc = place /\ t.op = (IF place = "repair" THEN None ELSE n[1])
        /\ t.note = note /\ t.back = "repair" /\ t.todo = th[Editor].todo \ {n}
    BY <1>0, <1>1 DEF IInv, TypeOK, Thread, Notes
  <2>2. th' = [th EXCEPT ![Editor] = t]
    BY <1>5
  <2> HIDE DEF t
  <2>3. /\ th'[Editor] = t
        /\ Holds(Editor, t) /\ \A m \in t.todo : row[m[1]].stage \in {"uncertain", "completed"}
    BY <1>3, <2>1, <2>2
  <2>4. Relies(Editor)'
    BY <1>1, <1>5, <2>1, <2>3 DEF Relies
  <2> QED
    BY <1>0, <1>5, <2>1, <2>2, <2>3, <2>4, TakesUp
<1> QED
  BY <1>2, <1>4, <1>5 DEF Repair

LEMMA EditorSelectPreserves == ASSUME IInv, EditorSelect PROVE IInv'
<1>0. /\ Editor \in Threads /\ Editor \notin Lanes /\ th[Editor].pc \in {"select", "idle"}
      /\ th[Editor].back = "idle" /\ Images \subseteq Operations
  BY DeferredConstants DEF Threads, EditorSelect, At, IInv, Holding, Holds
<1>1. CASE Leave(Editor)
  BY <1>0, <1>1, LeavePreserves DEF EditorSelect, IInv, TypeOK
<1>2. ASSUME NEW o \in Images, th' = [th EXCEPT ![Editor].pc = "taken", ![Editor].op = o]
      PROVE  IInv'
  <2> DEFINE t == [th[Editor] EXCEPT !.pc = "taken", !.op = o]
  <2>1. t \in Thread /\ t.pc = "taken" /\ t.op = o /\ t.back = "idle" /\ t.todo = th[Editor].todo
    BY <1>0 DEF IInv, TypeOK, Thread
  <2>2. th' = [th EXCEPT ![Editor] = t] /\ th'[Editor] = t
    BY <1>0, <1>2 DEF IInv, TypeOK
  <2> HIDE DEF t
  <2>3. Holds(Editor, t)
    BY <1>0, <2>1 DEF IInv, Holding, Holds, Free, Own, Traces
  <2>4. Relies(Editor)' /\ \A n \in t.todo : row[n[1]].stage \in {"uncertain", "completed"}
    BY <2>1, <2>2 DEF Relies, IInv, Repairs
  <2> QED
    BY <1>0, <2>1, <2>2, <2>3, <2>4, TakesUp DEF EditorSelect
<1> QED
  BY <1>1, <1>2 DEF EditorSelect, First

LEMMA EditorBeginPreserves == ASSUME IInv, EditorBegin PROVE IInv'
<1> DEFINE o == th[Editor].op
           r == [row[o] EXCEPT !.stage = "uncertain"]
<1>1. Editor \in Threads /\ th[Editor].pc \in Own /\ o \in Operations
  BY DEF Threads, EditorBegin, At, IInv, Holding, Holds, Own, Free
<1>2. UNCHANGED <<run, published, entered, faults>>
  BY DEF EditorBegin
<1>3. row[o].stage = "queued" => row[o].result = None
  BY <1>1 DEF IInv, Rows
<1>4. CASE row[o].result # None /\ Finishing(Editor, o) /\ UNCHANGED row
  BY <1>1, <1>2, <1>4, ResumesPreserves
<1>5. CASE row[o].stage = "queued" /\ Stored(o, "no_effect") /\ Finishing(Editor, o)
  BY <1>1, <1>2, <1>3, <1>5, StoresPreserves DEF Results
<1>6. CASE row[o].result = None /\ row' = [row EXCEPT ![o].stage = "uncertain"] /\ Projecting(Editor, o)
  <2>1. r \in Row /\ r.stage = "uncertain" /\ r.result = None /\ r.settled = row[o].settled
    BY <1>1, <1>6 DEF IInv, TypeOK, Row, Stages
  <2>2. row' = [row EXCEPT ![o] = r]
    BY <1>6
  <2> HIDE DEF r
  <2> QED
    BY <1>1, <1>2, <1>6, <2>1, <2>2, DoubtsPreserves
<1>7. CASE /\ row[o].stage = "queued"
           /\ row' = [row EXCEPT ![o].stage = "started"] /\ Goto(Editor, "call")
  BY <1>1, <1>2, <1>7, StartsPreserves
<1> QED
  BY <1>4, <1>5, <1>6, <1>7 DEF EditorBegin

LEMMA EditorReturnsPreserves == ASSUME IInv, EditorReturns PROVE IInv'
<1> DEFINE o == th[Editor].op
<1>1. Editor \in Threads /\ th[Editor].pc = "calling" /\ o \in Operations /\ row[o].result = None
  BY DEF Threads, EditorReturns, At, IInv, Holding, Holds, Reliance, Relies, Rows, Free
<1>2. PICK result \in Verdicts : Stored(o, result)
  BY DEF EditorReturns
<1>3. result \in Results
  BY DeferredConstants DEF Results
<1> QED
  BY <1>1, <1>2, <1>3, StoresPreserves DEF EditorReturns, Own

LEMMA AbandonPreserves == ASSUME IInv, NEW o \in Images, Abandon(o) PROVE IInv'
<1> DEFINE t == [th[Reviewer] EXCEPT !.pc = "finish", !.op = o, !.note = "final"]
<1>0. /\ Reviewer \in Threads /\ Reviewer \notin Lanes /\ Reviewer # Editor
      /\ th[Reviewer].pc = "idle" /\ th[Reviewer].back = "idle" /\ o \in Operations /\ o \notin Traces
      /\ UNCHANGED <<run, published, entered, faults>>
  BY DeferredConstants DEF Threads, Abandon, At, IInv, Holding, Holds, Traces
<1>1. /\ t \in Thread /\ t.pc = "finish" /\ t.op = o /\ t.note = "final" /\ t.back = "idle"
      /\ t.todo = th[Reviewer].todo
  BY <1>0 DEF IInv, TypeOK, Thread, Notes
<1>2. th' = [th EXCEPT ![Reviewer] = t] /\ th'[Reviewer] = t
  BY <1>0 DEF Abandon, Finishing, IInv, TypeOK
<1> HIDE DEF t
<1>3. Holds(Reviewer, t)
  BY <1>0, <1>1 DEF IInv, Holding, Holds, Free, Own
<1>4. CASE row[o].stage = "uncertain" /\ row[o].result = None /\ Stored(o, "abandoned")
  <2>1. \A x \in Threads \ {Reviewer} : th'[x] = th[x]
    BY <1>2 DEF IInv, TypeOK
  <2>2. /\ row' \in [Operations -> Row] /\ Rows' /\ SettledRecorded'
        /\ \A p \in Operations : row[p].stage \in {"uncertain", "completed"} =>
                                  row'[p].stage \in {"uncertain", "completed"}
        /\ row'[o].result # None
        /\ \A x \in Threads \ {Reviewer} : Relies(x)'
    <3>1. "abandoned" \in Results
      BY DEF Results
    <3> QED
      BY <1>0, <1>4, <2>1, <3>1, Completes
  <2>3. Relies(Reviewer)'
    BY <1>1, <1>2, <2>2 DEF Relies, Notes
  <2> QED
    BY <1>0, <1>1, <1>2, <1>3, <2>2, <2>3, TakePreserves
<1>5. CASE row[o].result = "abandoned" /\ UNCHANGED row
  <2>1. Relies(Reviewer)'
    BY <1>1, <1>2, <1>5, DeferredConstants DEF Relies, Notes, Results
  <2> QED
    BY <1>0, <1>1, <1>2, <1>3, <1>5, <2>1, TakesUp
<1> QED
  BY <1>4, <1>5 DEF Abandon

-----------------------------------------------------------------------------
(* Faults, and the theorems. *)

LEMMA RaisesPreserves == ASSUME IInv, NEW w \in Threads, Raises(w) PROVE IInv'
<1>1. Leave(w) /\ UNCHANGED <<row, run, published, entered>>
  BY DEF Raises
<1>2. faults' \in 0..MaxFaults
  BY DeferredConstants DEF Raises, IInv, TypeOK
<1> QED
  BY <1>1, <1>2, LeavePreserves DEF IInv, TypeOK

LEMMA CrashPreserves == ASSUME IInv, Crash PROVE IInv'
<1>1. UNCHANGED <<row, published, entered>> /\ faults' \in 0..MaxFaults
  BY DeferredConstants DEF Crash, IInv, TypeOK
<1>2. \A w \in Threads : th'[w] = Idle
  BY DEF Crash
<1>3. th' \in [Threads -> Thread]
  BY DEF Crash, Idle, Thread
<1>4. /\ run' \in [Operations -> Run]
      /\ \A o \in Operations : /\ run'[o].recorded = run[o].recorded
                               /\ run'[o].state = "awaiting_reconciliation" => run[o].state = run'[o].state
  BY DEF Crash, IInv, TypeOK, Run, RunStates
<1>5. TypeOK' /\ Rows' /\ SettledRecorded'
  BY <1>1, <1>3, <1>4 DEF IInv, TypeOK, Rows, SettledRecorded
<1>6. Holding' /\ Exclusive' /\ Reliance' /\ Repairs'
  BY <1>2 DEF Idle, Holding, Holds, Exclusive, Reliance, Relies, Repairs, Free, Own, Threads
<1> QED
  BY <1>5, <1>6 DEF IInv

LEMMA StutterPreserves == ASSUME IInv, UNCHANGED vars PROVE IInv'
BY DEF vars, IInv, TypeOK, Holding, Exclusive, Rows, Reliance, Relies, Repairs, SettledRecorded

LEMMA ResolvePreserves == ASSUME IInv, NEW w \in Threads, Resolve(w) PROVE IInv'
BY FinishPreserves, SettlePreserves, ProjectPreserves, PublishPreserves, MarkPreserves DEF Resolve

LEMMA NextPreserves == ASSUME IInv, [Next]_vars PROVE IInv'
<1>1. ASSUME NEW o \in Operations, Accept(o) \/ Await(o) \/ Stop(o) PROVE IInv'
  BY <1>1, AcceptPreserves, AwaitPreserves, StopPreserves
<1>2. ASSUME NEW o \in Images, Abandon(o) PROVE IInv'
  BY <1>2, AbandonPreserves
<1>3. ASSUME NEW w \in Lanes, Lane(w) PROVE IInv'
  BY <1>3, LanePollPreserves, RecoverPreserves, LaneSelectPreserves, LaneBeginPreserves,
     EnterPreserves, CheckpointPreserves, LaneReturnsPreserves, ProviderRaisesPreserves,
     IngestPreserves, ResolvePreserves DEF Lane, Threads
<1>4. CASE Edit
  BY <1>4, EditorPollPreserves, RepairPreserves, EditorSelectPreserves, EditorBeginPreserves,
     EnterPreserves, EditorReturnsPreserves, ProviderRaisesPreserves, ResolvePreserves
     DEF Edit, Threads
<1>5. CASE Resolve(Reviewer)
  BY <1>5, ResolvePreserves DEF Threads
<1>6. ASSUME NEW w \in Threads, Raises(w) PROVE IInv'
  BY <1>6, RaisesPreserves
<1> QED
  BY <1>1, <1>2, <1>3, <1>4, <1>5, <1>6, CrashPreserves, StutterPreserves DEF Next

\* The invariant of every step of the lanes, the editor, the reviewer and the
\* service, with crashes and exceptions between any two commits.
THEOREM Invariance == Spec => []IInv
BY InitInv, NextPreserves, PTL DEF Spec

\* Rows, Runs, threads and notices keep their types.
THEOREM TypeCorrect == Spec => []TypeOK
<1>1. IInv => TypeOK
  BY DEF IInv
<1> QED
  BY <1>1, Invariance, PTL

\* The provider is called at most once for an operation, whatever lanes,
\* crashes, recoveries and repairs do; during the call the row stays started.
THEOREM PaidOnce == Spec => []ProviderOnce
<1>1. ASSUME IInv PROVE ProviderOnce
  <2>1. \A o \in Operations : entered[o] <= 1
    BY <1>1 DEF IInv, Rows
  <2>2. ASSUME NEW w \in Threads, th[w].pc = "calling"
        PROVE  /\ row[th[w].op].stage = "started" /\ row[th[w].op].result = None
               /\ run[th[w].op].state # "awaiting_reconciliation"
    BY <1>1, <2>2 DEF IInv, Holding, Holds, Reliance, Relies, Rows, Free
  <2> QED
    BY <2>1, <2>2 DEF ProviderOnce, At
<1> QED
  BY <1>1, Invariance, PTL

\* A settled row is one whose result its Run has recorded.
THEOREM SettledIsRecorded == Spec => []SettledRecorded
<1>1. IInv => SettledRecorded
  BY DEF IInv
<1> QED
  BY <1>1, Invariance, PTL

=============================================================================
