--------------------------- MODULE LearningCatalog ---------------------------
(***************************************************************************)
(* The catalog of curation: jobs, the batches that collect them, learning  *)
(* admissions, their rounds and counter; what it is made of, and what must *)
(* hold of it.  KnowledgeLearning adds the threads and processes that      *)
(* write to it.                                                            *)
(***************************************************************************)
EXTENDS Naturals, Sequences, FiniteSets

CONSTANTS
    Job,            \* curation jobs, one per ingested event revision
    Learning,       \* those of workspace messages (learning policy)
    Replaces,       \* edits: the job whose source revision an edit supersedes
    Experience,     \* terminal tool receipts of foreground Runs
    SourceOf,       \* the job of the source a receipt is bound to
    Threshold,      \* admissions that seal a round (10)
    BatchLimit      \* receipts a batch holds (20)

Urgent == DOMAIN Replaces
Adm == Learning \cup Experience
JobOf(a) == IF a \in Experience THEN SourceOf[a] ELSE a
Counted(a) == a \notin Urgent

ASSUME CatalogAssumption ==
    /\ Learning \subseteq Job /\ Urgent \subseteq Job
    /\ \A j \in Urgent : Replaces[j] \in Job \ {j}
    /\ Job \cap Experience = {}
    /\ SourceOf \in [Experience -> Learning]
    /\ Threshold \in Nat \ {0} /\ BatchLimit \in Nat \ {0}

VARIABLES
    job,        \* jobs: state and batch
    batches,    \* curation_batches with their items
    adm,        \* learning_admissions
    rounds,     \* learning_rounds, named by the admission that sealed them
    counter     \* learning_counters: turns and receipts

NoBatch == <<>>

JobState == {"none", "queued", "waiting", "parked", "running", "awaiting_answer",
             "completed", "failed", "cancelled"}
Settled == {"awaiting_answer", "completed", "failed", "cancelled"}
Unfinished == {"queued", "running", "waiting", "parked", "awaiting_answer"}
LiveBatch == {"collecting", "ready", "running"}

Ids == DOMAIN batches
Queued(j) == job[j].state = "queued"

\* The source's current revision is a later one.
Superseded(j) == \E e \in Urgent : Replaces[e] = j /\ job[e].state # "none"
------------------------------------------------------------------------------
(* Properties of what KnowledgeLearning does to the catalog.               *)

\* A live batch and its jobs agree: a job that waits or runs for a batch is an
\* item of it, and the batch is collecting or ready, or running.  However
\* batches are cancelled, requeued, reattached and invalidated
\* (repository_batch.py), no event is in two live batches.
BatchOwnsJobs ==
    /\ \A b \in Ids : batches[b].state \in LiveBatch =>
          /\ \A j \in batches[b].items : job[j].batch = b
          /\ \A j \in batches[b].items :
                job[j].state = IF batches[b].state = "running" THEN "running" ELSE "waiting"
          /\ Cardinality(batches[b].items) <= BatchLimit
    /\ \A j \in Job : job[j].state = "waiting" => batches[job[j].batch].state \in {"collecting", "ready"}

\* A decision once recorded for an event stays, and an ended attempt is never
\* reopened: "earlier receipts remain intact" and "the old attempt remains
\* terminal" (docs/architecture/system.md:423,429) through crash recovery,
\* collection again, reattachment and invalidation.
DecisionsKept ==
    [][/\ \A j \in Job : job[j].state \in Settled => job'[j] = job[j]
       /\ \A b \in Ids : batches[b].state \notin LiveBatch => batches'[b] = batches[b]]_<<job, batches>>

\* The counter never falls behind the valid admissions that wait for a round,
\* so that ten of them are always reviewed: an uncounted urgent edit seals
\* only itself and leaves the counter (repository_learning.py:614).
CounterCovers ==
    LET Waiting(A) == {a \in A : adm[a].state = "open" /\ adm[a].valid /\ Counted(a)}
    IN  /\ Cardinality(Waiting(Learning)) <= counter.turns
        /\ Cardinality(Waiting(Experience)) <= counter.receipts
        /\ counter.turns < Threshold /\ counter.receipts < Threshold
=============================================================================
