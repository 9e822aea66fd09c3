-------------------------- MODULE MCSlackDialogue ---------------------------
(* A thread of one member with two messages: a request, and what follows it. *)
EXTENDS SlackDialogue

CONSTANT u1

ThreadAuthor == <<u1, u1>>
ThreadTexts == <<{"work"}, {"assent", "new", "work", "stop", "close"}>>
ReplaceTexts == <<{"work"}, {"new"}>>
=============================================================================
