----------------------------- MODULE MCDriveQueue -----------------------------
(* A small instance of DriveQueue: two processes overlap during a rolling       *)
(* restart, one serving Slack and one serving HTTP, with one Run started in     *)
(* Slack, a Slack message and a web input for it.                                             *)
EXTENDS DriveQueue, TLC

CONSTANTS p1, p2, r1

TwoThreads == {"p.slack", "q.http"}
TwoProcs == ("p.slack" :> p1) @@ ("q.http" :> p2)
TwoChans == ("p.slack" :> "slack") @@ ("q.http" :> "http")
TwoActions == <<"create", "input", "input">>
TwoJobChans == <<"slack", "slack", "http">>
OneRun == <<r1, r1, r1>>
=============================================================================
