---------------------------- MODULE MCWaitingSink ---------------------------
(***************************************************************************)
(* Instances of WaitingSink for TLC.                                       *)
(***************************************************************************)
EXTENDS WaitingSink, TLC

CONSTANTS s2

WaitingCalls ==
  {[sev |-> 0, method |-> "SendToLog", target |-> NoTarget],
   [sev |-> 0, method |-> "SendToSink", target |-> sink]}
OtherSink == {s2}
=============================================================================
