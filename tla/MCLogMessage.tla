---------------------------- MODULE MCLogMessage ----------------------------
(***************************************************************************)
(* Instances of LogMessage for TLC.                                        *)
(***************************************************************************)
EXTENDS LogMessageProps, TLC

CONSTANTS s1

C(sev, method, target) == [sev |-> sev, method |-> method, target |-> target]
Log(sev) == C(sev, "SendToLog", NoTarget)

\* Every send method below FATAL; severity 0 is below the minimum level.
OrdinaryCalls ==
  {Log(0), C(1, "SendToSinkAndLog", s1), C(2, "SendToSink", s1),
   C(1, "SaveOrSendToLog", Out), C(2, "WriteToStringAndLog", NoTarget)}

\* FATAL messages to a sink and to a vector, which are members of a union.
FatalCalls ==
  {C(FATAL, "SendToSinkAndLog", s1), C(FATAL, "SaveOrSendToLog", Out)}

\* What the refinement tells apart.
SerialCalls ==
  {Log(0), Log(FATAL), C(0, "SendToSinkAndLog", s1)}

OneSink == {s1}
ThreadSymmetry == Permutations(Thread)
=============================================================================
