------------------------------ MODULE SerialLog ------------------------------
(***************************************************************************)
(* What the logging pipeline promises a program whose threads log through  *)
(* it: the messages are delivered one at a time.  A message reaches at one *)
(* instant every destination that is meant to have it, each as often as it *)
(* should and after all that were delivered before it, and it is delivered *)
(* at most once.  Nothing is said of the text of a message: only of order, *)
(* completeness and uniqueness.                                            *)
(***************************************************************************)
EXTENDS Integers, Sequences

CONSTANTS MsgId, Sink, FATAL, StderrThreshold, LogToStderr

Severity == 0..FATAL
Message == [id : MsgId, sev : Severity]

VARIABLES file,     \* file[i]: the messages in the log file of severity i
          stderr,   \* the messages on stderr
          received, \* received[s]: the messages sink s was sent
          registered, \* registered[s]: how often sink s is registered
          delivered \* the messages that were delivered

vars == <<file, stderr, received, registered, delivered>>

Init ==
  /\ file = [i \in Severity |-> <<>>]
  /\ stderr = <<>>
  /\ received = [s \in Sink |-> <<>>]
  /\ registered = [s \in Sink |-> 0]
  /\ delivered = {}

\* seq with n copies of m appended.
Add(seq, m, n) == seq \o [k \in 1..n |-> m]

\* own is the sink the statement names, if it names one; log says whether the
\* message goes to the logs as well.
Deliver(m, own, log, toFiles) ==
  /\ file' = [i \in Severity |->
                Add(file[i], m, IF log /\ toFiles /\ i <= m.sev THEN 1 ELSE 0)]
  /\ stderr' = Add(stderr, m,
                   IF log /\ (~toFiles \/ m.sev >= StderrThreshold)
                   THEN 1 ELSE 0)
  /\ received' = [s \in Sink |->
                    Add(received[s], m, (IF log THEN registered[s] ELSE 0)
                                        + (IF s \in own THEN 1 ELSE 0))]
  /\ UNCHANGED registered

Register(s) ==
  /\ registered' = [registered EXCEPT ![s] = @ + 1]
  /\ UNCHANGED <<file, stderr, received, delivered>>

Unregister(s) ==
  /\ registered[s] > 0
  /\ registered' = [registered EXCEPT ![s] = @ - 1]
  /\ UNCHANGED <<file, stderr, received, delivered>>

Next ==
  \/ /\ delivered' # delivered
     /\ \E m \in Message :
          /\ m.id \notin delivered
          /\ delivered' = delivered \cup {m.id}
          /\ \E own \in SUBSET Sink, log, toFiles \in BOOLEAN :
               /\ toFiles => ~LogToStderr
               /\ Deliver(m, own, log, toFiles)
  \/ \E s \in Sink : Register(s) \/ Unregister(s)

Spec == Init /\ [][Next]_vars
==============================================================================
