-------------------------- MODULE WaitingSinkProofs --------------------------
(***************************************************************************)
(* Proofs about the sink that waits: the invariant of LogMessage holds in  *)
(* the composition with the test's threads as well, a sink that has been   *)
(* removed is used by nobody, and when the test is over nothing is left in *)
(* its queue: QueueInv, WriterInv and StderrInv say together where each of *)
(* the client's messages is, and what the writer has made of it.           *)
(***************************************************************************)
EXTENDS WaitingSink, DeliveryProofs

USE DEF At, Goto, Me, Id, quiet, sinkVars

\* What the client does to register its sink, and to unregister it.
OwnSinkStep ==
  /\ Begin(client) /\ UNCHANGED <<excused, initialized>>
  /\ AddLogSink(sink) \/ RemoveLogSink(sink)

\* Every step of the composition is one of LogMessage or one of these two.
LEMMA StepOfLogMessage ==
  ASSUME [WaitingNext]_allVars
  PROVE  [Next]_vars \/ OwnSinkStep
<1>1. {client, writer} \subseteq Thread
  BY WaitingAssumption DEF WaitingAssumption
<1>2. CASE UNCHANGED allVars
  BY <1>2 DEF allVars
<1>3. ASSUME NEW t \in Thread, LogStep(t) PROVE [Next]_vars
  BY <1>3 DEF LogStep, Next
<1>4. ASSUME NEW t \in Thread, Other(t) PROVE [Next]_vars
  BY <1>4 DEF Other, LogsTo, Next
<1>5. CASE Writer
  BY <1>1, <1>5 DEF Writer, WriterTakes, WriterLogs, WriterPushes, WriterExits,
                    LogsTo, Next
<1>6. CASE Client
  BY <1>1, <1>6 DEF Client, Construction, ClientLogs, Removal, WriterStop, Join,
                    LogsTo, Next, OwnSinkStep
<1>7. CASE Poll \/ WaitingStop
  BY <1>7 DEF Poll, WaitingStop, allVars
<1> QED
  BY <1>2, <1>3, <1>4, <1>5, <1>6, <1>7 DEF WaitingNext

\* The invariant of LogMessage does not depend on which sinks the threads
\* register.
LEMMA OwnSinkKeeps ==
  ASSUME Inv, OwnSinkStep
  PROVE  Inv'
<1>1. /\ client \in Thread /\ sink \in Sink
      /\ pc[client] = "idle" /\ ops' = [ops EXCEPT ![client] = ops[client] + 1]
      /\ sinkReaders = {}
      /\ UNCHANGED <<pc, call, slot, flushes, idx, after, dataVars, logMutex,
                     extracted, crashVars, fatal_msg_exclusive, num_messages_,
                     built, owed, excused, initialized, files, sinkReaders,
                     received>>
  BY WaitingAssumption
  DEF OwnSinkStep, Begin, AddLogSink, RemoveLogSink, WaitingAssumption
<1>2. UNCHANGED <<pc, call, slot, flushes, idx, after, data, buf, put, logMutex,
                  extracted, crash_reason, fatal_message, status,
                  fatal_msg_exclusive, num_messages_, built, owed, excused,
                  initialized, file, forced, failed, stderr, sinkReaders,
                  received>>
  BY <1>1 DEF dataVars, crashVars, files
<1>3. sinks_' \in Seq(Sink)
  <2>1. CASE AddLogSink(sink)
    BY <1>1, <2>1 DEF AddLogSink, Inv, TypeOK, DestinationTypeOK
  <2>2. CASE RemoveLogSink(sink)
    BY <1>1, <2>2, RemoveType DEF Inv, TypeOK
  <2> QED
    BY <2>1, <2>2 DEF OwnSinkStep
<1>4. ops' \in [Thread -> Nat] /\ \A t \in Thread : t # client => ops'[t] = ops[t]
  BY <1>1 DEF Inv, TypeOK, ThreadTypeOK
<1>5. TypeOK'
  <2>1. DestinationTypeOK'
    BY <1>2, <1>3 DEF Inv, TypeOK, DestinationTypeOK
  <2>2. ControlTypeOK' /\ DataTypeOK' /\ GlobalTypeOK'
    BY <1>2 DEF Inv, TypeOK, ControlTypeOK, DataTypeOK, GlobalTypeOK
  <2>3. ThreadTypeOK'
    BY <1>2, <1>4 DEF Inv, TypeOK, ThreadTypeOK
  <2> QED
    BY <2>1, <2>2, <2>3 DEF TypeOK
<1>6. LogMutexInv' /\ StreamInv' /\ OwnerInv'
  BY <1>2 DEF Inv, LogMutexInv, StreamInv, OwnerInv
<1>7. SinkLoopInv'
  BY <1>1, <1>2 DEF Inv, SinkLoopInv
<1>8. InProgressInv'
  BY <1>1, <1>2, <1>4 DEF Inv, InProgressInv
<1>9. ExclusiveInv'
  <2>1. \A t \in Thread : pc[t] # "idle" => <<t, ops'[t]>> = <<t, ops[t]>>
    BY <1>1, <1>4
  <2> QED
    BY <1>2, <2>1 DEF Inv, ExclusiveInv
<1> QED
  BY <1>5, <1>6, <1>7, <1>8, <1>9 DEF Inv

\* The invariant of LogMessage holds of the composition.
THEOREM LogInvariance == WaitingSpec => []Inv
<1>1. WaitingInit => Inv
  BY InitInv, MessageAssumption, DestinationAssumption DEF WaitingInit
<1>2. Inv /\ [WaitingNext]_allVars => Inv'
  BY StepInv, StepOfLogMessage, OwnSinkKeeps, MessageAssumption,
     DestinationAssumption
<1> QED
  BY <1>1, <1>2, PTL DEF WaitingSpec
-----------------------------------------------------------------------------
(* The sink of the test.                                                   *)

\* It is registered at most once, and not before its construction and after its
\* removal.
Unregistered == \A k \in 1..Len(sinks_) : sinks_[k] # sink
Once == \A k, l \in 1..Len(sinks_) : sinks_[k] = sink /\ sinks_[l] = sink => k = l
SinkInv ==
  /\ test = "start" => Unregistered
  /\ Once
  /\ test \in {"Stop", "Join", "done"} => Unregistered

\* A removal leaves the other sinks where they were, but for the last one, which
\* fills the gap.
LEMMA Removed ==
  ASSUME sinks_ \in Seq(Sink), NEW s \in Sink, RemoveLogSink(s)
  PROVE  \/ sinks_' = sinks_ /\ \A k \in 1..Len(sinks_) : sinks_[k] # s
         \/ \E i \in 1..Len(sinks_) :
              /\ sinks_[i] = s
              /\ \A j \in 1..Len(sinks_) : i < j => sinks_[j] # s
              /\ Len(sinks_') = Len(sinks_) - 1
              /\ \A j \in 1..(Len(sinks_) - 1) :
                   sinks_'[j] = IF j = i THEN sinks_[Len(sinks_)] ELSE sinks_[j]
<1> DEFINE n == Len(sinks_)
<1>1. n \in Nat
  BY LenProperties
<1>2. ASSUME NEW i \in 1..n, sinks_[i] = s,
             \A j \in (i + 1)..n : sinks_[j] # s,
             sinks_' = SubSeq([sinks_ EXCEPT ![i] = sinks_[n]], 1, n - 1)
      PROVE  /\ \A j \in 1..n : i < j => sinks_[j] # s
             /\ Len(sinks_') = n - 1
             /\ \A j \in 1..(n - 1) :
                  sinks_'[j] = IF j = i THEN sinks_[n] ELSE sinks_[j]
  <2> DEFINE q == [sinks_ EXCEPT ![i] = sinks_[n]]
  <2>1. /\ q \in Seq(Sink) /\ Len(q) = n
        /\ \A j \in 1..n : q[j] = IF j = i THEN sinks_[n] ELSE sinks_[j]
    <3>1. sinks_[n] \in Sink
      BY <1>1, ElementOfSeq
    <3> QED
      BY <3>1, ExceptSeq
  <2> HIDE DEF q
  <2>2. \A j \in 1..(n - 1) : q[j] \in Sink /\ j \in 1..n /\ 1 + j - 1 = j
    BY <1>1, <2>1
  <2>3. /\ Len(SubSeq(q, 1, n - 1)) = n - 1
        /\ \A j \in 1..(n - 1) : SubSeq(q, 1, n - 1)[j] = q[j]
    <3>1. 1 \in Int /\ n - 1 \in Int
      BY <1>1
    <3>2. /\ Len(SubSeq(q, 1, n - 1)) = IF 1 <= n - 1 THEN n - 1 - 1 + 1 ELSE 0
          /\ \A j \in 1..(n - 1 - 1 + 1) : SubSeq(q, 1, n - 1)[j] = q[1 + j - 1]
      BY <2>2, <3>1, SubSeqProperties
    <3>3. n >= 1 /\ n - 1 - 1 + 1 = n - 1 /\ (~(1 <= n - 1) => n - 1 = 0)
      <4>1. \A m \in Nat : m >= 1 =>
              m - 1 - 1 + 1 = m - 1 /\ (~(1 <= m - 1) => m - 1 = 0)
        OBVIOUS
      <4>2. i \in 1..n
        OBVIOUS
      <4> HIDE DEF n
      <4>3. n >= 1
        BY <1>1, <4>2
      <4> QED
        BY <1>1, <4>1, <4>3
    <3> HIDE DEF n
    <3> QED
      BY <2>2, <3>2, <3>3
  <2>4. sinks_' = SubSeq(q, 1, n - 1)
    BY <1>2 DEF q
  <2>5. \A j \in 1..n : i < j => j \in (i + 1)..n
    BY <1>1
  <2> QED
    BY <1>2, <2>1, <2>2, <2>3, <2>4, <2>5
<1> QED
  BY <1>2 DEF RemoveLogSink

\* It ends a single registration of the sink, and adds none of any.
LEMMA RemovalKeeps ==
  ASSUME sinks_ \in Seq(Sink), Once, NEW s \in Sink, RemoveLogSink(s)
  PROVE  Once' /\ (Unregistered => Unregistered') /\ (s = sink => Unregistered')
<1>1. CASE sinks_' = sinks_ /\ \A k \in 1..Len(sinks_) : sinks_[k] # s
  BY <1>1 DEF Once, Unregistered
<1>2. CASE ~(sinks_' = sinks_ /\ \A k \in 1..Len(sinks_) : sinks_[k] # s)
  <2> DEFINE n == Len(sinks_)
  <2>1. n \in Nat
    BY LenProperties
  <2>2. PICK i \in 1..n :
          /\ sinks_[i] = s
          /\ \A j \in 1..n : i < j => sinks_[j] # s
          /\ Len(sinks_') = n - 1
          /\ \A j \in 1..(n - 1) :
               sinks_'[j] = IF j = i THEN sinks_[n] ELSE sinks_[j]
    BY <1>2, Removed
  <2>3. \A j \in 1..(n - 1) : j \in 1..n /\ j # n
    BY <2>1
  <2>4. n \in 1..n
    BY <2>1
  <2>5. Once'
    BY <2>2, <2>3, <2>4 DEF Once
  <2>6. Unregistered => Unregistered'
    BY <2>2, <2>3, <2>4 DEF Unregistered
  <2>7. ASSUME s = sink, NEW j \in 1..(n - 1) PROVE sinks_'[j] # sink
    <3>1. CASE j = i
      <4>1. i < n
        BY <2>1, <3>1
      <4> QED
        BY <2>2, <2>4, <2>7, <3>1, <4>1
    <3>2. CASE j # i
      BY <2>2, <2>3, <2>7, <3>2 DEF Once
    <3> QED
      BY <3>1, <3>2
  <2>8. s = sink => Unregistered'
    BY <2>2, <2>7 DEF Unregistered
  <2> QED
    BY <2>5, <2>6, <2>8
<1> QED
  BY <1>1, <1>2

\* Only registrations change the registry, and the other threads' are of other
\* sinks.
LEMMA SinkStep ==
  ASSUME Inv, SinkInv, [WaitingNext]_allVars
  PROVE  SinkInv'
<1>1. sinks_ \in Seq(Sink) /\ sink \in Sink \ SinkOps
  BY WaitingAssumption
  DEF Inv, TypeOK, DestinationTypeOK, WaitingAssumption
<1>2. CASE UNCHANGED <<sinks_, test>>
  BY <1>2 DEF SinkInv, Unregistered, Once
<1>3. ASSUME NEW t \in Thread, Step(t) PROVE UNCHANGED sinks_
  BY <1>3
  DEF Step, InitFields, InitFlag, Stream, FlushIgnored, FlushActioned,
      WildCall, LogTrace, SendToSink, SendToLog, LogToAllLogfiles,
      AfterLogfiles, LogToSinks, LogToOneSink, LogToSinksEnds,
      RecordCrashReason, FlushAll, Fail, RewindShared, Relock, CountMessage,
      WaitForSink, WaitForSinks, WaitForOneSink, WaitForSinksEnds, SetFlushed,
      FlushReturns, destinations, Send, MaybeLogToLogfile, MaybeLogToStderr,
      WriteToStderr, ReaderLock, ReaderUnlock
<1>4. ASSUME NEW t \in Thread, Construct(t) PROVE UNCHANGED sinks_
  BY <1>4 DEF Construct, destinations
<1>5. ASSUME NEW t \in Thread, LogStep(t) PROVE UNCHANGED <<sinks_, test>>
  BY <1>3, <1>5 DEF LogStep, own
<1>6. ASSUME NEW t \in Thread, Other(t) PROVE SinkInv'
  <2>1. UNCHANGED test
    BY <1>6 DEF Other, own
  <2>2. CASE LogsTo(t, "SendToLog", NoTarget)
    BY <1>2, <1>4, <2>1, <2>2 DEF LogsTo
  <2>3. CASE Register(t)
    <3>1. PICK s \in SinkOps : sinks_' = Append(sinks_, s) /\ s # sink
      BY <1>1, <2>3 DEF Register, AddLogSink
    <3>2. s \in Sink
      BY MessageAssumption DEF MessageAssumption
    <3>3. /\ Len(sinks_) \in Nat /\ Len(sinks_') = Len(sinks_) + 1
          /\ \A k \in 1..Len(sinks_) : sinks_'[k] = sinks_[k]
          /\ sinks_'[Len(sinks_) + 1] = s
      BY <1>1, <3>1, <3>2, AppendProperties, LenProperties
    <3>4. \A k \in 1..Len(sinks_') : sinks_'[k] = sink =>
            k \in 1..Len(sinks_) /\ sinks_[k] = sink
      BY <3>1, <3>3
    <3> QED
      BY <2>1, <3>4 DEF SinkInv, Unregistered, Once
  <2> QED
    BY <1>6, <2>2, <2>3 DEF Other
<1>7. CASE Writer
  <2>1. UNCHANGED test
    BY <1>7 DEF Writer, WriterTakes, WriterLogs, WriterPushes, WriterExits
  <2>2. UNCHANGED sinks_
    BY <1>4, <1>7, WaitingAssumption
    DEF Writer, WriterTakes, WriterLogs, WriterPushes, WriterExits, LogsTo, vars,
        destinations, WaitingAssumption
  <2> QED
    BY <1>2, <2>1, <2>2
<1>8. CASE Construction
  <2>1. /\ test = "start" /\ test' = "log" /\ sinks_' = Append(sinks_, sink)
        /\ sink \in Sink
    BY <1>1, <1>8 DEF Construction, AddLogSink
  <2>2. /\ Len(sinks_) \in Nat /\ Len(sinks_') = Len(sinks_) + 1
        /\ \A k \in 1..Len(sinks_) : sinks_'[k] = sinks_[k]
    BY <1>1, <2>1, AppendProperties, LenProperties
  <2>3. \A k \in 1..Len(sinks_') : sinks_'[k] = sink => k = Len(sinks_')
    BY <2>1, <2>2 DEF SinkInv, Unregistered
  <2> QED
    BY <2>1, <2>3 DEF SinkInv, Once
<1>9. CASE ClientLogs
  BY <1>2, <1>4, <1>9, WaitingAssumption
  DEF ClientLogs, LogsTo, own, WaitingAssumption
<1>10. CASE Removal
  <2>1. test' = "Stop" /\ RemoveLogSink(sink)
    BY <1>10 DEF Removal
  <2>2. Once' /\ Unregistered'
    BY <1>1, <2>1, RemovalKeeps DEF SinkInv
  <2> QED
    BY <2>1, <2>2 DEF SinkInv
<1>11. CASE WriterStop \/ Join
  <2>1. UNCHANGED sinks_ /\ test \in {"Stop", "Join"}
    BY <1>11 DEF WriterStop, Join, vars, destinations
  <2> QED
    BY <1>11, <2>1 DEF WriterStop, Join, SinkInv, Unregistered, Once
<1>12. CASE Poll \/ WaitingStop \/ UNCHANGED allVars
  BY <1>2, <1>12 DEF Poll, WaitingStop, allVars, own, vars, destinations
<1> QED
  BY <1>2, <1>5, <1>6, <1>7, <1>8, <1>9, <1>10, <1>11, <1>12
  DEF WaitingNext, Client

\* When the sink is destroyed no thread, the writer included, is about to call
\* it or to wait for it: it is not in the registry, and a thread that walks over
\* the registry holds the lock that the removal needs
\* (waitTillSent_unittest.cc, LogDestination.cc).
THEOREM RemovedIsUnused == WaitingSpec => []DestroyedUnused
<1>1. WaitingInit => SinkInv
  BY DEF WaitingInit, Init, DestinationInit, SinkInv, Unregistered, Once
<1>2. Inv /\ SinkInv /\ [WaitingNext]_allVars => SinkInv'
  BY SinkStep
<1>3. Inv /\ SinkInv => DestroyedUnused
  <2> SUFFICES ASSUME Inv, SinkInv, test \in {"Stop", "Join", "done"}
               PROVE  /\ \A t \in Thread : pc[t] \in HoldsSinks =>
                           \A i \in 1..idx[t] : sinks_[i] # sink
                      /\ \A k \in DOMAIN sinks_ : sinks_[k] # sink
    BY DEF DestroyedUnused
  <2>1. Unregistered /\ DOMAIN sinks_ = 1..Len(sinks_) /\ Len(sinks_) \in Nat
    BY LenProperties DEF SinkInv, Inv, TypeOK, DestinationTypeOK
  <2>2. ASSUME NEW t \in Thread, pc[t] \in HoldsSinks, NEW i \in 1..idx[t]
        PROVE  i \in 1..Len(sinks_)
    <3>1. idx[t] \in Nat /\ idx[t] <= Len(sinks_)
      BY <2>2 DEF Inv, SinkLoopInv, TypeOK, ControlTypeOK
    <3> QED
      BY <2>1, <3>1
  <2> QED
    BY <2>1, <2>2 DEF Unregistered
<1> QED
  BY <1>1, <1>2, <1>3, LogInvariance, PTL DEF WaitingSpec
-----------------------------------------------------------------------------
(* Nothing is left in the queue.                                           *)

\* What the threads of the test log are messages of severity 0 that go to
\* stderr and the registered sinks or, the client's, to its own sink alone.
ToSinks == {"SendToLog", "LogToSinks", "send"}
OrdinaryPC ==
  ToSinks \cup {"idle", "Init", "InitFlag", "stream", "Flush", "LogTrace",
    "SendToSink", "Count", "WaitForSink", "WaitForSinks", "WaitTillSent",
    "Flushed"}
Ordinary(t) ==
  /\ pc[t] \in OrdinaryPC /\ after[t] = "Flushed" /\ slot[t] = t
  /\ call[t].sev = 0
  /\ \/ call[t].method = "SendToLog"
     \/ call[t].method = "SendToSink" /\ t = client /\ call[t].target = sink
  /\ pc[t] \notin {"idle", "Init"} =>
       data[t].sev = 0 /\ data[t].method = call[t].method
  /\ call[t].method = "SendToSink" =>
       (pc[t] \notin {"idle", "Init", "InitFlag", "stream"} =>
          data[t].target = sink)
  /\ pc[t] = "stream" => ~data[t].flushed
  /\ pc[t] = "SendToSink" => call[t].method = "SendToSink"
  /\ pc[t] \in ToSinks => call[t].method = "SendToLog"
OrdinaryInv == status = "running" /\ \A t \in Thread : Ordinary(t)

Begins(t) ==
  \/ LogsTo(t, "SendToLog", NoTarget)
  \/ t = client /\ LogsTo(t, "SendToSink", sink)

\* A step is inside a message, begins one, or is of no message at all.
LEMMA MessageCases ==
  ASSUME [WaitingNext]_allVars
  PROVE  \/ \E t \in Thread : LogStep(t)
         \/ \E t \in Thread : Begins(t)
         \/ UNCHANGED <<status, pc, call, slot, idx, after, data>>
<1>1. {client, writer} \subseteq Thread
  BY WaitingAssumption DEF WaitingAssumption
<1>2. CASE UNCHANGED allVars
  BY <1>2 DEF allVars, vars, crashVars, dataVars, threadVars
<1>3. ASSUME NEW t \in Thread, Register(t)
      PROVE  UNCHANGED <<status, pc, call, slot, idx, after, data>>
  BY <1>3 DEF Register, Begin, crashVars, dataVars
<1>4. CASE \E t \in Thread \ {client, writer} : Other(t)
  BY <1>3, <1>4 DEF Other, Begins
<1>5. CASE Writer
  BY <1>1, <1>5 DEF Writer, WriterTakes, WriterLogs, WriterPushes, WriterExits,
      Begins, vars, crashVars, dataVars, threadVars
<1>6. CASE Client
  BY <1>1, <1>6 DEF Client, Construction, ClientLogs, Removal, WriterStop, Join,
      Begins, Begin, vars, crashVars, dataVars, threadVars
<1>7. CASE Poll \/ WaitingStop
  BY <1>2, <1>7 DEF Poll, WaitingStop
<1> QED
  BY <1>2, <1>4, <1>5, <1>6, <1>7 DEF WaitingNext

\* A step of a message is not its constructor's, and leaves the statement's
\* arguments alone.
LEMMA StepMoves ==
  ASSUME NEW t \in Thread, Step(t)
  PROVE  /\ pc[t] # "idle" /\ ThreadNext(t)
         /\ UNCHANGED <<ops, slot, call, sinks_>>
<1> DEFINE Moves == pc[t] # "idle" /\ UNCHANGED <<ops, slot, call, sinks_>>
<1>1. ASSUME InitFields(t) \/ InitFlag(t) \/ Stream(t) \/ FlushIgnored(t)
             \/ FlushActioned(t) \/ SetFlushed(t) \/ WildCall(t) \/ LogTrace(t)
      PROVE  Moves
  BY <1>1
  DEF InitFields, InitFlag, Stream, FlushIgnored, FlushActioned, SetFlushed,
      WildCall, LogTrace, FlushReturns, threadVars, destinations
<1>2. ASSUME SendToSink(t) \/ SendToLog(t) \/ LogToAllLogfiles(t)
             \/ AfterLogfiles(t)
      PROVE  Moves
  BY <1>2
  DEF SendToSink, SendToLog, LogToAllLogfiles, AfterLogfiles, Send,
      MaybeLogToLogfile, MaybeLogToStderr, WriteToStderr, threadVars,
      destinations
<1>3. ASSUME LogToSinks(t) \/ LogToOneSink(t) \/ LogToSinksEnds(t)
             \/ WaitForSinks(t) \/ WaitForOneSink(t) \/ WaitForSinksEnds(t)
      PROVE  Moves
  BY <1>3
  DEF LogToSinks, LogToOneSink, LogToSinksEnds, WaitForSinks, WaitForOneSink,
      WaitForSinksEnds, Send, ReaderLock, ReaderUnlock, threadVars,
      destinations
<1>4. ASSUME RecordCrashReason(t) \/ FlushAll(t) \/ Fail(t) \/ RewindShared(t)
             \/ Relock(t) \/ CountMessage(t) \/ WaitForSink(t)
      PROVE  Moves
  BY <1>4
  DEF RecordCrashReason, FlushAll, Fail, RewindShared, Relock, CountMessage,
      WaitForSink, threadVars, destinations
<1>5. ThreadNext(t)
  BY DEF ThreadNext
<1> QED
  BY <1>1, <1>2, <1>3, <1>4, <1>5 DEF Step

\* The steps of a message that is not fatal and goes to no file.
OrdinaryStep(t) ==
  \/ InitFields(t) \/ InitFlag(t) \/ Stream(t) \/ FlushIgnored(t)
  \/ FlushActioned(t) \/ LogTrace(t) \/ SendToSink(t) \/ SendToLog(t)
  \/ LogToSinks(t) \/ LogToOneSink(t) \/ LogToSinksEnds(t) \/ CountMessage(t)
  \/ WaitForSink(t) \/ WaitForSinks(t) \/ WaitForOneSink(t)
  \/ WaitForSinksEnds(t) \/ SetFlushed(t)

\* A thread of the test has no others to go through.
LEMMA OrdinarySteps ==
  ASSUME OrdinaryInv, NEW t \in Thread, Step(t)
  PROVE  OrdinaryStep(t)
<1>1. Ordinary(t) /\ sink \in Sink
  BY WaitingAssumption DEF OrdinaryInv, WaitingAssumption
<1>2. ~WildCall(t)
  BY <1>1, MessageAssumption
  DEF WildCall, WildTarget, Ordinary, SinkMethods, OutMethods, MessageAssumption
<1>3. ~LogToAllLogfiles(t) /\ ~AfterLogfiles(t)
  BY <1>1 DEF LogToAllLogfiles, AfterLogfiles, Ordinary, OrdinaryPC, ToSinks
<1>4. ~RecordCrashReason(t) /\ ~FlushAll(t) /\ ~Fail(t) /\ ~RewindShared(t)
      /\ ~Relock(t)
  BY <1>1 DEF RecordCrashReason, FlushAll, Fail, RewindShared, Relock, Ordinary,
      OrdinaryPC, ToSinks
<1> QED
  BY <1>2, <1>3, <1>4 DEF Step, OrdinaryStep

\* A step of the thread's message keeps it ordinary.
LEMMA OrdinaryOwn ==
  ASSUME Inv, OrdinaryInv, NEW t \in Thread, Step(t)
  PROVE  Ordinary(t)' /\ status' = "running"
<1> USE DEF Inv, TypeOK, ControlTypeOK, ThreadTypeOK, DataTypeOK, OrdinaryPC,
      ToSinks
<1>1. /\ Ordinary(t) /\ t \in Slot /\ data[t] \in Data /\ status = "running"
      /\ UNCHANGED <<slot, call>> /\ slot[t] = t
  BY StepMoves DEF OrdinaryInv, Ordinary, Slot
<1>2. CASE InitFields(t)
  <2>1. /\ status' = status /\ after' = after
        /\ pc' = [pc EXCEPT ![t] = "InitFlag"] /\ pc[t] = "Init"
    BY <1>2 DEF InitFields, crashVars
  <2>2. data'[t].sev = call[t].sev /\ data'[t].method = call[t].method
    BY <1>1, <1>2 DEF InitFields, Data
  <2> QED
    BY <1>1, <2>1, <2>2 DEF Ordinary
<1>9. CASE InitFlag(t)
  <2>1. /\ status' = status /\ after' = after
        /\ pc' = [pc EXCEPT ![t] = "stream"] /\ pc[t] = "InitFlag"
    BY <1>9 DEF InitFlag, crashVars
  <2>2. /\ data'[t].sev = data[t].sev /\ data'[t].method = data[t].method
        /\ ~data'[t].flushed
    BY <1>1, <1>9 DEF InitFlag, Data
  <2> QED
    BY <1>1, <2>1, <2>2 DEF Ordinary
<1>3. CASE Stream(t)
  <2>1. /\ status' = status /\ after' = after
        /\ pc' = [pc EXCEPT ![t] = "Flush"] /\ pc[t] = "stream"
    BY <1>3 DEF Stream, crashVars
  <2>2. /\ data'[t].sev = data[t].sev /\ data'[t].method = data[t].method
        /\ call[t].method # "SendToLog" => data'[t].target = call[t].target
    BY <1>1, <1>3 DEF Stream, Data
  <2> QED
    BY <1>1, <2>1, <2>2 DEF Ordinary
<1>4. CASE FlushIgnored(t) \/ FlushActioned(t) \/ SetFlushed(t)
  <2>1. /\ status' = status /\ after' = after
        /\ \E l \in {"Flush", "idle", "LogTrace"} : pc' = [pc EXCEPT ![t] = l]
        /\ pc[t] \in {"Flush", "Flushed"}
    BY <1>4 DEF FlushIgnored, FlushActioned, SetFlushed, FlushReturns, crashVars
  <2>2. /\ data'[t].sev = data[t].sev /\ data'[t].method = data[t].method
        /\ data'[t].target = data[t].target
    BY <1>1, <1>4 DEF FlushIgnored, FlushActioned, SetFlushed, Data
  <2> QED
    BY <1>1, <2>1, <2>2 DEF Ordinary
<1>5. CASE LogTrace(t)
  <2>1. /\ status' = status /\ after' = after /\ data' = data
        /\ pc[t] = "LogTrace"
        /\ pc' = [pc EXCEPT ![t] = IF call[t].method = "SendToSink"
                                   THEN "SendToSink" ELSE "SendToLog"]
    BY <1>1, <1>5 DEF LogTrace, crashVars, dataVars, SinkMethods, OutMethods,
        Ordinary
  <2> QED
    BY <1>1, <2>1 DEF Ordinary
<1>6. CASE SendToSink(t) \/ SendToLog(t)
  <2>1. /\ status' = status /\ after' = after /\ data' = data
        /\ \/ pc[t] = "SendToSink" /\ pc' = [pc EXCEPT ![t] = "Count"]
           \/ pc[t] = "SendToLog" /\ pc' = [pc EXCEPT ![t] = "LogToSinks"]
    BY <1>1, <1>6, SettingsAssumption
    DEF SendToSink, SendToLog, crashVars, dataVars, Ordinary, SettingsAssumption,
        StderrOnly
  <2> QED
    BY <1>1, <2>1 DEF Ordinary
<1>7. CASE LogToSinks(t) \/ LogToOneSink(t) \/ LogToSinksEnds(t)
  <2>1. /\ status' = status /\ after' = after /\ data' = data
        /\ \/ pc[t] = "LogToSinks" /\ pc' = [pc EXCEPT ![t] = "send"]
           \/ pc[t] = "send" /\ pc' = pc
           \/ pc[t] = "send" /\ pc' = [pc EXCEPT ![t] = "Count"]
    BY <1>1, <1>7, SettingsAssumption
    DEF LogToSinks, LogToOneSink, LogToSinksEnds, crashVars, dataVars, Ordinary,
        SettingsAssumption
  <2> QED
    BY <1>1, <2>1 DEF Ordinary
<1>8. CASE CountMessage(t) \/ WaitForSink(t) \/ WaitForSinks(t)
           \/ WaitForOneSink(t) \/ WaitForSinksEnds(t)
  <2>1. /\ status' = status /\ data' = data /\ after'[t] = "Flushed"
        /\ pc[t] \in {"Count", "WaitForSink", "WaitForSinks", "WaitTillSent"}
        /\ pc'[t] \in {"WaitForSink", "WaitForSinks", "WaitTillSent", "Flushed"}
    BY <1>1, <1>8
    DEF CountMessage, WaitForSink, WaitForSinks, WaitForOneSink,
        WaitForSinksEnds, crashVars, dataVars, Ordinary
  <2> QED
    BY <1>1, <2>1 DEF Ordinary
<1> QED
  BY <1>2, <1>3, <1>4, <1>5, <1>6, <1>7, <1>8, <1>9, OrdinarySteps
  DEF OrdinaryStep

\* No thread of the test logs anything else.
LEMMA OrdinaryKept ==
  ASSUME Inv, OrdinaryInv, [WaitingNext]_allVars
  PROVE  OrdinaryInv'
<1>1. ASSUME NEW t \in Thread, ThreadNext(t), NEW u \in Thread, u # t
      PROVE  Ordinary(u)'
  <2>1. Ordinary(u)
    BY DEF OrdinaryInv
  <2>2. /\ pc'[u] = pc[u] /\ after'[u] = after[u] /\ slot'[u] = slot[u]
        /\ call'[u] = call[u]
    BY <1>1, OthersKept DEF Inv
  <2>3. data'[u] = data[u]
    <3>1. slot[u] = u /\ u # Shared
      BY <2>1, MessageAssumption DEF Ordinary, MessageAssumption
    <3> QED
      BY <1>1, <3>1, OthersData, MessageAssumption
  <2> QED
    BY <2>1, <2>2, <2>3 DEF Ordinary
<1>2. ASSUME NEW t \in Thread, LogStep(t) PROVE OrdinaryInv'
  <2>1. Step(t) /\ ThreadNext(t)
    BY <1>2 DEF LogStep, ThreadNext
  <2> QED
    BY <1>1, <2>1, OrdinaryOwn DEF OrdinaryInv
<1>3. ASSUME NEW t \in Thread, Begins(t) PROVE OrdinaryInv'
  <2>1. Construct(t) /\ ThreadNext(t)
    BY <1>3 DEF Begins, LogsTo, ThreadNext
  <2>2. /\ pc'[t] = "Init" /\ after' = after /\ call'[t].sev = 0
        /\ status' = status
        /\ \/ call'[t].method = "SendToLog"
           \/ call'[t].method = "SendToSink" /\ t = client
                /\ call'[t].target = sink
    <3>1. pc'[t] = "Init" /\ after' = after /\ status' = status
      BY <2>1 DEF Construct, crashVars, Inv, TypeOK, ControlTypeOK
    <3>2. /\ call'[t].sev = 0
          /\ \/ call'[t].method = "SendToLog"
             \/ call'[t].method = "SendToSink" /\ t = client
                  /\ call'[t].target = sink
      BY <1>3 DEF Begins, LogsTo
    <3> QED
      BY <3>1, <3>2
  <2>3. slot'[t] = t
    BY <2>1, <2>2, SettingsAssumption
    DEF Construct, Inv, TypeOK, ThreadTypeOK, SettingsAssumption
  <2>4. Ordinary(t)'
    BY <2>2, <2>3 DEF Ordinary, OrdinaryInv, OrdinaryPC, ToSinks
  <2> QED
    BY <1>1, <2>1, <2>2, <2>4 DEF OrdinaryInv
<1>4. CASE UNCHANGED <<status, pc, call, slot, idx, after, data>>
  BY <1>4 DEF OrdinaryInv, Ordinary
<1> QED
  BY <1>2, <1>3, <1>4, MessageCases

\* The message of t has not been dispatched; it is still to be written to
\* stderr; the client's is still to be sent to the sink; the client is still to
\* wait for the sink.
ToDispatch(t) ==
  \/ pc[t] \in {"Init", "InitFlag", "stream", "LogTrace"}
  \/ pc[t] = "Flush" /\ ~data[t].flushed
StderrDue(t) == ToDispatch(t) \/ pc[t] = "SendToLog"
SinkAhead == \E k \in 1..idx[client] : sinks_[k] = sink
SinkDue ==
  \/ ToDispatch(client)
  \/ pc[client] \in {"SendToSink", "SendToLog", "LogToSinks"}
  \/ pc[client] = "send" /\ SinkAhead
WaitDue ==
  \/ pc[client] \in {"send", "Count", "WaitForSink", "WaitForSinks"}
  \/ pc[client] = "WaitTillSent" /\ SinkAhead
One(b) == IF b THEN 1 ELSE 0

\* What is and has been in the queue: there is at most one message, which the
\* client is still to wait for before it logs the next one.
QueueInv ==
  /\ pushed \in Seq(Entry) /\ popped \in Nat
  /\ \/ popped = Len(pushed)
     \/ popped + 1 = Len(pushed) /\ ~SinkDue /\ WaitDue
  /\ \A k \in 1..Len(pushed) : pushed[k].id = <<client, k + 1>>
  /\ test = "start" => pc[client] = "idle" /\ ops[client] = 0 /\ Len(pushed) = 0
  /\ test = "log" =>
       /\ \E k \in 1..Len(sinks_) : sinks_[k] = sink
       /\ ops[client] \in 1..(Messages + 1)
       /\ ops[client] = Len(pushed) + 1 + One(SinkDue)
  /\ test \in {"Stop", "Join", "done"} =>
       pc[client] = "idle" /\ Len(pushed) = Messages
  /\ test \in {"start", "log", "Stop", "Join", "done"}

\* What the writer has done with what it took.
WriterInv ==
  /\ global_messages \in Seq(Entry)
  /\ popped = Len(global_messages) + One(run \in {"first", "second", "push"})
  /\ \A k \in 1..Len(global_messages) : global_messages[k] = pushed[k]
  /\ ops[writer] = 2 * Len(global_messages) +
       (IF run = "second" THEN 1 ELSE IF run = "push" THEN 2 ELSE 0)
  /\ run \in {"Run", "first", "exit"} => pc[writer] = "idle"
  /\ run \in {"Run", "first", "second", "push", "exit"}
  /\ run = "exit" => should_exit_ /\ popped = Len(pushed)
  /\ should_exit_ => test \in {"Join", "done"}
  /\ test = "done" => run = "exit"

\* The writer's messages are on stderr, but for one that is still to be written.
Written == ops[writer] - One(StderrDue(writer))
StderrInv ==
  /\ Written \in Nat
  /\ \A k \in 1..Written : OnStderr(writer, k)
  /\ \A i \in DOMAIN stderr :
       stderr[i].id[1] = writer => stderr[i].id[2] <= Written

\* The client's message is pushed once, and after that it waits until the queue
\* is empty.
LEMMA ClientMessage ==
  ASSUME Inv, OrdinaryInv, Once, LogStep(client),
         \E k \in 1..Len(sinks_) : sinks_[k] = sink
  PROVE  \/ /\ pushed' = pushed /\ (SinkDue <=> SinkDue')
            /\ ~SinkDue /\ WaitDue => NoWork \/ WaitDue'
         \/ /\ pushed' = Append(pushed, EntryOf(client)) /\ SinkDue
            /\ ~SinkDue' /\ WaitDue'
<1> USE DEF Inv, TypeOK, ControlTypeOK, ThreadTypeOK, DataTypeOK
<1>1. /\ client \in Thread /\ sink \in Sink /\ Step(client) /\ Buffer(client)
      /\ InWaitTillSent(client) => NoWork
      /\ UNCHANGED <<sinks_, slot, call, popped>>
  BY WaitingAssumption, StepMoves DEF LogStep, WaitingAssumption
<1>2. /\ Ordinary(client) /\ client \in Slot /\ data[client] \in Data
      /\ slot[client] = client /\ Len(sinks_) \in Nat /\ idx[client] \in Nat
  BY <1>1, LenProperties DEF OrdinaryInv, Ordinary, Slot, DestinationTypeOK
<1>3. pc[client] \in HoldsSinks => idx[client] <= Len(sinks_)
  BY <1>1 DEF SinkLoopInv
<1>4. received'[sink] = received[sink] => pushed' = pushed
  BY <1>1 DEF Buffer
<1>5. received'[sink] = Append(received[sink], EntryOf(client)) =>
        pushed' = Append(pushed, EntryOf(client))
  <2>1. EntryOf(client) \in Entry /\ received[sink] \in Seq(Entry)
    BY <1>1, StepMoves, EntryType DEF DestinationTypeOK
  <2>2. Append(received[sink], EntryOf(client)) # received[sink]
    <3>1. /\ Len(Append(received[sink], EntryOf(client))) = Len(received[sink]) + 1
          /\ Len(received[sink]) \in Nat
      BY <2>1, AppendProperties, LenProperties
    <3> QED
      BY <3>1
  <2> QED
    BY <1>1, <2>2 DEF Buffer
<1>6. CASE InitFields(client) \/ InitFlag(client) \/ Stream(client)
           \/ LogTrace(client)
  <2>1. received' = received
    BY <1>2, <1>6 DEF InitFields, InitFlag, Stream, LogTrace, destinations
  <2>2. ToDispatch(client) /\ SinkDue
    BY <1>6 DEF InitFields, InitFlag, Stream, LogTrace, ToDispatch, SinkDue
  <2>3. SinkDue'
    <3>1. CASE InitFields(client)
      BY <1>1, <3>1 DEF InitFields, ToDispatch, SinkDue
    <3>4. CASE InitFlag(client)
      <4>1. pc'[client] = "stream" /\ ~data'[client].flushed
        BY <1>1, <1>2, <3>4 DEF InitFlag, Data
      <4> QED
        BY <1>2, <3>4, <4>1 DEF InitFlag, Ordinary, ToDispatch, SinkDue
    <3>2. CASE Stream(client)
      <4>1. pc'[client] = "Flush" /\ data'[client].flushed = data[client].flushed
        BY <1>1, <1>2, <3>2 DEF Stream, Data
      <4> QED
        BY <1>2, <3>2, <4>1 DEF Stream, Ordinary, ToDispatch, SinkDue
    <3>3. CASE LogTrace(client)
      <4>1. pc'[client] \in {"SendToSink", "SendToLog"}
        BY <1>1, <1>2, <3>3 DEF LogTrace, Ordinary, SinkMethods, OutMethods
      <4> QED
        BY <4>1 DEF SinkDue
    <3> QED
      BY <1>6, <3>1, <3>2, <3>3, <3>4
  <2> QED
    BY <1>4, <2>1, <2>2, <2>3
<1>7. CASE FlushIgnored(client) \/ SetFlushed(client)
  <2>1. /\ received' = received /\ data'[client].flushed
        /\ \/ pc[client] = "Flush" /\ data[client].flushed
           \/ pc[client] = "Flushed"
        /\ pc'[client] \in {"Flush", "idle"}
    BY <1>1, <1>2, <1>7, SettingsAssumption, MessageAssumption
    DEF FlushIgnored, SetFlushed, FlushReturns, Ordinary, destinations, Data,
        SettingsAssumption, MessageAssumption
  <2>2. ~SinkDue /\ ~SinkDue' /\ ~WaitDue
    BY <2>1 DEF SinkDue, WaitDue, ToDispatch
  <2> QED
    BY <1>4, <2>1, <2>2
<1>8. CASE FlushActioned(client)
  <2>1. /\ received' = received /\ ~data[client].flushed /\ pc[client] = "Flush"
        /\ pc'[client] = "LogTrace"
    BY <1>1, <1>2, <1>8 DEF FlushActioned, destinations
  <2> QED
    BY <1>4, <2>1 DEF SinkDue, WaitDue, ToDispatch
<1>9. CASE SendToSink(client)
  <2>1. /\ pc[client] = "SendToSink" /\ data[client].target = sink
        /\ received'[sink] = Append(received[sink], EntryOf(client))
        /\ pc'[client] = "Count"
    BY <1>1, <1>2, <1>9
    DEF SendToSink, Send, Ordinary, OrdinaryPC, ToSinks, DestinationTypeOK
  <2> QED
    BY <1>5, <2>1 DEF SinkDue, WaitDue, ToDispatch
<1>10. CASE SendToLog(client) \/ LogToSinks(client)
  <2>1. received' = received
    BY <1>10
    DEF SendToLog, LogToSinks, ReaderLock, WriteToStderr, files
  <2>2. SinkDue /\ SinkDue'
    <3>1. CASE SendToLog(client)
      BY <1>1, <3>1, SettingsAssumption
      DEF SendToLog, SettingsAssumption, StderrOnly, SinkDue
    <3>2. CASE LogToSinks(client)
      <4>1. pc[client] = "LogToSinks" /\ pc'[client] = "send"
            /\ idx'[client] = Len(sinks_)
        BY <1>1, <3>2 DEF LogToSinks
      <4> QED
        BY <1>1, <4>1 DEF SinkDue, SinkAhead
    <3> QED
      BY <1>10, <3>1, <3>2
  <2> QED
    BY <1>4, <2>1, <2>2
<1>11. CASE LogToOneSink(client)
  <2>1. /\ pc[client] = "send" /\ pc'[client] = "send" /\ idx[client] > 0
        /\ idx'[client] = idx[client] - 1 /\ idx[client] <= Len(sinks_)
        /\ received' = [received EXCEPT ![sinks_[idx[client]]] =
                          Append(@, EntryOf(client))]
    BY <1>1, <1>3, <1>11 DEF LogToOneSink, Send, HoldsSinks
  <2>2. \A k \in 1..idx[client] : k \in 1..(idx[client] - 1) \/ k = idx[client]
    BY <1>2
  <2>3. \A k \in 1..(idx[client] - 1) : k \in 1..idx[client] /\ k # idx[client]
    BY <1>2
  <2>4. idx[client] \in 1..idx[client] /\ 1..idx[client] \subseteq 1..Len(sinks_)
    BY <1>2, <2>1
  <2>5. WaitDue' /\ ~ToDispatch(client) /\ ~ToDispatch(client)'
    BY <2>1 DEF WaitDue, ToDispatch
  <2>6. CASE sinks_[idx[client]] = sink
    <3>1. received'[sink] = Append(received[sink], EntryOf(client))
      BY <1>1, <2>1, <2>6 DEF DestinationTypeOK
    <3>2. SinkAhead /\ ~SinkAhead'
      BY <1>1, <2>1, <2>3, <2>4, <2>6 DEF SinkAhead, Once
    <3> QED
      BY <1>5, <2>1, <2>5, <3>1, <3>2 DEF SinkDue
  <2>7. CASE sinks_[idx[client]] # sink
    <3>1. received'[sink] = received[sink]
      BY <2>1, <2>7
    <3>2. SinkAhead <=> SinkAhead'
      BY <1>1, <2>1, <2>2, <2>3, <2>7 DEF SinkAhead
    <3> QED
      BY <1>4, <2>1, <2>5, <3>1, <3>2 DEF SinkDue
  <2> QED
    BY <2>6, <2>7
<1>12. CASE LogToSinksEnds(client)
  <2>1. /\ received' = received /\ pc[client] = "send" /\ idx[client] = 0
        /\ pc'[client] = "Count"
    BY <1>1, <1>2, <1>12, SettingsAssumption
    DEF LogToSinksEnds, ReaderUnlock, Ordinary, OrdinaryPC, SettingsAssumption
  <2>2. ~SinkAhead
    BY <2>1 DEF SinkAhead
  <2> QED
    BY <1>4, <2>1, <2>2 DEF SinkDue, WaitDue, ToDispatch
<1>13. CASE CountMessage(client) \/ WaitForSink(client)
  <2>1. /\ received' = received /\ pc[client] \in {"Count", "WaitForSink"}
        /\ pc'[client] \in {"WaitForSink", "WaitForSinks"}
    BY <1>1, <1>13 DEF CountMessage, WaitForSink, destinations
  <2> QED
    BY <1>4, <2>1 DEF SinkDue, WaitDue, ToDispatch
<1>14. CASE WaitForSinks(client)
  <2>1. /\ received' = received /\ pc[client] = "WaitForSinks"
        /\ pc'[client] = "WaitTillSent" /\ idx'[client] = Len(sinks_)
    BY <1>1, <1>14 DEF WaitForSinks, ReaderLock
  <2>2. SinkAhead'
    BY <1>1, <2>1 DEF SinkAhead
  <2> QED
    BY <1>4, <2>1, <2>2 DEF SinkDue, WaitDue, ToDispatch
<1>15. CASE WaitForOneSink(client)
  <2>1. /\ received' = received /\ pc[client] = "WaitTillSent" /\ idx[client] > 0
        /\ pc'[client] = "WaitTillSent" /\ idx'[client] = idx[client] - 1
    BY <1>1, <1>15 DEF WaitForOneSink, destinations
  <2>2. \A k \in 1..idx[client] : k \in 1..(idx[client] - 1) \/ k = idx[client]
    BY <1>2
  <2>3. WaitDue => NoWork \/ WaitDue'
    <3>1. CASE sinks_[idx[client]] = sink
      BY <1>1, <2>1, <3>1 DEF InWaitTillSent
    <3>2. CASE sinks_[idx[client]] # sink
      <4>1. SinkAhead => SinkAhead'
        BY <1>1, <2>1, <2>2, <3>2 DEF SinkAhead
      <4> QED
        BY <2>1, <4>1 DEF WaitDue
    <3> QED
      BY <3>1, <3>2
  <2> QED
    BY <1>4, <2>1, <2>3 DEF SinkDue, ToDispatch
<1>16. CASE WaitForSinksEnds(client)
  <2>1. /\ received' = received /\ pc[client] = "WaitTillSent" /\ idx[client] = 0
        /\ pc'[client] = "Flushed"
    BY <1>1, <1>2, <1>16 DEF WaitForSinksEnds, ReaderUnlock, Ordinary
  <2>2. ~SinkAhead
    BY <2>1 DEF SinkAhead
  <2> QED
    BY <1>4, <2>1, <2>2 DEF SinkDue, WaitDue, ToDispatch
<1> QED
  BY <1>1, <1>6, <1>7, <1>8, <1>9, <1>10, <1>11, <1>12, <1>13, <1>14, <1>15,
     <1>16, OrdinarySteps DEF OrdinaryStep

\* Who waits for what depends on the client, and on the registry only while the
\* client holds its lock.
LEMMA DueKept ==
  ASSUME Inv, UNCHANGED <<pc, idx, data>>,
         UNCHANGED sinks_ \/ sinkReaders = {}
  PROVE  (SinkDue <=> SinkDue') /\ (WaitDue <=> WaitDue')
<1>1. client \in Thread
  BY WaitingAssumption DEF WaitingAssumption
<1>2. ToDispatch(client) <=> ToDispatch(client)'
  BY DEF ToDispatch
<1>3. CASE UNCHANGED sinks_
  BY <1>2, <1>3 DEF SinkDue, WaitDue, SinkAhead
<1>4. CASE sinkReaders = {}
  <2>1. pc[client] \notin {"send", "WaitTillSent"}
    BY <1>1, <1>4 DEF Inv, SinkLoopInv, HoldsSinks
  <2> QED
    BY <1>2, <2>1 DEF SinkDue, WaitDue
<1> QED
  BY <1>3, <1>4

\* A step of another thread's message is nothing to the client.
LEMMA OthersDue ==
  ASSUME Inv, OrdinaryInv, NEW t \in Thread, ThreadNext(t), UNCHANGED sinks_,
         t # client
  PROVE  /\ (SinkDue <=> SinkDue') /\ (WaitDue <=> WaitDue')
         /\ pc'[client] = pc[client] /\ ops'[client] = ops[client]
<1>1. client \in Thread
  BY WaitingAssumption DEF WaitingAssumption
<1>2. /\ pc'[client] = pc[client] /\ idx'[client] = idx[client]
      /\ ops'[client] = ops[client]
  BY <1>1, OthersKept DEF Inv
<1>3. data'[client] = data[client]
  <2>1. slot[client] = client /\ client # Shared
    BY <1>1, MessageAssumption DEF OrdinaryInv, Ordinary, MessageAssumption
  <2> QED
    BY <1>1, <2>1, OthersData, MessageAssumption
<1> QED
  BY <1>2, <1>3 DEF SinkDue, WaitDue, ToDispatch, SinkAhead

\* The beginning of a statement of the client's.
LEMMA ClientBegins ==
  ASSUME Inv, QueueInv, ClientLogs
  PROVE  QueueInv'
<1>1. /\ Construct(client) /\ client \in Thread /\ test = "log"
      /\ ops[client] <= Messages /\ Messages \in Nat
      /\ UNCHANGED <<test, pushed, popped, sinks_>>
  BY WaitingAssumption
  DEF ClientLogs, LogsTo, own, WaitingAssumption, Construct, destinations
<1>2. /\ pc[client] = "idle" /\ pc'[client] = "Init"
      /\ ops'[client] = ops[client] + 1 /\ ops[client] \in Nat
  BY <1>1 DEF Construct, Inv, TypeOK, ControlTypeOK, ThreadTypeOK
<1>3. ~SinkDue /\ ~WaitDue /\ SinkDue'
  BY <1>2 DEF SinkDue, WaitDue, ToDispatch
<1>4. popped' = Len(pushed')
  BY <1>1, <1>3 DEF QueueInv
<1>5. One(SinkDue) = 0 /\ One(SinkDue') = 1
  BY <1>3 DEF One
<1>6. /\ ops'[client] \in 1..(Messages + 1)
      /\ ops'[client] = Len(pushed') + 1 + One(SinkDue')
  <2>1. /\ ops[client] \in 1..(Messages + 1)
        /\ ops[client] = Len(pushed) + 1 + One(SinkDue) /\ Len(pushed) \in Nat
    BY <1>1, LenProperties DEF QueueInv
  <2> QED
    BY <1>1, <1>2, <1>5, <2>1
<1> QED
  BY <1>1, <1>4, <1>6 DEF QueueInv

\* A step of the client's message.
LEMMA ClientSteps ==
  ASSUME Inv, OrdinaryInv, Once, QueueInv, LogStep(client)
  PROVE  QueueInv'
<1>1. /\ client \in Thread /\ Step(client) /\ UNCHANGED <<test, popped>>
  BY WaitingAssumption DEF LogStep, WaitingAssumption
<1>2. /\ pc[client] # "idle" /\ UNCHANGED <<ops, sinks_>>
  BY <1>1, StepMoves
<1>3. test = "log" /\ test' = "log"
  BY <1>1, <1>2 DEF QueueInv
<1>4. EntryOf(client) \in Entry /\ EntryOf(client).id = <<client, ops[client]>>
  BY <1>1, <1>2, EntryType DEF Inv, EntryOf
<1>5. /\ \E k \in 1..Len(sinks_) : sinks_[k] = sink
      /\ ops[client] \in 1..(Messages + 1)
      /\ ops[client] = Len(pushed) + 1 + One(SinkDue)
      /\ pushed \in Seq(Entry) /\ Len(pushed) \in Nat /\ popped \in Nat
      /\ \A k \in 1..Len(pushed) : pushed[k].id = <<client, k + 1>>
  BY <1>3, LenProperties DEF QueueInv
<1>6. CASE /\ pushed' = pushed /\ (SinkDue <=> SinkDue')
           /\ ~SinkDue /\ WaitDue => NoWork \/ WaitDue'
  <2>1. One(SinkDue') = One(SinkDue)
    BY <1>6 DEF One
  <2>2. \/ popped' = Len(pushed')
        \/ popped' + 1 = Len(pushed') /\ ~SinkDue' /\ WaitDue'
    BY <1>1, <1>6 DEF QueueInv, NoWork
  <2> QED
    BY <1>1, <1>2, <1>3, <1>5, <1>6, <2>1, <2>2 DEF QueueInv
<1>7. CASE /\ pushed' = Append(pushed, EntryOf(client)) /\ SinkDue
           /\ ~SinkDue' /\ WaitDue'
  <2>1. /\ Len(pushed') = Len(pushed) + 1 /\ pushed' \in Seq(Entry)
        /\ pushed'[Len(pushed) + 1] = EntryOf(client)
        /\ \A k \in 1..Len(pushed) : pushed'[k] = pushed[k]
    BY <1>4, <1>5, <1>7, AppendProperties
  <2>2. One(SinkDue') = 0 /\ One(SinkDue) = 1
    BY <1>7 DEF One
  <2>3. popped' + 1 = Len(pushed')
    BY <1>1, <1>7, <2>1 DEF QueueInv
  <2>4. \A k \in 1..Len(pushed') : pushed'[k].id = <<client, k + 1>>
    <3>1. ops[client] = (Len(pushed) + 1) + 1
      BY <1>5, <2>2
    <3>2. \A k \in 1..Len(pushed') : k \in 1..Len(pushed) \/ k = Len(pushed) + 1
      BY <1>5, <2>1
    <3> QED
      BY <1>4, <1>5, <2>1, <3>1, <3>2
  <2>5. ops'[client] = Len(pushed') + 1 + One(SinkDue')
    BY <1>2, <1>5, <2>1, <2>2
  <2> QED
    BY <1>1, <1>2, <1>3, <1>5, <1>7, <2>1, <2>3, <2>4, <2>5 DEF QueueInv
<1> QED
  BY <1>5, <1>6, <1>7, ClientMessage

\* QueueInv is kept.
LEMMA QueueStep ==
  ASSUME Inv, OrdinaryInv, Once, QueueInv, [WaitingNext]_allVars
  PROVE  QueueInv'
<1>1. {client, writer} \subseteq Thread /\ client # writer
  BY WaitingAssumption DEF WaitingAssumption
<1>2. /\ pushed \in Seq(Entry) /\ popped \in Nat /\ Len(pushed) \in Nat
      /\ sinks_ \in Seq(Sink) /\ sink \in Sink
  BY LenProperties, WaitingAssumption
  DEF QueueInv, Inv, TypeOK, DestinationTypeOK, WaitingAssumption
<1>3. ASSUME UNCHANGED <<test, pushed, popped, sinks_>>,
             SinkDue <=> SinkDue', WaitDue <=> WaitDue',
             pc'[client] = pc[client], ops'[client] = ops[client]
      PROVE  QueueInv'
  <2>1. One(SinkDue') = One(SinkDue)
    BY <1>3 DEF One
  <2> QED
    BY <1>3, <2>1 DEF QueueInv
<1>4. CASE UNCHANGED <<test, pushed, popped, sinks_, pc, idx, data, ops>>
  BY <1>3, <1>4, DueKept
<1>5. ASSUME NEW t \in Thread, LogStep(t) PROVE QueueInv'
  <2>1. CASE t = client
    BY <1>5, <2>1, ClientSteps
  <2>2. CASE t # client
    <3>1. /\ Step(t) /\ ThreadNext(t)
          /\ UNCHANGED <<test, pushed, popped, sinks_>>
      BY <1>5, <2>2, StepMoves DEF LogStep, Buffer
    <3> QED
      BY <1>3, <2>2, <3>1, OthersDue
  <2> QED
    BY <2>1, <2>2
<1>6. ASSUME NEW t \in Thread \ {client}, Construct(t),
             UNCHANGED <<test, pushed, popped>>
      PROVE  QueueInv'
  <2>1. ThreadNext(t) /\ UNCHANGED sinks_
    BY <1>6 DEF ThreadNext, Construct, destinations
  <2> QED
    BY <1>3, <1>6, <2>1, OthersDue
<1>7. ASSUME NEW t \in Thread \ {client, writer}, Other(t) PROVE QueueInv'
  <2>1. CASE LogsTo(t, "SendToLog", NoTarget)
    BY <1>6, <1>7, <2>1 DEF Other, LogsTo, own
  <2>2. CASE Register(t)
    <3>1. PICK s \in SinkOps : /\ sinks_' = Append(sinks_, s) /\ s \in Sink
                               /\ sinkReaders = {}
                               /\ UNCHANGED <<pc, idx, data>>
                               /\ ops' = [ops EXCEPT ![t] = @ + 1]
      BY <2>2, MessageAssumption
      DEF Register, AddLogSink, Begin, dataVars, MessageAssumption
    <3>2. (SinkDue <=> SinkDue') /\ (WaitDue <=> WaitDue')
      BY <3>1, DueKept
    <3>3. ops'[client] = ops[client]
      BY <1>1, <1>7, <3>1 DEF Inv, TypeOK, ThreadTypeOK
    <3>4. (\E k \in 1..Len(sinks_) : sinks_[k] = sink) =>
            \E k \in 1..Len(sinks_') : sinks_'[k] = sink
      <4>1. /\ Len(sinks_) \in Nat /\ Len(sinks_') = Len(sinks_) + 1
            /\ \A k \in 1..Len(sinks_) : sinks_'[k] = sinks_[k]
        BY <1>2, <3>1, AppendProperties, LenProperties
      <4>2. \A k \in 1..Len(sinks_) : k \in 1..Len(sinks_')
        BY <4>1
      <4> QED
        BY <4>1, <4>2
    <3>5. One(SinkDue') = One(SinkDue)
      BY <3>2 DEF One
    <3>6. UNCHANGED <<test, pushed, popped, pc>>
      BY <1>7, <3>1 DEF Other, own
    <3> QED
      BY <3>2, <3>3, <3>4, <3>5, <3>6 DEF QueueInv
  <2> QED
    BY <1>7, <2>1, <2>2 DEF Other
<1>8. CASE WriterLogs
  BY <1>1, <1>6, <1>8 DEF WriterLogs, LogsTo
<1>9. CASE WriterTakes
  <2>1. /\ UNCHANGED <<test, pushed, sinks_, pc, idx, data, ops>>
        /\ popped' = popped + 1 /\ ~NoWork
    BY <1>9 DEF WriterTakes, vars, destinations, dataVars, threadVars
  <2>2. popped' = Len(pushed')
    BY <2>1 DEF QueueInv, NoWork
  <2>3. popped' \in Nat
    BY <1>2, <2>1
  <2>4. SinkDue <=> SinkDue'
    BY <2>1, DueKept
  <2>5. One(SinkDue') = One(SinkDue)
    BY <2>4 DEF One
  <2> QED
    BY <2>1, <2>2, <2>3, <2>5 DEF QueueInv
<1>10. CASE WriterPushes \/ WriterExits
  BY <1>4, <1>10
  DEF WriterPushes, WriterExits, vars, destinations, dataVars, threadVars
<1>11. CASE Construction
  <2>1. /\ test = "start" /\ test' = "log" /\ sinks_' = Append(sinks_, sink)
        /\ pc[client] = "idle" /\ UNCHANGED <<pc, pushed, popped>>
        /\ ops' = [ops EXCEPT ![client] = @ + 1]
    BY <1>11 DEF Construction, AddLogSink, Begin
  <2>2. ops[client] = 0 /\ Len(pushed) = 0
    BY <2>1 DEF QueueInv
  <2>3. ops'[client] = 1
    BY <1>1, <2>1, <2>2 DEF Inv, TypeOK, ThreadTypeOK
  <2>4. ~SinkDue' /\ ~WaitDue
    BY <2>1 DEF SinkDue, WaitDue, ToDispatch
  <2>5. One(SinkDue') = 0
    BY <2>4 DEF One
  <2>6. sinks_'[Len(sinks_')] = sink /\ Len(sinks_') \in 1..Len(sinks_')
    BY <1>2, <2>1, AppendProperties, LenProperties
  <2>7. popped' = Len(pushed')
    BY <2>1, <2>4 DEF QueueInv
  <2>8. Messages \in Nat
    BY WaitingAssumption DEF WaitingAssumption
  <2> QED
    BY <2>1, <2>2, <2>3, <2>5, <2>6, <2>7, <2>8 DEF QueueInv
<1>12. CASE ClientLogs
  BY <1>12, ClientBegins
<1>13. CASE Removal
  <2>1. /\ test = "log" /\ test' = "Stop" /\ ops[client] = Messages + 1
        /\ pc[client] = "idle" /\ UNCHANGED <<pc, pushed, popped>>
    BY <1>13 DEF Removal, Begin
  <2>2. ~SinkDue /\ ~WaitDue
    BY <2>1 DEF SinkDue, WaitDue, ToDispatch
  <2>3. Len(pushed) = Messages
    <3>1. Messages + 1 = Len(pushed) + 1 + 0 /\ Messages \in Nat
      BY <2>1, <2>2, WaitingAssumption DEF QueueInv, One, WaitingAssumption
    <3> QED
      BY <1>2, <3>1
  <2>4. popped' = Len(pushed')
    BY <2>1, <2>2 DEF QueueInv
  <2> QED
    BY <2>1, <2>3, <2>4 DEF QueueInv
<1>14. CASE WriterStop \/ Join
  <2>1. /\ UNCHANGED <<pushed, popped, sinks_, pc, idx, data, ops>>
        /\ test \in {"Stop", "Join"} /\ test' \in {"Join", "done"}
    BY <1>14
    DEF WriterStop, Join, vars, destinations, dataVars, threadVars
  <2>2. ~WaitDue
    BY <2>1 DEF QueueInv, WaitDue
  <2> QED
    BY <2>1, <2>2 DEF QueueInv
<1>15. CASE Poll \/ WaitingStop \/ UNCHANGED allVars
  BY <1>4, <1>15
  DEF Poll, WaitingStop, allVars, own, vars, destinations, dataVars, threadVars
<1> QED
  BY <1>5, <1>7, <1>8, <1>9, <1>10, <1>11, <1>12, <1>13, <1>14, <1>15
  DEF WaitingNext, Writer, Client

\* A step that is of no message of the writer's own, takes nothing off the queue
\* and puts nothing in global_messages.
LEMMA WriterUndisturbed ==
  ASSUME QueueInv, WriterInv,
         UNCHANGED <<run, popped, global_messages, should_exit_>>,
         ops'[writer] = ops[writer], pc'[writer] = pc[writer],
         \/ pushed' = pushed
         \/ ~should_exit_ /\ \E e \in Entry : pushed' = Append(pushed, e),
         should_exit_ => test' \in {"Join", "done"},
         test' = "done" => run = "exit"
  PROVE  WriterInv'
<1>1. \A k \in 1..Len(global_messages) : pushed'[k] = pushed[k]
  <2>1. CASE pushed' = pushed
    BY <2>1
  <2>2. ASSUME NEW e \in Entry, pushed' = Append(pushed, e)
        PROVE  \A k \in 1..Len(global_messages) : pushed'[k] = pushed[k]
    <3>1. /\ pushed \in Seq(Entry) /\ Len(pushed) \in Nat
          /\ popped \in Nat /\ popped <= Len(pushed)
          /\ Len(global_messages) \in Nat /\ Len(global_messages) <= popped
      BY LenProperties DEF QueueInv, WriterInv, One
    <3>2. \A k \in 1..Len(global_messages) : k \in 1..Len(pushed)
      BY <3>1
    <3> QED
      BY <2>2, <3>1, <3>2, AppendProperties
  <2> QED
    BY <2>1, <2>2
<1>2. run = "exit" => popped = Len(pushed')
  BY DEF WriterInv
<1> QED
  BY <1>1, <1>2 DEF WriterInv

\* WriterInv is kept.
LEMMA WriterStep ==
  ASSUME Inv, QueueInv, WriterInv, [WaitingNext]_allVars
  PROVE  WriterInv'
<1>1. client \in Thread /\ writer \in Thread /\ client # writer
  BY WaitingAssumption DEF WaitingAssumption
<1>2. /\ pushed \in Seq(Entry) /\ popped \in Nat /\ Len(pushed) \in Nat
      /\ global_messages \in Seq(Entry) /\ Len(global_messages) \in Nat
      /\ ops[writer] \in Nat
  BY <1>1, LenProperties DEF QueueInv, WriterInv, Inv, TypeOK, ThreadTypeOK
<1>3. /\ should_exit_ => test \in {"Join", "done"}
      /\ test = "done" => run = "exit"
  BY DEF WriterInv
<1>4. CASE UNCHANGED <<run, popped, global_messages, should_exit_, pushed, test,
                       ops, pc>>
  BY <1>3, <1>4, WriterUndisturbed
<1>5. ASSUME NEW t \in Thread \ {writer}, ThreadNext(t),
             UNCHANGED <<run, popped, global_messages, should_exit_, test>>,
             \/ pushed' = pushed
             \/ ~should_exit_ /\ \E e \in Entry : pushed' = Append(pushed, e)
      PROVE  WriterInv'
  <2>1. ops'[writer] = ops[writer] /\ pc'[writer] = pc[writer]
    BY <1>1, <1>5, OthersKept DEF Inv
  <2> QED
    BY <1>3, <1>5, <2>1, WriterUndisturbed
<1>6. CASE LogStep(client)
  <2>1. /\ Step(client) /\ ThreadNext(client) /\ pc[client] # "idle"
        /\ UNCHANGED <<run, popped, global_messages, should_exit_, test>>
    BY <1>1, <1>6, StepMoves DEF LogStep
  <2>2. ~should_exit_
    BY <1>3, <2>1 DEF QueueInv
  <2>3. EntryOf(client) \in Entry
    BY <1>1, <2>1, EntryType DEF Inv
  <2>4. pushed' = pushed \/ pushed' = Append(pushed, EntryOf(client))
    BY <1>6 DEF LogStep, Buffer
  <2> QED
    BY <1>1, <1>5, <2>1, <2>2, <2>3, <2>4
<1>7. CASE LogStep(writer)
  <2>1. /\ pc[writer] # "idle" /\ UNCHANGED ops
        /\ UNCHANGED <<run, popped, global_messages, should_exit_, test, pushed>>
    BY <1>1, <1>7, StepMoves DEF LogStep, Buffer
  <2> QED
    BY <2>1 DEF WriterInv
<1>8. ASSUME NEW t \in Thread \ {client, writer}, LogStep(t) PROVE WriterInv'
  <2>1. /\ ThreadNext(t)
        /\ UNCHANGED <<run, popped, global_messages, should_exit_, test, pushed>>
    BY <1>8, StepMoves DEF LogStep, Buffer
  <2> QED
    BY <1>5, <1>8, <2>1
<1>9. ASSUME NEW t \in Thread \ {client, writer}, Other(t) PROVE WriterInv'
  <2>1. /\ ThreadNext(t)
        /\ UNCHANGED <<run, popped, global_messages, should_exit_, test, pushed>>
    BY <1>9 DEF Other, LogsTo, ThreadNext, own
  <2> QED
    BY <1>5, <1>9, <2>1
<1>10. CASE WriterTakes
  <2>1. /\ run = "Run" /\ run' = "first" /\ popped' = popped + 1
        /\ UNCHANGED <<pc, ops, test, pushed, should_exit_, global_messages>>
    BY <1>10 DEF WriterTakes, vars, threadVars
  <2>2. popped = Len(global_messages)
    BY <1>2, <2>1 DEF WriterInv, One
  <2> QED
    BY <1>2, <2>1, <2>2 DEF WriterInv, One
<1>11. CASE WriterLogs
  <2>1. /\ run \in {"first", "second"}
        /\ run' = IF run = "first" THEN "second" ELSE "push"
        /\ ops' = [ops EXCEPT ![writer] = @ + 1]
        /\ UNCHANGED <<test, pushed, popped, should_exit_, global_messages>>
    BY <1>11 DEF WriterLogs, LogsTo, Construct
  <2>2. ops'[writer] = ops[writer] + 1
    BY <1>1, <2>1 DEF Inv, TypeOK, ThreadTypeOK
  <2>3. ops'[writer] = 2 * Len(global_messages) +
          (IF run' = "second" THEN 1 ELSE IF run' = "push" THEN 2 ELSE 0)
    <3>1. CASE run = "first"
      <4>1. ops[writer] = 2 * Len(global_messages) + 0
        BY <3>1 DEF WriterInv
      <4> QED
        BY <1>2, <2>1, <2>2, <3>1, <4>1
    <3>2. CASE run = "second"
      <4>1. ops[writer] = 2 * Len(global_messages) + 1
        BY <3>2 DEF WriterInv
      <4> QED
        BY <1>2, <2>1, <2>2, <3>2, <4>1
    <3> QED
      BY <2>1, <3>1, <3>2
  <2>4. popped' =
          Len(global_messages') + One(run' \in {"first", "second", "push"})
    BY <2>1 DEF WriterInv, One
  <2> QED
    BY <2>1, <2>3, <2>4 DEF WriterInv
<1>12. CASE WriterPushes
  <2>1. /\ run = "push" /\ run' = "Run" /\ pc[writer] = "idle"
        /\ global_messages' = Append(global_messages, pushed[popped])
        /\ UNCHANGED <<pc, ops, test, pushed, popped, should_exit_>>
    BY <1>12 DEF WriterPushes, Free, vars, threadVars
  <2>2. popped = Len(global_messages) + 1 /\ popped <= Len(pushed)
    BY <1>2, <2>1 DEF WriterInv, QueueInv, One
  <2>3. pushed[popped] \in Entry
    BY <1>2, <2>2, ElementOfSeq
  <2>4. /\ Len(global_messages') = Len(global_messages) + 1
        /\ global_messages' \in Seq(Entry)
        /\ global_messages'[Len(global_messages) + 1] = pushed[popped]
        /\ \A k \in 1..Len(global_messages) :
             global_messages'[k] = global_messages[k]
    BY <1>2, <2>1, <2>3, AppendProperties
  <2>5. \A k \in 1..Len(global_messages') : global_messages'[k] = pushed'[k]
    <3>1. \A k \in 1..Len(global_messages') :
            k \in 1..Len(global_messages) \/ k = Len(global_messages) + 1
      BY <1>2, <2>4
    <3> QED
      BY <2>1, <2>2, <2>4, <3>1 DEF WriterInv
  <2>6. ops'[writer] = 2 * Len(global_messages') + 0
    <3>1. ops[writer] = 2 * Len(global_messages) + 2
      BY <2>1 DEF WriterInv
    <3> QED
      BY <1>2, <2>1, <2>4, <3>1
  <2>7. popped' = Len(global_messages') + 0
    BY <1>2, <2>1, <2>2, <2>4
  <2>8. (should_exit_ => test \in {"Join", "done"}) /\ test # "done"
    BY <1>3, <2>1
  <2> QED
    BY <2>1, <2>4, <2>5, <2>6, <2>7, <2>8 DEF WriterInv, One
<1>13. CASE WriterExits
  <2>1. /\ run = "Run" /\ run' = "exit" /\ should_exit_ /\ popped = Len(pushed)
        /\ UNCHANGED <<pc, ops, test, pushed, popped, should_exit_,
                       global_messages>>
    BY <1>13 DEF WriterExits, NoWork, vars, threadVars
  <2> QED
    BY <2>1 DEF WriterInv, One
<1>14. CASE Construction \/ ClientLogs \/ Removal
  <2>1. /\ UNCHANGED <<run, popped, global_messages, should_exit_, pushed>>
        /\ test \in {"start", "log"} /\ test' # "done"
    BY <1>14 DEF Construction, ClientLogs, Removal, own
  <2>2. ops'[writer] = ops[writer] /\ pc'[writer] = pc[writer]
    BY <1>1, <1>14
    DEF Construction, ClientLogs, LogsTo, Construct, Removal, Begin, Inv,
        TypeOK, ControlTypeOK, ThreadTypeOK
  <2>3. ~should_exit_
    BY <1>3, <2>1
  <2> QED
    BY <2>1, <2>2, <2>3, WriterUndisturbed
<1>15. CASE WriterStop
  <2>1. /\ test = "Stop" /\ test' = "Join" /\ should_exit_' = TRUE
        /\ UNCHANGED <<pc, ops, run, pushed, popped, global_messages>>
    BY <1>15 DEF WriterStop, vars, threadVars
  <2> QED
    BY <2>1 DEF WriterInv
<1>16. CASE Join
  <2>1. /\ run = "exit" /\ test' = "done"
        /\ UNCHANGED <<pc, ops, run, pushed, popped, global_messages,
                       should_exit_>>
    BY <1>16 DEF Join, vars, threadVars
  <2> QED
    BY <2>1 DEF WriterInv
<1>17. CASE Poll \/ WaitingStop \/ UNCHANGED allVars
  BY <1>4, <1>17 DEF Poll, WaitingStop, allVars, own, vars, threadVars
<1> QED
  BY <1>6, <1>7, <1>8, <1>9, <1>10, <1>11, <1>12, <1>13, <1>14, <1>15, <1>16,
     <1>17 DEF WaitingNext, Writer, Client

\* A message of the writer's is written to stderr once.
LEMMA WriterMessage ==
  ASSUME Inv, OrdinaryInv, Step(writer)
  PROVE  \/ stderr' = stderr /\ (StderrDue(writer) <=> StderrDue(writer)')
         \/ /\ stderr' = Append(stderr, EntryOf(writer))
            /\ StderrDue(writer) /\ ~StderrDue(writer)'
<1> USE DEF Inv, TypeOK, ControlTypeOK, ThreadTypeOK, DataTypeOK, StderrDue,
      ToDispatch
<1>1. /\ writer \in Thread /\ UNCHANGED <<slot, call>> /\ writer # client
  BY WaitingAssumption, StepMoves DEF WaitingAssumption
<1>2. /\ Ordinary(writer) /\ writer \in Slot /\ data[writer] \in Data
      /\ slot[writer] = writer /\ call[writer].method = "SendToLog"
  BY <1>1 DEF OrdinaryInv, Ordinary, Slot
<1>3. CASE InitFields(writer) \/ InitFlag(writer) \/ FlushActioned(writer)
  BY <1>1, <1>2, <1>3 DEF InitFields, InitFlag, FlushActioned, destinations,
      files
<1>4. CASE Stream(writer)
  <2>1. data'[writer].flushed = data[writer].flushed
    BY <1>1, <1>2, <1>4 DEF Stream, Data
  <2> QED
    BY <1>1, <1>2, <1>4, <2>1 DEF Stream, Ordinary, destinations, files
<1>5. CASE FlushIgnored(writer) \/ SetFlushed(writer)
  <2>1. /\ stderr' = stderr /\ data'[writer].flushed
        /\ \/ pc[writer] = "Flush" /\ data[writer].flushed
           \/ pc[writer] = "Flushed"
        /\ pc'[writer] \in {"Flush", "idle"}
    BY <1>1, <1>2, <1>5, SettingsAssumption, MessageAssumption
    DEF FlushIgnored, SetFlushed, FlushReturns, Ordinary, destinations, files,
        Data, SettingsAssumption, MessageAssumption
  <2> QED
    BY <2>1
<1>6. CASE LogTrace(writer)
  <2>1. pc'[writer] = "SendToLog" /\ stderr' = stderr
    BY <1>1, <1>2, <1>6
    DEF LogTrace, Ordinary, SinkMethods, OutMethods, destinations, files
  <2> QED
    BY <1>6, <2>1 DEF LogTrace
<1>7. CASE SendToLog(writer)
  BY <1>1, <1>2, <1>7, SettingsAssumption
  DEF SendToLog, WriteToStderr, StderrOnly, SettingsAssumption
<1>8. CASE SendToSink(writer)
  BY <1>2, <1>8 DEF SendToSink, Ordinary, OrdinaryPC, ToSinks
<1>9. CASE LogToSinks(writer) \/ LogToOneSink(writer) \/ LogToSinksEnds(writer)
  BY <1>1, <1>2, <1>9
  DEF LogToSinks, LogToOneSink, LogToSinksEnds, Send, ReaderLock, ReaderUnlock,
      files
<1>10. CASE CountMessage(writer) \/ WaitForSink(writer) \/ WaitForSinks(writer)
            \/ WaitForOneSink(writer) \/ WaitForSinksEnds(writer)
  BY <1>1, <1>2, <1>10
  DEF CountMessage, WaitForSink, WaitForSinks, WaitForOneSink, WaitForSinksEnds,
      ReaderLock, ReaderUnlock, destinations, files, Ordinary
<1> QED
  BY <1>1, <1>3, <1>4, <1>5, <1>6, <1>7, <1>8, <1>9, <1>10, OrdinarySteps
  DEF OrdinaryStep

\* What is written to stderr leaves what others wrote there as it was.
LEMMA StderrAppended ==
  ASSUME stderr \in Seq(Entry), NEW e \in Entry, stderr' = Append(stderr, e),
         NEW t \in Thread, NEW k \in Nat
  PROVE  /\ e.id # <<t, k>> /\ OnStderr(t, k) => OnStderr(t, k)'
         /\ (\A i \in DOMAIN stderr : stderr[i].id # <<t, k>>) /\ e.id = <<t, k>>
              => OnStderr(t, k)'
<1> DEFINE n == Len(stderr)
<1>1. /\ n \in Nat /\ DOMAIN stderr = 1..n /\ DOMAIN stderr' = 1..(n + 1)
      /\ stderr'[n + 1] = e /\ \A i \in 1..n : stderr'[i] = stderr[i]
  BY AppendProperties, LenProperties
<1>2. /\ \A i \in 1..(n + 1) : i \in 1..n \/ i = n + 1
      /\ \A i \in 1..n : i \in 1..(n + 1) /\ i # n + 1
      /\ n + 1 \in 1..(n + 1)
  BY <1>1
<1> HIDE DEF n
<1>3. ASSUME e.id # <<t, k>>, OnStderr(t, k) PROVE OnStderr(t, k)'
  <2>1. PICK i \in 1..n :
          {j \in DOMAIN stderr : stderr[j].id = <<t, k>>} = {i}
    BY <1>1, <1>3 DEF OnStderr
  <2>2. \A j \in 1..n : stderr[j].id = <<t, k>> <=> j = i
    BY <1>1, <2>1
  <2>3. \A j \in 1..(n + 1) : stderr'[j].id = <<t, k>> <=> j = i
    BY <1>1, <1>2, <1>3, <2>2
  <2>4. {j \in DOMAIN stderr' : stderr'[j].id = <<t, k>>} = {i}
    BY <1>1, <1>2, <2>3
  <2> QED
    BY <1>1, <1>2, <2>4 DEF OnStderr
<1>4. ASSUME \A i \in DOMAIN stderr : stderr[i].id # <<t, k>>, e.id = <<t, k>>
      PROVE  OnStderr(t, k)'
  <2>1. \A j \in 1..(n + 1) : stderr'[j].id = <<t, k>> <=> j = n + 1
    BY <1>1, <1>2, <1>4
  <2>2. {j \in DOMAIN stderr' : stderr'[j].id = <<t, k>>} = {n + 1}
    BY <1>1, <1>2, <2>1
  <2> QED
    BY <1>1, <1>2, <2>2 DEF OnStderr
<1> QED
  BY <1>3, <1>4

\* What is not the writer's does not count.
LEMMA StderrOfOthers ==
  ASSUME Inv, StderrInv, Written' = Written,
         \/ stderr' = stderr
         \/ \E e \in Entry : stderr' = Append(stderr, e) /\ e.id[1] # writer
  PROVE  StderrInv'
<1>1. writer \in Thread /\ stderr \in Seq(Entry) /\ Written \in Nat
  BY WaitingAssumption
  DEF WaitingAssumption, Inv, TypeOK, DestinationTypeOK, StderrInv
<1>2. PICK n \in Nat : n = Written
  BY <1>1
<1>3. Written' = n
  BY <1>2
<1>4. CASE stderr' = stderr
  BY <1>3, <1>2, <1>4 DEF StderrInv, OnStderr
<1>5. ASSUME NEW e \in Entry, stderr' = Append(stderr, e), e.id[1] # writer
      PROVE  StderrInv'
  <2>1. \A k \in 1..n : OnStderr(writer, k)'
    <3> TAKE k \in 1..n
    <3>1. e.id # <<writer, k>> /\ k \in Nat
      BY <1>2, <1>5
    <3>2. OnStderr(writer, k)
      BY <1>2 DEF StderrInv
    <3> QED
      BY <1>1, <1>5, <3>1, <3>2, StderrAppended
  <2>2. \A i \in DOMAIN stderr' :
          stderr'[i].id[1] = writer => stderr'[i].id[2] <= n
    <3>1. /\ Len(stderr) \in Nat /\ DOMAIN stderr = 1..Len(stderr)
          /\ DOMAIN stderr' = 1..(Len(stderr) + 1)
          /\ stderr'[Len(stderr) + 1] = e
          /\ \A i \in 1..Len(stderr) : stderr'[i] = stderr[i]
      BY <1>1, <1>5, AppendProperties, LenProperties
    <3>2. \A i \in 1..(Len(stderr) + 1) :
            i \in 1..Len(stderr) \/ i = Len(stderr) + 1
      BY <3>1
    <3> QED
      BY <1>2, <1>5, <3>1, <3>2 DEF StderrInv
  <2> QED
    BY <1>2, <1>3, <2>1, <2>2 DEF StderrInv
<1> QED
  BY <1>4, <1>5

\* The message that the writer was to write to stderr is written.
LEMMA StderrOfWriter ==
  ASSUME Inv, StderrInv, UNCHANGED ops, pc[writer] # "idle",
         stderr' = Append(stderr, EntryOf(writer)),
         StderrDue(writer), ~StderrDue(writer)'
  PROVE  StderrInv'
<1>1. /\ writer \in Thread /\ stderr \in Seq(Entry) /\ ops[writer] \in Nat
      /\ EntryOf(writer) \in Entry /\ EntryOf(writer).id = <<writer, ops[writer]>>
  BY WaitingAssumption, EntryType
  DEF WaitingAssumption, Inv, TypeOK, DestinationTypeOK, ThreadTypeOK, EntryOf
<1>2. PICK n \in Nat : n = ops[writer]
  BY <1>1
<1>3. Written' = n
  BY <1>2 DEF Written, One
<1>4. Written = n - 1
  BY <1>2 DEF Written, One
<1>5. /\ n - 1 \in Nat
      /\ \A k \in 1..(n - 1) : OnStderr(writer, k)
      /\ \A i \in DOMAIN stderr :
           stderr[i].id[1] = writer => stderr[i].id[2] <= n - 1
  BY <1>4 DEF StderrInv
<1>6. \A k \in 1..n : OnStderr(writer, k)'
  <2> TAKE k \in 1..n
  <2>1. CASE k = n
    <3>1. EntryOf(writer).id = <<writer, k>> /\ k \in Nat
      BY <1>1, <1>2, <2>1
    <3>2. \A i \in DOMAIN stderr : stderr[i].id # <<writer, k>>
      <4>1. ~(n <= n - 1)
        BY <1>2
      <4> QED
        BY <1>5, <2>1, <4>1
    <3> QED
      BY <1>1, <3>1, <3>2, StderrAppended
  <2>2. CASE k # n
    <3>1. EntryOf(writer).id # <<writer, k>>
      BY <1>1, <1>2, <2>2
    <3>2. k \in 1..(n - 1) /\ k \in Nat
      BY <2>2
    <3> QED
      BY <1>1, <1>5, <3>1, <3>2, StderrAppended
  <2> QED
    BY <2>1, <2>2
<1>7. \A i \in DOMAIN stderr' :
        stderr'[i].id[1] = writer => stderr'[i].id[2] <= n
  <2>1. /\ Len(stderr) \in Nat /\ DOMAIN stderr = 1..Len(stderr)
        /\ DOMAIN stderr' = 1..(Len(stderr) + 1)
        /\ stderr'[Len(stderr) + 1] = EntryOf(writer)
        /\ \A i \in 1..Len(stderr) : stderr'[i] = stderr[i]
    BY <1>1, AppendProperties, LenProperties
  <2>2. \A i \in 1..(Len(stderr) + 1) :
          i \in 1..Len(stderr) \/ i = Len(stderr) + 1
    BY <2>1
  <2>3. EntryOf(writer).id[2] = n
    BY <1>1, <1>2
  <2>4. ASSUME NEW i \in 1..Len(stderr), stderr[i].id[1] = writer
        PROVE  stderr[i].id[2] <= n
    <3>1. stderr[i] \in Entry
      BY <1>1, ElementOfSeq
    <3>2. stderr[i].id[2] \in Nat
      BY <3>1 DEF Entry, MsgId
    <3>3. stderr[i].id[2] <= n - 1
      BY <1>5, <2>1, <2>4
    <3> QED
      BY <3>2, <3>3
  <2> QED
    BY <2>1, <2>2, <2>3, <2>4
<1> QED
  BY <1>3, <1>6, <1>7 DEF StderrInv

\* StderrInv is kept.
LEMMA StderrStep ==
  ASSUME Inv, OrdinaryInv, StderrInv, [WaitingNext]_allVars
  PROVE  StderrInv'
<1>1. client \in Thread /\ writer \in Thread /\ client # writer
  BY WaitingAssumption DEF WaitingAssumption
<1>2. CASE UNCHANGED <<stderr, ops, pc, data>>
  BY <1>2, StderrOfOthers DEF Written, StderrDue, ToDispatch, One
<1>3. ASSUME NEW t \in Thread \ {writer}, ThreadNext(t) PROVE StderrInv'
  <2>1. /\ pc'[writer] = pc[writer] /\ ops'[writer] = ops[writer]
    BY <1>1, <1>3, OthersKept DEF Inv
  <2>2. data'[writer] = data[writer]
    <3>1. slot[writer] = writer /\ writer # Shared
      BY <1>1, MessageAssumption DEF OrdinaryInv, Ordinary, MessageAssumption
    <3> QED
      BY <1>1, <1>3, <3>1, OthersData, MessageAssumption
  <2>3. StderrDue(writer) <=> StderrDue(writer)'
    BY <2>1, <2>2 DEF StderrDue, ToDispatch
  <2>4. Written' = Written
    BY <2>1, <2>3 DEF Written, One
  <2>5. EntryOf(t).id[1] # writer
    BY <1>3 DEF EntryOf
  <2>6. \/ stderr' = stderr
        \/ EntryOf(t) \in Entry /\ stderr' = Append(stderr, EntryOf(t))
    BY <1>3, Appends
  <2> QED
    BY <2>4, <2>5, <2>6, StderrOfOthers
<1>4. CASE LogStep(writer)
  <2>1. Step(writer) /\ UNCHANGED ops /\ pc[writer] # "idle"
    BY <1>1, <1>4, StepMoves DEF LogStep
  <2>2. CASE stderr' = stderr /\ (StderrDue(writer) <=> StderrDue(writer)')
    <3>1. Written' = Written
      BY <2>1, <2>2 DEF Written, One
    <3> QED
      BY <2>2, <3>1, StderrOfOthers
  <2>3. CASE /\ stderr' = Append(stderr, EntryOf(writer))
             /\ StderrDue(writer) /\ ~StderrDue(writer)'
    BY <2>1, <2>3, StderrOfWriter
  <2> QED
    BY <2>1, <2>2, <2>3, WriterMessage
<1>5. ASSUME NEW t \in Thread \ {writer}, LogStep(t) \/ Other(t) PROVE StderrInv'
  BY <1>3, <1>5 DEF LogStep, Other, LogsTo, ThreadNext
<1>6. CASE WriterLogs
  <2>1. /\ stderr' = stderr /\ pc[writer] = "idle" /\ pc'[writer] = "Init"
        /\ ops'[writer] = ops[writer] + 1 /\ ops[writer] \in Nat
    BY <1>1, <1>6
    DEF WriterLogs, LogsTo, Construct, destinations, files, Inv, TypeOK,
        ControlTypeOK, ThreadTypeOK
  <2>2. ~StderrDue(writer) /\ StderrDue(writer)'
    BY <2>1 DEF StderrDue, ToDispatch
  <2>3. Written = ops[writer] - 0 /\ Written' = ops'[writer] - 1
    BY <2>2 DEF Written, One
  <2>4. Written' = Written
    BY <2>1, <2>3
  <2> QED
    BY <2>1, <2>4, StderrOfOthers
<1>7. CASE WriterTakes \/ WriterPushes \/ WriterExits
  BY <1>2, <1>7
  DEF WriterTakes, WriterPushes, WriterExits, vars, destinations, files,
      dataVars, threadVars
<1>8. CASE Construction \/ Removal
  <2>1. /\ UNCHANGED <<stderr, pc, data>> /\ ops'[writer] = ops[writer]
    BY <1>1, <1>8
    DEF Construction, Removal, Begin, AddLogSink, RemoveLogSink, files, dataVars,
        Inv, TypeOK, ThreadTypeOK
  <2>2. Written' = Written
    BY <2>1 DEF Written, StderrDue, ToDispatch, One
  <2> QED
    BY <2>1, <2>2, StderrOfOthers
<1>9. CASE ClientLogs
  BY <1>1, <1>3, <1>9 DEF ClientLogs, LogsTo, ThreadNext
<1>10. CASE WriterStop \/ Join \/ Poll \/ WaitingStop \/ UNCHANGED allVars
  BY <1>2, <1>10
  DEF WriterStop, Join, Poll, WaitingStop, allVars, vars, destinations, files,
      dataVars, threadVars
<1> QED
  BY <1>1, <1>4, <1>5, <1>6, <1>7, <1>8, <1>9, <1>10
  DEF WaitingNext, Writer, Client

\* There is never a message left in the queue when the next one is taken, and
\* when the test is over everything the client logged has been taken, logged by
\* the writer and kept, in the client's order (waitTillSent_unittest.cc:209-213).
THEOREM NothingIsLeft == WaitingSpec => []NothingLeft
<1> DEFINE I == OrdinaryInv /\ SinkInv /\ QueueInv /\ WriterInv /\ StderrInv
<1>1. WaitingInit => I
  <2> SUFFICES ASSUME WaitingInit PROVE I
    OBVIOUS
  <2>1. client \in Thread /\ writer \in Thread
    BY WaitingAssumption DEF WaitingAssumption
  <2>2. /\ \A t \in Thread : pc[t] = "idle" /\ ops[t] = 0
        /\ stderr = <<>> /\ sinks_ = <<>> /\ test = "start" /\ run = "Run"
        /\ pushed = <<>> /\ popped = 0 /\ should_exit_ = FALSE
        /\ global_messages = <<>>
    BY DEF WaitingInit, Init, DestinationInit
  <2>3. OrdinaryInv
    BY DEF WaitingInit, Init, NoCall, OrdinaryInv, Ordinary, OrdinaryPC, ToSinks
  <2>4. SinkInv
    BY <2>2 DEF SinkInv, Unregistered, Once
  <2>5. QueueInv
    BY <2>1, <2>2 DEF QueueInv
  <2>6. WriterInv
    BY <2>1, <2>2 DEF WriterInv, One
  <2>7. StderrInv
    <3>1. Written = 0
      BY <2>1, <2>2 DEF Written, StderrDue, ToDispatch, One
    <3> QED
      BY <2>2, <3>1 DEF StderrInv
  <2> QED
    BY <2>3, <2>4, <2>5, <2>6, <2>7
<1>2. Inv /\ I /\ [WaitingNext]_allVars => I'
  BY SinkStep, OrdinaryKept, QueueStep, WriterStep, StderrStep DEF SinkInv
<1>3. Inv /\ I => NothingLeft
  <2> SUFFICES ASSUME Inv, I PROVE NothingLeft
    OBVIOUS
  <2>1. Len(pushed) <= popped + 1
    <3>1. Len(pushed) \in Nat /\ popped \in Nat
      BY LenProperties DEF QueueInv
    <3> QED
      BY <3>1 DEF QueueInv
  <2>2. ASSUME test = "done"
        PROVE  /\ Len(global_messages) = Messages
               /\ \A k \in 1..Messages : global_messages[k].id = <<client, k + 1>>
               /\ \A k \in 1..(2 * Messages) : OnStderr(writer, k)
               /\ \A i \in DOMAIN stderr :
                    stderr[i].id[1] = writer => stderr[i].id[2] <= 2 * Messages
    <3>1. /\ run = "exit" /\ popped = Len(pushed) /\ Len(pushed) = Messages
          /\ pc[writer] = "idle"
      BY <2>2 DEF WriterInv, QueueInv
    <3>2. Messages \in Nat /\ Len(global_messages) \in Nat
      BY LenProperties, WaitingAssumption DEF WriterInv, WaitingAssumption
    <3>3. Len(global_messages) = Messages
      <4>1. popped = Len(global_messages) + 0
        BY <3>1 DEF WriterInv, One
      <4> QED
        BY <3>1, <3>2, <4>1
    <3>4. Written = 2 * Messages
      <4>1. ops[writer] = 2 * Len(global_messages) + 0
        BY <3>1 DEF WriterInv
      <4>2. Written = ops[writer] - 0
        BY <3>1 DEF Written, StderrDue, ToDispatch, One
      <4> QED
        BY <3>2, <3>3, <4>1, <4>2
    <3> QED
      BY <3>1, <3>3, <3>4 DEF QueueInv, WriterInv, StderrInv
  <2> QED
    BY <2>1, <2>2 DEF NothingLeft
<1> QED
  BY <1>1, <1>2, <1>3, LogInvariance, PTL DEF WaitingSpec
=============================================================================
