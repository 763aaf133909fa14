-------------------------- MODULE LogMessageProofs --------------------------
(***************************************************************************)
(* Proofs about LogMessage: type correctness, the two lock disciplines,    *)
(* and what they give.  Inv is inductive; every step of it is one action.  *)
(***************************************************************************)
EXTENDS LogMessageProps, SequenceTheorems, TLAPS

USE DEF At, Goto, Me, Id, quiet, sinkVars

-----------------------------------------------------------------------------
(* Lemmas about the operators.                                             *)

\* Writing one character at the put position yields a text that reaches
\* beyond it and is no shorter than before.
LEMMA PutProperties ==
  ASSUME NEW b \in Text, NEW p \in Nat, p <= Len(b), NEW c \in MsgId
  PROVE  /\ Put(b, p, c) \in Text
         /\ Len(Put(b, p, c)) >= Len(b)
         /\ Len(Put(b, p, c)) >= p + 1
<1> DEFINE l == SubSeq(b, 1, p)
           m == <<c>>
           r == SubSeq(b, p + 2, Len(b))
<1>1. l \in Text /\ Len(l) = p
  BY SubSeqProperties, ElementOfSeq DEF Text
<1>2. m \in Text /\ Len(m) = 1
  BY DEF Text
<1>3. r \in Text /\ Len(r) = IF p + 2 <= Len(b) THEN Len(b) - p - 1 ELSE 0
  BY SubSeqProperties, ElementOfSeq DEF Text
<1>4. l \o m \in Text /\ Len(l \o m) = p + 1
  BY <1>1, <1>2, ConcatProperties DEF Text
<1>5. (l \o m) \o r \in Text /\ Len((l \o m) \o r) = p + 1 + Len(r)
  BY ZenonT(60), <1>3, <1>4, ConcatProperties DEF Text
<1>6. Put(b, p, c) = (l \o m) \o r
  BY DEF Put
<1>7. Len(b) \in Nat
  BY DEF Text
<1>8. Len(r) \in Nat /\ Len(r) >= Len(b) - p - 1
  BY <1>3, <1>7
<1> HIDE DEF l, m, r
<1>9. p + 1 + Len(r) >= Len(b) /\ p + 1 + Len(r) >= p + 1
  BY <1>7, <1>8
<1> QED
  BY <1>5, <1>6, <1>9

\* The first character written to an empty buffer is all there is in it.
LEMMA PutFirst ==
  ASSUME NEW c \in MsgId
  PROVE  Put(<<>>, 0, c) = <<c>>
<1>1. SubSeq(<<>>, 1, 0) = <<>> /\ SubSeq(<<>>, 0 + 2, Len(<<>>)) = <<>>
  BY SubSeqEmpty
<1>2. <<c>> \in Seq(MsgId)
  OBVIOUS
<1>3. <<>> \o <<c>> = <<c>> /\ <<c>> \o <<>> = <<c>>
  BY <1>2, ConcatEmptySeq
<1> QED
  BY <1>1, <1>3 DEF Put

\* What a thread that is inside a message passes on is an entry.
LEMMA EntryType ==
  ASSUME TypeOK, StreamInv, InProgressInv, NEW t \in Thread, pc[t] # "idle"
  PROVE  EntryOf(t) \in Entry
<1>1. slot[t] \in Slot /\ ops[t] \in Nat \ {0}
  BY DEF TypeOK, ThreadTypeOK, InProgressInv
<1>2. data[slot[t]] \in Data /\ buf[slot[t]] \in Seq(MsgId)
  BY <1>1 DEF TypeOK, DataTypeOK, Text
<1>3. data[slot[t]].num \in Nat /\ data[slot[t]].num <= Len(buf[slot[t]])
  BY <1>1, <1>2 DEF StreamInv, Data
<1>4. SubSeq(buf[slot[t]], 1, data[slot[t]].num) \in Text
  BY <1>2, <1>3, SubSeqProperties, ElementOfSeq DEF Text
<1> QED
  BY <1>1, <1>2, <1>4 DEF EntryOf, Entry, MsgId, Data

\* A step keeps the types of a thread's own variables; FlushReturns counts
\* down only a call of Flush that is under way.
LEMMA ThreadTypeStep ==
  ASSUME ThreadTypeOK, InProgressInv, MessageAssumption, [Next]_vars
  PROVE  ThreadTypeOK'
<1>1. ASSUME NEW t \in Thread, Construct(t) PROVE ThreadTypeOK'
  BY <1>1 DEF Construct, FatalSlot, Slot, MessageAssumption, ThreadTypeOK, vars,
      destinations, files, threadVars, dataVars, crashVars, globals, waits
<1>2. ASSUME NEW t \in Thread, FlushIgnored(t) PROVE ThreadTypeOK'
  BY <1>2 DEF FlushIgnored, FlushReturns, InProgressInv, ThreadTypeOK, vars,
      destinations, files, threadVars, dataVars, crashVars, globals, waits
<1>3. ASSUME NEW t \in Thread, SetFlushed(t) PROVE ThreadTypeOK'
  BY <1>3 DEF SetFlushed, FlushReturns, InProgressInv, ThreadTypeOK, vars,
      destinations, files, threadVars, dataVars, crashVars, globals, waits
<1>4. ASSUME NEW t \in Thread, Register(t) PROVE ThreadTypeOK'
  BY <1>4 DEF Register, Begin, AddLogSink, ThreadTypeOK, vars, destinations,
      files, threadVars, dataVars, crashVars, globals, waits
<1>5. ASSUME NEW t \in Thread, Unregister(t) PROVE ThreadTypeOK'
  BY <1>5 DEF Unregister, Begin, RemoveLogSink, ThreadTypeOK, vars,
      destinations, files, threadVars, dataVars, crashVars, globals, waits
<1>6. ASSUME NEW t \in Thread, InitGoogleLogging(t) PROVE ThreadTypeOK'
  BY <1>6 DEF InitGoogleLogging, Begin, ThreadTypeOK, vars, destinations,
      files, threadVars, dataVars, crashVars, globals, waits
<1>7. ASSUME NEW t \in Thread,
             InitFields(t) \/ InitFlag(t) \/ Stream(t) \/ FlushActioned(t) \/
             WildCall(t) \/ LogTrace(t) \/ SendToSink(t) \/ SendToLog(t) \/
             LogToAllLogfiles(t) \/ AfterLogfiles(t) \/ LogToSinks(t) \/
             LogToOneSink(t) \/ LogToSinksEnds(t) \/ RecordCrashReason(t) \/
             FlushAll(t) \/ Fail(t) \/ RewindShared(t) \/ Relock(t) \/
             CountMessage(t) \/ WaitForSink(t) \/ WaitForSinks(t) \/
             WaitForOneSink(t) \/ WaitForSinksEnds(t)
     PROVE  ThreadTypeOK'
  <2>1. UNCHANGED threadVars
    BY <1>7 DEF InitFields, InitFlag, Stream, FlushActioned, WildCall,
        LogTrace, SendToSink, SendToLog, LogToAllLogfiles, AfterLogfiles,
        LogToSinks, LogToOneSink, LogToSinksEnds, RecordCrashReason, FlushAll,
        Fail, RewindShared, Relock, CountMessage, WaitForSink, WaitForSinks,
        WaitForOneSink, WaitForSinksEnds, FlushAllLogfiles, MaybeLogToLogfile,
        MaybeLogToStderr, ReaderLock, ReaderUnlock, Send, Waited,
        WriteToStderr, threadVars
  <2> QED
    BY <2>1 DEF threadVars, ThreadTypeOK
<1>8. CASE UNCHANGED vars
  BY <1>8 DEF vars, destinations, files, threadVars, dataVars, crashVars,
      globals, waits, ThreadTypeOK
<1> QED
  BY <1>1, <1>2, <1>3, <1>4, <1>5, <1>6, <1>7, <1>8 DEF Next, Step, Stop

\* A step keeps the types of the message data and their buffers.
LEMMA DataTypeStep ==
  ASSUME TypeOK, StreamInv, InProgressInv, MessageAssumption,
         DestinationAssumption, [Next]_vars
  PROVE  DataTypeOK'
<1>1. ASSUME NEW t \in Thread, Construct(t) PROVE DataTypeOK'
  <2>1. Fresh \in Data
    BY DestinationAssumption DEF Fresh, Data, Severity, SendMethod, Target,
        DestinationAssumption
  <2>2. Slot = Thread \cup {Exclusive, Shared}
    BY DEF Slot
  <2>3. <<>> \in Text
    BY DEF Text
  <2>4. PICK s \in Slot :
          /\ data' = IF s = t THEN [data EXCEPT ![s] = Fresh]
                     ELSE [data EXCEPT ![s].first = (s = Exclusive)]
          /\ buf' = IF s = t THEN [buf EXCEPT ![s] = <<>>] ELSE buf
          /\ put' = IF s = t THEN [put EXCEPT ![s] = 0] ELSE put
    BY <1>1, <2>2 DEF Construct, FatalSlot
  <2>5. data' \in [Slot -> Data]
    <3>1. CASE s = t
 BY <3>1, <2>1, <2>4 DEF TypeOK, DataTypeOK
    <3>2. CASE s # t
      <4>1. [data[s] EXCEPT !.first = (s = Exclusive)] \in Data
 BY DEF TypeOK, DataTypeOK, Data
      <4> QED BY <3>2, <4>1, <2>4 DEF TypeOK, DataTypeOK
    <3> QED BY <3>1, <3>2
  <2> QED
    BY <2>3, <2>4, <2>5 DEF TypeOK, DataTypeOK
<1>2. ASSUME NEW t \in Thread, InitFields(t) PROVE DataTypeOK'
  <2> DEFINE d == [data[slot[t]] EXCEPT !.sev = call[t].sev,
                                      !.method = call[t].method]
  <2>1. slot[t] \in Slot /\ call[t] \in CallType
    BY DEF TypeOK, ThreadTypeOK
  <2>2. d \in Data
    <3>1. data[slot[t]] \in Data
      BY <2>1 DEF TypeOK, DataTypeOK
    <3>2. call[t].sev \in Severity /\ call[t].method \in SendMethod
      BY <2>1 DEF CallType
    <3> QED
      BY <3>1, <3>2 DEF Data
  <2>3. data' = [data EXCEPT ![slot[t]] = d] /\ UNCHANGED <<buf, put>>
    BY <1>2 DEF InitFields
  <2> QED
    BY <2>1, <2>2, <2>3 DEF TypeOK, DataTypeOK
<1>3. ASSUME NEW t \in Thread, Stream(t) PROVE DataTypeOK'
  <2> DEFINE s == slot[t]
             d == [data[s] EXCEPT !.target = call[t].target]
  <2>1. s \in Slot /\ call[t] \in CallType /\ Id(t) \in MsgId
    BY <1>3 DEF TypeOK, ThreadTypeOK, InProgressInv, Stream, MsgId
  <2>2. d \in Data
    BY <2>1 DEF TypeOK, DataTypeOK, Data, CallType
  <2>3. Put(buf[s], put[s], Id(t)) \in Text
    BY <2>1, PutProperties DEF TypeOK, DataTypeOK, StreamInv
  <2>4. /\ data' = data \/ data' = [data EXCEPT ![s] = d]
        /\ buf' = [buf EXCEPT ![s] = Put(buf[s], put[s], Id(t))]
        /\ put' = [put EXCEPT ![s] = put[s] + 1]
    BY <1>3 DEF Stream
  <2> HIDE DEF d
  <2> QED
    BY <2>1, <2>2, <2>3, <2>4 DEF TypeOK, DataTypeOK
<1>4. ASSUME NEW t \in Thread, FlushActioned(t) PROVE DataTypeOK'
  BY <1>4 DEF FlushActioned, Data, TypeOK, ThreadTypeOK, DataTypeOK, vars,
      destinations, files, threadVars, dataVars, crashVars, globals, waits
<1>5. ASSUME NEW t \in Thread, RewindShared(t) PROVE DataTypeOK'
  BY <1>5 DEF RewindShared, Slot, TypeOK, ThreadTypeOK, DataTypeOK, vars,
      destinations, files, threadVars, dataVars, crashVars, globals, waits
<1>6. ASSUME NEW t \in Thread, SetFlushed(t) \/ InitFlag(t) PROVE DataTypeOK'
  <2> DEFINE d(b) == [data[slot[t]] EXCEPT !.flushed = b]
  <2>1. slot[t] \in Slot
    BY DEF TypeOK, ThreadTypeOK
  <2>2. \A b \in BOOLEAN : d(b) \in Data
    BY ZenonT(60), <2>1 DEF TypeOK, DataTypeOK, Data
  <2>3. /\ \E b \in BOOLEAN : data' = [data EXCEPT ![slot[t]] = d(b)]
        /\ UNCHANGED <<buf, put>>
    BY <1>6 DEF SetFlushed, FlushReturns, InitFlag
  <2> HIDE DEF d
  <2> QED
    BY <2>1, <2>2, <2>3 DEF TypeOK, DataTypeOK
<1>7. ASSUME NEW t \in Thread,
             FlushIgnored(t) \/ WildCall(t) \/ LogTrace(t) \/ SendToSink(t) \/
             SendToLog(t) \/ LogToAllLogfiles(t) \/ AfterLogfiles(t) \/
             LogToSinks(t) \/ LogToOneSink(t) \/ LogToSinksEnds(t) \/
             RecordCrashReason(t) \/ FlushAll(t) \/ Fail(t) \/ Relock(t) \/
             CountMessage(t) \/ WaitForSink(t) \/ WaitForSinks(t) \/
             WaitForOneSink(t) \/ WaitForSinksEnds(t) \/ Register(t) \/
             Unregister(t) \/ InitGoogleLogging(t)
     PROVE  DataTypeOK'
  <2>1. UNCHANGED dataVars
    BY <1>7 DEF FlushIgnored, WildCall, LogTrace, SendToSink, SendToLog,
        LogToAllLogfiles, AfterLogfiles, LogToSinks, LogToOneSink,
        LogToSinksEnds, RecordCrashReason, FlushAll, Fail, Relock,
        CountMessage, WaitForSink, WaitForSinks, WaitForOneSink,
        WaitForSinksEnds, Register, Unregister, InitGoogleLogging, AddLogSink,
        Begin, FlushAllLogfiles, FlushReturns, MaybeLogToLogfile,
        MaybeLogToStderr, ReaderLock, ReaderUnlock, RemoveLogSink, Send,
        Waited, WriteToStderr, dataVars
  <2> QED
    BY <2>1 DEF dataVars, TypeOK, DataTypeOK
<1>8. CASE UNCHANGED vars
  BY <1>8 DEF vars, destinations, files, threadVars, dataVars, crashVars,
      globals, waits, TypeOK, ThreadTypeOK, DataTypeOK
<1> QED
  BY <1>1, <1>2, <1>3, <1>4, <1>5, <1>6, <1>7, <1>8 DEF Next, Step, Stop

\* A step keeps the types of the variables the threads share.
LEMMA GlobalTypeStep ==
  ASSUME TypeOK, StreamInv, InProgressInv, SinkLoopInv, MessageAssumption,
         DestinationAssumption, [Next]_vars
  PROVE  GlobalTypeOK'
<1>1. ASSUME NEW t \in Thread, Construct(t) PROVE GlobalTypeOK'
  BY SMTT(30), <1>1
      DEF Construct, FatalSlot, MessageAssumption, CallType, ControlTypeOK, TypeOK,
      GlobalTypeOK, vars, destinations, files, threadVars, dataVars,
      crashVars, globals, waits
<1>2. ASSUME NEW t \in Thread, WildCall(t) PROVE GlobalTypeOK'
  BY <1>2 DEF WildCall, TypeOK, GlobalTypeOK, vars, destinations, files,
      threadVars, dataVars, crashVars, globals, waits
<1>3. ASSUME NEW t \in Thread, LogTrace(t) PROVE GlobalTypeOK'
  <2>1. EntryOf(t) \in Entry
    BY <1>3, EntryType DEF LogTrace
  <2>2. Append(extracted[t], EntryOf(t)) \in Seq(Entry)
    BY <2>1, AppendProperties DEF TypeOK, GlobalTypeOK
  <2>3. \/ UNCHANGED extracted
        \/ extracted' = [extracted EXCEPT ![t] = Append(@, EntryOf(t))]
    BY <1>3 DEF LogTrace
  <2>4. UNCHANGED <<crashVars, globals, waits>>
    BY <1>3 DEF LogTrace
  <2>5. extracted' \in [Thread -> Seq(Entry)]
    BY <2>2, <2>3 DEF TypeOK, GlobalTypeOK
  <2> QED
    BY <2>4, <2>5 DEF TypeOK, GlobalTypeOK, crashVars, globals, waits
<1>4. ASSUME NEW t \in Thread, SendToSink(t) PROVE GlobalTypeOK'
  <2>1. \/ UNCHANGED owed
        \/ \E s \in Sink : owed' = [owed EXCEPT ![t] = @ \cup {s}]
    BY <1>4 DEF SendToSink
  <2>2. UNCHANGED <<extracted, crashVars, globals, excused>>
    BY <1>4 DEF SendToSink
  <2>3. owed \in [Thread -> SUBSET Sink]
    BY DEF TypeOK, GlobalTypeOK
  <2>4. owed' \in [Thread -> SUBSET Sink]
    BY <2>1, <2>3
  <2> QED
    BY <2>2, <2>4 DEF TypeOK, GlobalTypeOK, crashVars, globals
<1>5. ASSUME NEW t \in Thread, LogToOneSink(t) PROVE GlobalTypeOK'
  <2>1. sinks_[idx[t]] \in Sink
    BY <1>5, ElementOfSeq DEF LogToOneSink, TypeOK, DestinationTypeOK,
        ControlTypeOK, SinkLoopInv, HoldsSinks
  <2> QED
    BY <1>5, <2>1 DEF LogToOneSink, Send, TypeOK, GlobalTypeOK, globals,
        crashVars
<1>6. ASSUME NEW t \in Thread, RecordCrashReason(t) PROVE GlobalTypeOK'
  BY <1>6, EntryType DEF RecordCrashReason, Entry, TypeOK, GlobalTypeOK, vars,
      destinations, files, threadVars, dataVars, crashVars, globals, waits
<1>7. ASSUME NEW t \in Thread, Fail(t) PROVE GlobalTypeOK'
  BY <1>7 DEF Fail, TypeOK, GlobalTypeOK, vars, destinations, files,
      threadVars, dataVars, crashVars, globals, waits
<1>8. ASSUME NEW t \in Thread, CountMessage(t) PROVE GlobalTypeOK'
  BY <1>8 DEF CountMessage, ThreadTypeOK, DataTypeOK, Data, TypeOK,
      GlobalTypeOK, vars, destinations, files, threadVars, dataVars,
      crashVars, globals, waits
<1>9. ASSUME NEW t \in Thread, WaitForSink(t) PROVE GlobalTypeOK'
  <2>1. \/ UNCHANGED <<owed, excused>>
        \/ \E s \in Sink : Waited(t, s)
    BY <1>9 DEF WaitForSink, waits
  <2>2. UNCHANGED <<extracted, crashVars, globals>>
    BY <1>9 DEF WaitForSink
  <2>3. owed \in [Thread -> SUBSET Sink] /\ excused \in [Thread -> SUBSET Sink]
    BY DEF TypeOK, GlobalTypeOK
  <2>4. owed' \in [Thread -> SUBSET Sink] /\ excused' \in [Thread -> SUBSET Sink]
    BY <2>1, <2>3 DEF Waited
  <2> QED
    BY <2>2, <2>4 DEF TypeOK, GlobalTypeOK, crashVars, globals
<1>10. ASSUME NEW t \in Thread, WaitForOneSink(t) PROVE GlobalTypeOK'
  BY <1>10 DEF WaitForOneSink, Waited, TypeOK, GlobalTypeOK, vars,
      destinations, files, threadVars, dataVars, crashVars, globals, waits
<1>11. ASSUME NEW t \in Thread, Unregister(t) PROVE GlobalTypeOK'
  BY <1>11 DEF Unregister, Begin, RemoveLogSink, MessageAssumption, TypeOK,
      GlobalTypeOK, vars, destinations, files, threadVars, dataVars,
      crashVars, globals, waits
<1>12. ASSUME NEW t \in Thread, InitGoogleLogging(t) PROVE GlobalTypeOK'
  BY <1>12 DEF InitGoogleLogging, Begin, TypeOK, GlobalTypeOK, vars,
      destinations, files, threadVars, dataVars, crashVars, globals, waits
<1>13. ASSUME NEW t \in Thread,
             InitFields(t) \/ InitFlag(t) \/ Stream(t) \/ FlushIgnored(t)
             \/ FlushActioned(t) \/ SendToLog(t) \/ LogToAllLogfiles(t) \/
             AfterLogfiles(t) \/ LogToSinks(t) \/ LogToSinksEnds(t) \/
             FlushAll(t) \/ RewindShared(t) \/ Relock(t) \/ WaitForSinks(t) \/
             WaitForSinksEnds(t) \/ SetFlushed(t) \/ Register(t)
     PROVE  GlobalTypeOK'
  <2>1. UNCHANGED <<extracted, crashVars, globals, waits>>
    BY <1>13 DEF InitFields, InitFlag, Stream, FlushIgnored, FlushActioned,
        SendToLog, LogToAllLogfiles, AfterLogfiles, LogToSinks, LogToSinksEnds,
        FlushAll, RewindShared, Relock, WaitForSinks, WaitForSinksEnds,
        SetFlushed, Register, AddLogSink, Begin, FlushAllLogfiles,
        FlushReturns, MaybeLogToLogfile, MaybeLogToStderr, ReaderLock,
        ReaderUnlock, WriteToStderr, crashVars, globals, waits
  <2> QED
    BY <2>1 DEF crashVars, globals, waits, TypeOK, GlobalTypeOK
<1>14. CASE UNCHANGED vars
  BY <1>14 DEF vars, destinations, files, threadVars, dataVars, crashVars,
      globals, waits, TypeOK, GlobalTypeOK
<1> QED
  BY <1>1, <1>2, <1>3, <1>4, <1>5, <1>6, <1>7, <1>8, <1>9, <1>10, <1>11,
      <1>12, <1>13, <1>14 DEF Next, Step, Stop


\* The operations on the destinations keep their types.
LEMMA LogfileType ==
  ASSUME DestinationTypeOK, NEW i \in Severity, NEW e \in Entry,
         MaybeLogToLogfile(i, e)
  PROVE  /\ file' \in [Severity -> Seq(Entry)] /\ forced' \in [Severity -> Nat]
         /\ failed' \in SUBSET Severity
<1>1. Append(file[i], e) \in Seq(Entry) /\ Len(file[i]) \in Nat
  BY AppendProperties, LenProperties DEF DestinationTypeOK
<1>2. PICK fails \in SUBSET Severity :
        /\ forced' = [forced EXCEPT ![i] =
                        IF i > LogBufLevel /\ i \notin fails
                        THEN Len(file[i]) + 1 ELSE @]
        /\ failed' = failed \cup fails
  BY DEF MaybeLogToLogfile, WriteFails
<1> QED
  BY <1>1, <1>2 DEF MaybeLogToLogfile, DestinationTypeOK

\* Writing to stderr appends one entry.
LEMMA StderrType ==
  ASSUME DestinationTypeOK, NEW e \in Entry, WriteToStderr(e)
  PROVE  stderr' \in Seq(Entry)
BY AppendProperties DEF WriteToStderr, DestinationTypeOK

\* A sink is sent one entry.
LEMMA SendType ==
  ASSUME DestinationTypeOK, NEW s \in Sink, NEW e \in Entry, Send(s, e)
  PROVE  received' \in [Sink -> Seq(Entry)]
<1>1. Append(received[s], e) \in Seq(Entry)
  BY AppendProperties DEF DestinationTypeOK
<1> QED
  BY <1>1 DEF Send, DestinationTypeOK

\* RemoveLogSink leaves a vector of sinks.
LEMMA RemoveType ==
  ASSUME DestinationTypeOK, NEW s \in Sink, RemoveLogSink(s)
  PROVE  sinks_' \in Seq(Sink)
<1>1. CASE UNCHANGED sinks_
  BY <1>1 DEF DestinationTypeOK
<1>2. CASE ~UNCHANGED sinks_
  <2> DEFINE n == Len(sinks_)
  <2>1. sinks_ \in Seq(Sink) /\ n \in Nat
    BY LenProperties DEF DestinationTypeOK
  <2>2. PICK i \in 1..n : sinks_' = SubSeq([sinks_ EXCEPT ![i] = sinks_[n]], 1, n - 1)
    BY <1>2 DEF RemoveLogSink
  <2> DEFINE q == [sinks_ EXCEPT ![i] = sinks_[n]]
  <2>3. q \in Seq(Sink) /\ Len(q) = n
    BY <2>1, ExceptSeq, ElementOfSeq
  <2>4. \A j \in 1..(n - 1) : q[j] \in Sink
    BY <2>1, <2>3, ElementOfSeq
  <2> HIDE DEF q
  <2>5. SubSeq(q, 1, n - 1) \in Seq(Sink)
    BY <2>1, <2>4, SubSeqProperties
  <2> QED
    BY <2>2, <2>5 DEF q
<1> QED
  BY <1>1, <1>2

\* A step keeps the types of the destinations.
LEMMA DestinationTypeStep ==
  ASSUME TypeOK, StreamInv, InProgressInv, SinkLoopInv, MessageAssumption,
         DestinationAssumption, [Next]_vars
  PROVE  DestinationTypeOK'
<1>1. ASSUME NEW t \in Thread, SendToSink(t) PROVE DestinationTypeOK'
  <2>1. EntryOf(t) \in Entry
    BY <1>1, EntryType DEF SendToSink
  <2>2. \/ UNCHANGED destinations
        \/ \E s \in Sink : Send(s, EntryOf(t))
    BY <1>1 DEF SendToSink
  <2> QED
    BY <2>1, <2>2, SendType DEF TypeOK, Send, DestinationTypeOK, destinations,
        files
<1>2. ASSUME NEW t \in Thread, SendToLog(t) PROVE DestinationTypeOK'
  <2>1. EntryOf(t) \in Entry
    BY <1>2, EntryType DEF SendToLog
  <2>2. /\ UNCHANGED files \/ WriteToStderr(EntryOf(t))
        /\ UNCHANGED <<sinks_, sinkReaders, received>>
    BY <1>2 DEF SendToLog
  <2> QED
    BY <2>1, <2>2, StderrType DEF TypeOK, WriteToStderr, DestinationTypeOK,
        files
<1>3. ASSUME NEW t \in Thread, LogToAllLogfiles(t) PROVE DestinationTypeOK'
  <2>1. EntryOf(t) \in Entry
    BY <1>3, EntryType DEF LogToAllLogfiles
  <2>2. idx[t] \in Severity
    BY <1>3 DEF LogToAllLogfiles, InProgressInv
  <2>3. /\ MaybeLogToLogfile(idx[t], EntryOf(t))
        /\ UNCHANGED <<sinks_, sinkReaders, received, stderr>>
    BY <1>3 DEF LogToAllLogfiles, MaybeLogToLogfile
  <2> QED
    BY <2>1, <2>2, <2>3, LogfileType DEF TypeOK, DestinationTypeOK
<1>4. ASSUME NEW t \in Thread, AfterLogfiles(t) PROVE DestinationTypeOK'
  <2>1. EntryOf(t) \in Entry
    BY <1>4, EntryType DEF AfterLogfiles
  <2>2. /\ UNCHANGED files \/ WriteToStderr(EntryOf(t))
        /\ UNCHANGED <<sinks_, sinkReaders, received>>
    BY <1>4 DEF AfterLogfiles, MaybeLogToStderr
  <2> QED
    BY <2>1, <2>2, StderrType DEF TypeOK, WriteToStderr, DestinationTypeOK,
        files
<1>5. ASSUME NEW t \in Thread, LogToSinks(t) PROVE DestinationTypeOK'
  BY <1>5 DEF LogToSinks, ReaderLock, TypeOK, DestinationTypeOK, vars,
      destinations, files, threadVars, dataVars, crashVars, globals, waits
<1>6. ASSUME NEW t \in Thread, LogToOneSink(t) PROVE DestinationTypeOK'
  <2>1. EntryOf(t) \in Entry
    BY <1>6, EntryType DEF LogToOneSink
  <2>2. sinks_[idx[t]] \in Sink
    BY <1>6, ElementOfSeq DEF LogToOneSink, TypeOK, DestinationTypeOK,
        ControlTypeOK, SinkLoopInv, HoldsSinks
  <2>3. Send(sinks_[idx[t]], EntryOf(t))
    BY <1>6 DEF LogToOneSink
  <2> QED
    BY <2>1, <2>2, <2>3, SendType DEF TypeOK, Send, DestinationTypeOK, files
<1>7. ASSUME NEW t \in Thread, LogToSinksEnds(t) PROVE DestinationTypeOK'
  BY <1>7 DEF LogToSinksEnds, ReaderUnlock, TypeOK, DestinationTypeOK, vars,
      destinations, files, threadVars, dataVars, crashVars, globals, waits
<1>8. ASSUME NEW t \in Thread, FlushAll(t) PROVE DestinationTypeOK'
  <2>1. UNCHANGED <<sinks_, sinkReaders, received>>
    BY <1>8 DEF FlushAll
  <2>2. CASE UNCHANGED files
    BY <2>1, <2>2 DEF files, TypeOK, DestinationTypeOK
  <2>3. CASE FlushAllLogfiles
    <3>1. PICK fails \in SUBSET Severity :
            /\ forced' = [i \in Severity |->
                            IF i \in fails THEN forced[i] ELSE Len(file[i])]
            /\ failed' = failed \cup fails
      BY <2>3 DEF FlushAllLogfiles, WriteFails
    <3>2. \A i \in Severity : Len(file[i]) \in Nat
      BY LenProperties DEF TypeOK, DestinationTypeOK
    <3> QED
      BY <2>1, <2>3, <3>1, <3>2 DEF FlushAllLogfiles, TypeOK,
          DestinationTypeOK
  <2> QED
    BY <1>8, <2>2, <2>3 DEF FlushAll
<1>9. ASSUME NEW t \in Thread, WaitForSinks(t) PROVE DestinationTypeOK'
  BY <1>9 DEF WaitForSinks, ReaderLock, TypeOK, DestinationTypeOK, vars,
      destinations, files, threadVars, dataVars, crashVars, globals, waits
<1>10. ASSUME NEW t \in Thread, WaitForSinksEnds(t) PROVE DestinationTypeOK'
  BY <1>10 DEF WaitForSinksEnds, ReaderUnlock, TypeOK, DestinationTypeOK,
      vars, destinations, files, threadVars, dataVars, crashVars, globals,
      waits
<1>11. ASSUME NEW t \in Thread, Register(t) PROVE DestinationTypeOK'
  BY <1>11 DEF Register, Begin, AddLogSink, TypeOK, MessageAssumption,
      DestinationTypeOK, vars, destinations, files, threadVars, dataVars,
      crashVars, globals, waits
<1>12. ASSUME NEW t \in Thread, Unregister(t) PROVE DestinationTypeOK'
  <2>1. PICK s \in Sink : RemoveLogSink(s)
    BY <1>12 DEF Unregister, MessageAssumption
  <2> QED
    BY <2>1, RemoveType DEF RemoveLogSink, TypeOK, DestinationTypeOK, files
<1>13. ASSUME NEW t \in Thread,
             Construct(t) \/ InitFields(t) \/ InitFlag(t) \/ Stream(t) \/
             FlushIgnored(t) \/ FlushActioned(t) \/ WildCall(t) \/ LogTrace(t)
             \/ RecordCrashReason(t) \/ Fail(t) \/ RewindShared(t) \/ Relock(t)
             \/ CountMessage(t) \/ WaitForSink(t) \/ WaitForOneSink(t) \/
             SetFlushed(t) \/ InitGoogleLogging(t)
     PROVE  DestinationTypeOK'
  <2>1. UNCHANGED destinations
    BY <1>13 DEF Construct, FatalSlot, InitFields, InitFlag, Stream,
        FlushIgnored, FlushActioned, WildCall, LogTrace, RecordCrashReason,
        Fail, RewindShared, Relock, CountMessage, WaitForSink, WaitForOneSink,
        SetFlushed, InitGoogleLogging, Begin, FlushReturns, Waited,
        destinations
  <2> QED
    BY <2>1 DEF destinations, files, TypeOK, DestinationTypeOK
<1>14. CASE UNCHANGED vars
  BY <1>14 DEF TypeOK, vars, destinations, files, threadVars, dataVars,
      crashVars, globals, waits, DestinationTypeOK
<1> QED
  BY <1>1, <1>2, <1>3, <1>4, <1>5, <1>6, <1>7, <1>8, <1>9, <1>10, <1>11,
      <1>12, <1>13, <1>14 DEF Next, Step, Stop

\* A step keeps the types of the control variables.
LEMMA ControlTypeStep ==
  ASSUME TypeOK, InProgressInv, [Next]_vars
  PROVE  ControlTypeOK'
<1>1. ASSUME NEW t \in Thread, Construct(t) PROVE ControlTypeOK'
  BY <1>1 DEF Construct, FatalSlot, ControlTypeOK, PC, InDispatch, HoldsLog, SinkMethods,
      TypeOK, DestinationTypeOK, vars, destinations, files, threadVars,
      dataVars, crashVars, globals, waits
<1>2. ASSUME NEW t \in Thread, InitFields(t) \/ InitFlag(t) PROVE ControlTypeOK'
  BY <1>2 DEF InitFields, InitFlag, ControlTypeOK, PC, InDispatch, HoldsLog,
      SinkMethods, TypeOK, DestinationTypeOK, vars, destinations, files,
      threadVars, dataVars, crashVars, globals, waits
<1>3. ASSUME NEW t \in Thread, Stream(t) PROVE ControlTypeOK'
  BY <1>3 DEF Stream, ControlTypeOK, PC, InDispatch, HoldsLog, SinkMethods,
      TypeOK, DestinationTypeOK, vars, destinations, files, threadVars,
      dataVars, crashVars, globals, waits
<1>4. ASSUME NEW t \in Thread, FlushIgnored(t) PROVE ControlTypeOK'
  BY <1>4 DEF FlushIgnored, FlushReturns, ControlTypeOK, PC, InDispatch,
      HoldsLog, SinkMethods, TypeOK, DestinationTypeOK, vars, destinations,
      files, threadVars, dataVars, crashVars, globals, waits
<1>5. ASSUME NEW t \in Thread, FlushActioned(t) PROVE ControlTypeOK'
  BY <1>5 DEF FlushActioned, ControlTypeOK, PC, InDispatch, HoldsLog,
      SinkMethods, TypeOK, DestinationTypeOK, vars, destinations, files,
      threadVars, dataVars, crashVars, globals, waits
<1>6. ASSUME NEW t \in Thread, WildCall(t) PROVE ControlTypeOK'
  BY <1>6 DEF WildCall, ControlTypeOK, PC, InDispatch, HoldsLog, SinkMethods,
      TypeOK, DestinationTypeOK, vars, destinations, files, threadVars,
      dataVars, crashVars, globals, waits
<1>7. ASSUME NEW t \in Thread, LogTrace(t) PROVE ControlTypeOK'
  BY <1>7 DEF LogTrace, ControlTypeOK, PC, InDispatch, HoldsLog, SinkMethods,
      TypeOK, DestinationTypeOK, vars, destinations, files, threadVars,
      dataVars, crashVars, globals, waits
<1>8. ASSUME NEW t \in Thread, SendToSink(t) PROVE ControlTypeOK'
  BY <1>8 DEF SendToSink, Send, ControlTypeOK, PC, InDispatch, HoldsLog,
      SinkMethods, TypeOK, DestinationTypeOK, vars, destinations, files,
      threadVars, dataVars, crashVars, globals, waits
<1>9. ASSUME NEW t \in Thread, SendToLog(t) PROVE ControlTypeOK'
  <2>1. Me(t).sev \in Nat
    BY DEF TypeOK, ThreadTypeOK, DataTypeOK, Data, Severity
  <2> QED
    BY <1>9, <2>1 DEF SendToLog, TypeOK, ControlTypeOK, PC, InDispatch,
        HoldsLog
<1>10. ASSUME NEW t \in Thread, LogToAllLogfiles(t) PROVE ControlTypeOK'
  <2>1. idx[t] \in Nat
    BY DEF TypeOK, ControlTypeOK
  <2>2. \/ idx' = [idx EXCEPT ![t] = idx[t] - 1] /\ idx[t] > 0 /\ UNCHANGED pc
        \/ UNCHANGED idx /\ pc' = [pc EXCEPT ![t] = "MaybeLogToStderr"]
    BY <1>10, <2>1 DEF LogToAllLogfiles
  <2>3. UNCHANGED <<after, logMutex>>
    BY <1>10 DEF LogToAllLogfiles
  <2>4. idx' \in [Thread -> Nat] /\ pc' \in [Thread -> PC]
    BY <2>1, <2>2 DEF TypeOK, ControlTypeOK, PC, InDispatch, HoldsLog
  <2> QED
    BY <2>3, <2>4 DEF TypeOK, ControlTypeOK
<1>11. ASSUME NEW t \in Thread, AfterLogfiles(t) PROVE ControlTypeOK'
  BY <1>11 DEF AfterLogfiles, MaybeLogToStderr, WriteToStderr, ControlTypeOK,
      PC, InDispatch, HoldsLog, SinkMethods, TypeOK, DestinationTypeOK, vars,
      destinations, files, threadVars, dataVars, crashVars, globals, waits
<1>12. ASSUME NEW t \in Thread, LogToSinks(t) PROVE ControlTypeOK'
  BY <1>12 DEF LogToSinks, ReaderLock, ControlTypeOK, PC, InDispatch,
      HoldsLog, SinkMethods, TypeOK, DestinationTypeOK, vars, destinations,
      files, threadVars, dataVars, crashVars, globals, waits
<1>13. ASSUME NEW t \in Thread, LogToOneSink(t) PROVE ControlTypeOK'
  BY <1>13 DEF LogToOneSink, Send, ControlTypeOK, PC, InDispatch, HoldsLog,
      SinkMethods, TypeOK, DestinationTypeOK, vars, destinations, files,
      threadVars, dataVars, crashVars, globals, waits
<1>14. ASSUME NEW t \in Thread, LogToSinksEnds(t) PROVE ControlTypeOK'
  BY <1>14 DEF LogToSinksEnds, ReaderUnlock, ControlTypeOK, PC, InDispatch,
      HoldsLog, SinkMethods, TypeOK, DestinationTypeOK, vars, destinations,
      files, threadVars, dataVars, crashVars, globals, waits
<1>15. ASSUME NEW t \in Thread, RecordCrashReason(t) PROVE ControlTypeOK'
  BY <1>15 DEF RecordCrashReason, ControlTypeOK, PC, InDispatch, HoldsLog,
      SinkMethods, TypeOK, DestinationTypeOK, vars, destinations, files,
      threadVars, dataVars, crashVars, globals, waits
<1>16. ASSUME NEW t \in Thread, FlushAll(t) PROVE ControlTypeOK'
  BY <1>16 DEF FlushAll, FlushAllLogfiles, ControlTypeOK, PC, InDispatch,
      HoldsLog, SinkMethods, TypeOK, DestinationTypeOK, vars, destinations,
      files, threadVars, dataVars, crashVars, globals, waits
<1>17. ASSUME NEW t \in Thread, Fail(t) PROVE ControlTypeOK'
  BY <1>17 DEF Fail, ControlTypeOK, PC, InDispatch, HoldsLog, SinkMethods,
      TypeOK, DestinationTypeOK, vars, destinations, files, threadVars,
      dataVars, crashVars, globals, waits
<1>18. ASSUME NEW t \in Thread, RewindShared(t) PROVE ControlTypeOK'
  BY <1>18 DEF RewindShared, ControlTypeOK, PC, InDispatch, HoldsLog,
      SinkMethods, TypeOK, DestinationTypeOK, vars, destinations, files,
      threadVars, dataVars, crashVars, globals, waits
<1>19. ASSUME NEW t \in Thread, Relock(t) PROVE ControlTypeOK'
  BY <1>19 DEF Relock, ControlTypeOK, PC, InDispatch, HoldsLog, SinkMethods,
      TypeOK, DestinationTypeOK, vars, destinations, files, threadVars,
      dataVars, crashVars, globals, waits
<1>20. ASSUME NEW t \in Thread, CountMessage(t) PROVE ControlTypeOK'
  BY <1>20 DEF CountMessage, ControlTypeOK, PC, InDispatch, HoldsLog,
      SinkMethods, TypeOK, DestinationTypeOK, vars, destinations, files,
      threadVars, dataVars, crashVars, globals, waits
<1>21. ASSUME NEW t \in Thread, WaitForSink(t) PROVE ControlTypeOK'
  BY <1>21 DEF WaitForSink, Waited, ControlTypeOK, PC, InDispatch, HoldsLog,
      SinkMethods, TypeOK, DestinationTypeOK, vars, destinations, files,
      threadVars, dataVars, crashVars, globals, waits
<1>22. ASSUME NEW t \in Thread, WaitForSinks(t) PROVE ControlTypeOK'
  BY <1>22 DEF WaitForSinks, ReaderLock, ControlTypeOK, PC, InDispatch,
      HoldsLog, SinkMethods, TypeOK, DestinationTypeOK, vars, destinations,
      files, threadVars, dataVars, crashVars, globals, waits
<1>23. ASSUME NEW t \in Thread, WaitForOneSink(t) PROVE ControlTypeOK'
  BY <1>23 DEF WaitForOneSink, Waited, ControlTypeOK, PC, InDispatch,
      HoldsLog, SinkMethods, TypeOK, DestinationTypeOK, vars, destinations,
      files, threadVars, dataVars, crashVars, globals, waits
<1>24. ASSUME NEW t \in Thread, WaitForSinksEnds(t) PROVE ControlTypeOK'
  BY <1>24 DEF WaitForSinksEnds, ReaderUnlock, ControlTypeOK, PC, InDispatch,
      HoldsLog, SinkMethods, TypeOK, DestinationTypeOK, vars, destinations,
      files, threadVars, dataVars, crashVars, globals, waits
<1>25. ASSUME NEW t \in Thread, SetFlushed(t) PROVE ControlTypeOK'
  BY <1>25 DEF SetFlushed, FlushReturns, ControlTypeOK, PC, InDispatch,
      HoldsLog, SinkMethods, TypeOK, DestinationTypeOK, vars, destinations,
      files, threadVars, dataVars, crashVars, globals, waits
<1>26. ASSUME NEW t \in Thread, Register(t) PROVE ControlTypeOK'
  BY <1>26 DEF Register, Begin, AddLogSink, ControlTypeOK, PC, InDispatch,
      HoldsLog, SinkMethods, TypeOK, DestinationTypeOK, vars, destinations,
      files, threadVars, dataVars, crashVars, globals, waits
<1>27. ASSUME NEW t \in Thread, Unregister(t) PROVE ControlTypeOK'
  BY <1>27 DEF Unregister, Begin, RemoveLogSink, ControlTypeOK, PC,
      InDispatch, HoldsLog, SinkMethods, TypeOK, DestinationTypeOK, vars,
      destinations, files, threadVars, dataVars, crashVars, globals, waits
<1>28. ASSUME NEW t \in Thread, InitGoogleLogging(t) PROVE ControlTypeOK'
  BY <1>28 DEF InitGoogleLogging, Begin, ControlTypeOK, PC, InDispatch,
      HoldsLog, SinkMethods, TypeOK, DestinationTypeOK, vars, destinations,
      files, threadVars, dataVars, crashVars, globals, waits
<1>29. CASE UNCHANGED vars
  BY <1>29 DEF vars, destinations, files, threadVars, dataVars, crashVars,
      globals, waits, ControlTypeOK, PC, InDispatch, HoldsLog, SinkMethods,
      TypeOK, DestinationTypeOK
<1> QED
  BY <1>1, <1>2, <1>3, <1>4, <1>5, <1>6, <1>7, <1>8, <1>9, <1>10, <1>11,
      <1>12, <1>13, <1>14, <1>15, <1>16, <1>17, <1>18, <1>19, <1>20, <1>21,
      <1>22, <1>23, <1>24, <1>25, <1>26, <1>27, <1>28, <1>29 DEF Next, Step,
      Stop

\* A step keeps log_mutex owned by the one thread that dispatches.
LEMMA LogMutexStep ==
  ASSUME TypeOK, LogMutexInv, MessageAssumption, [Next]_vars
  PROVE  LogMutexInv'
<1>1. ASSUME NEW t \in Thread, Construct(t) PROVE LogMutexInv'
  BY <1>1 DEF Construct, FatalSlot, LogMutexInv, InDispatch, HoldsLog, SinkMethods,
      TypeOK, ControlTypeOK, MessageAssumption, vars, destinations, files,
      threadVars, dataVars, crashVars, globals, waits
<1>2. ASSUME NEW t \in Thread, InitFields(t) \/ InitFlag(t) PROVE LogMutexInv'
  BY <1>2 DEF InitFields, InitFlag, LogMutexInv, InDispatch, HoldsLog,
      SinkMethods, TypeOK, ControlTypeOK, MessageAssumption, vars,
      destinations, files, threadVars, dataVars, crashVars, globals, waits
<1>3. ASSUME NEW t \in Thread, Stream(t) PROVE LogMutexInv'
  BY <1>3 DEF Stream, LogMutexInv, InDispatch, HoldsLog, SinkMethods, TypeOK,
      ControlTypeOK, MessageAssumption, vars, destinations, files, threadVars,
      dataVars, crashVars, globals, waits
<1>4. ASSUME NEW t \in Thread, FlushIgnored(t) PROVE LogMutexInv'
  BY <1>4 DEF FlushIgnored, FlushReturns, LogMutexInv, InDispatch, HoldsLog,
      SinkMethods, TypeOK, ControlTypeOK, MessageAssumption, vars,
      destinations, files, threadVars, dataVars, crashVars, globals, waits
<1>5. ASSUME NEW t \in Thread, FlushActioned(t) PROVE LogMutexInv'
  BY <1>5 DEF FlushActioned, LogMutexInv, InDispatch, HoldsLog, SinkMethods,
      TypeOK, ControlTypeOK, MessageAssumption, vars, destinations, files,
      threadVars, dataVars, crashVars, globals, waits
<1>6. ASSUME NEW t \in Thread, WildCall(t) PROVE LogMutexInv'
  BY <1>6 DEF WildCall, LogMutexInv, InDispatch, HoldsLog, SinkMethods,
      TypeOK, ControlTypeOK, MessageAssumption, vars, destinations, files,
      threadVars, dataVars, crashVars, globals, waits
<1>7. ASSUME NEW t \in Thread, LogTrace(t) PROVE LogMutexInv'
  BY <1>7 DEF LogTrace, LogMutexInv, InDispatch, HoldsLog, SinkMethods,
      TypeOK, ControlTypeOK, MessageAssumption, vars, destinations, files,
      threadVars, dataVars, crashVars, globals, waits
<1>8. ASSUME NEW t \in Thread, SendToSink(t) PROVE LogMutexInv'
  BY <1>8 DEF SendToSink, Send, LogMutexInv, InDispatch, HoldsLog,
      SinkMethods, TypeOK, ControlTypeOK, MessageAssumption, vars,
      destinations, files, threadVars, dataVars, crashVars, globals, waits
<1>9. ASSUME NEW t \in Thread, SendToLog(t) PROVE LogMutexInv'
  BY <1>9 DEF SendToLog, WriteToStderr, LogMutexInv, InDispatch, HoldsLog,
      SinkMethods, TypeOK, ControlTypeOK, MessageAssumption, vars,
      destinations, files, threadVars, dataVars, crashVars, globals, waits
<1>10. ASSUME NEW t \in Thread, LogToAllLogfiles(t) PROVE LogMutexInv'
  BY <1>10 DEF LogToAllLogfiles, MaybeLogToLogfile, LogMutexInv, InDispatch,
      HoldsLog, SinkMethods, TypeOK, ControlTypeOK, MessageAssumption, vars,
      destinations, files, threadVars, dataVars, crashVars, globals, waits
<1>11. ASSUME NEW t \in Thread, AfterLogfiles(t) PROVE LogMutexInv'
  BY <1>11 DEF AfterLogfiles, MaybeLogToStderr, WriteToStderr, LogMutexInv,
      InDispatch, HoldsLog, SinkMethods, TypeOK, ControlTypeOK,
      MessageAssumption, vars, destinations, files, threadVars, dataVars,
      crashVars, globals, waits
<1>12. ASSUME NEW t \in Thread, LogToSinks(t) PROVE LogMutexInv'
  BY <1>12 DEF LogToSinks, ReaderLock, LogMutexInv, InDispatch, HoldsLog,
      SinkMethods, TypeOK, ControlTypeOK, MessageAssumption, vars,
      destinations, files, threadVars, dataVars, crashVars, globals, waits
<1>13. ASSUME NEW t \in Thread, LogToOneSink(t) PROVE LogMutexInv'
  BY <1>13 DEF LogToOneSink, Send, LogMutexInv, InDispatch, HoldsLog,
      SinkMethods, TypeOK, ControlTypeOK, MessageAssumption, vars,
      destinations, files, threadVars, dataVars, crashVars, globals, waits
<1>14. ASSUME NEW t \in Thread, LogToSinksEnds(t) PROVE LogMutexInv'
  BY <1>14 DEF LogToSinksEnds, ReaderUnlock, LogMutexInv, InDispatch,
      HoldsLog, SinkMethods, TypeOK, ControlTypeOK, MessageAssumption, vars,
      destinations, files, threadVars, dataVars, crashVars, globals, waits
<1>15. ASSUME NEW t \in Thread, RecordCrashReason(t) PROVE LogMutexInv'
  BY <1>15 DEF RecordCrashReason, LogMutexInv, InDispatch, HoldsLog,
      SinkMethods, TypeOK, ControlTypeOK, MessageAssumption, vars,
      destinations, files, threadVars, dataVars, crashVars, globals, waits
<1>16. ASSUME NEW t \in Thread, FlushAll(t) PROVE LogMutexInv'
  BY <1>16 DEF FlushAll, FlushAllLogfiles, LogMutexInv, InDispatch, HoldsLog,
      SinkMethods, TypeOK, ControlTypeOK, MessageAssumption, vars,
      destinations, files, threadVars, dataVars, crashVars, globals, waits
<1>17. ASSUME NEW t \in Thread, Fail(t) PROVE LogMutexInv'
  BY <1>17 DEF Fail, LogMutexInv, InDispatch, HoldsLog, SinkMethods, TypeOK,
      ControlTypeOK, MessageAssumption, vars, destinations, files, threadVars,
      dataVars, crashVars, globals, waits
<1>18. ASSUME NEW t \in Thread, RewindShared(t) PROVE LogMutexInv'
  BY <1>18 DEF RewindShared, LogMutexInv, InDispatch, HoldsLog, SinkMethods,
      TypeOK, ControlTypeOK, MessageAssumption, vars, destinations, files,
      threadVars, dataVars, crashVars, globals, waits
<1>19. ASSUME NEW t \in Thread, Relock(t) PROVE LogMutexInv'
  BY <1>19 DEF Relock, LogMutexInv, InDispatch, HoldsLog, SinkMethods, TypeOK,
      ControlTypeOK, MessageAssumption, vars, destinations, files, threadVars,
      dataVars, crashVars, globals, waits
<1>20. ASSUME NEW t \in Thread, CountMessage(t) PROVE LogMutexInv'
  BY <1>20 DEF CountMessage, LogMutexInv, InDispatch, HoldsLog, SinkMethods,
      TypeOK, ControlTypeOK, MessageAssumption, vars, destinations, files,
      threadVars, dataVars, crashVars, globals, waits
<1>21. ASSUME NEW t \in Thread, WaitForSink(t) PROVE LogMutexInv'
  BY <1>21 DEF WaitForSink, Waited, LogMutexInv, InDispatch, HoldsLog,
      SinkMethods, TypeOK, ControlTypeOK, MessageAssumption, vars,
      destinations, files, threadVars, dataVars, crashVars, globals, waits
<1>22. ASSUME NEW t \in Thread, WaitForSinks(t) PROVE LogMutexInv'
  BY <1>22 DEF WaitForSinks, ReaderLock, LogMutexInv, InDispatch, HoldsLog,
      SinkMethods, TypeOK, ControlTypeOK, MessageAssumption, vars,
      destinations, files, threadVars, dataVars, crashVars, globals, waits
<1>23. ASSUME NEW t \in Thread, WaitForOneSink(t) PROVE LogMutexInv'
  BY <1>23 DEF WaitForOneSink, Waited, LogMutexInv, InDispatch, HoldsLog,
      SinkMethods, TypeOK, ControlTypeOK, MessageAssumption, vars,
      destinations, files, threadVars, dataVars, crashVars, globals, waits
<1>24. ASSUME NEW t \in Thread, WaitForSinksEnds(t) PROVE LogMutexInv'
  BY <1>24 DEF WaitForSinksEnds, ReaderUnlock, LogMutexInv, InDispatch,
      HoldsLog, SinkMethods, TypeOK, ControlTypeOK, MessageAssumption, vars,
      destinations, files, threadVars, dataVars, crashVars, globals, waits
<1>25. ASSUME NEW t \in Thread, SetFlushed(t) PROVE LogMutexInv'
  BY <1>25 DEF SetFlushed, FlushReturns, LogMutexInv, InDispatch, HoldsLog,
      SinkMethods, TypeOK, ControlTypeOK, MessageAssumption, vars,
      destinations, files, threadVars, dataVars, crashVars, globals, waits
<1>26. ASSUME NEW t \in Thread, Register(t) PROVE LogMutexInv'
  BY <1>26 DEF Register, Begin, AddLogSink, LogMutexInv, InDispatch, HoldsLog,
      SinkMethods, TypeOK, ControlTypeOK, MessageAssumption, vars,
      destinations, files, threadVars, dataVars, crashVars, globals, waits
<1>27. ASSUME NEW t \in Thread, Unregister(t) PROVE LogMutexInv'
  BY <1>27 DEF Unregister, Begin, RemoveLogSink, LogMutexInv, InDispatch,
      HoldsLog, SinkMethods, TypeOK, ControlTypeOK, MessageAssumption, vars,
      destinations, files, threadVars, dataVars, crashVars, globals, waits
<1>28. ASSUME NEW t \in Thread, InitGoogleLogging(t) PROVE LogMutexInv'
  BY <1>28 DEF InitGoogleLogging, Begin, LogMutexInv, InDispatch, HoldsLog,
      SinkMethods, TypeOK, ControlTypeOK, MessageAssumption, vars,
      destinations, files, threadVars, dataVars, crashVars, globals, waits
<1>29. CASE UNCHANGED vars
  BY <1>29 DEF vars, destinations, files, threadVars, dataVars, crashVars,
      globals, waits, LogMutexInv, InDispatch, HoldsLog, SinkMethods, TypeOK,
      ControlTypeOK, MessageAssumption
<1> QED
  BY <1>1, <1>2, <1>3, <1>4, <1>5, <1>6, <1>7, <1>8, <1>9, <1>10, <1>11,
      <1>12, <1>13, <1>14, <1>15, <1>16, <1>17, <1>18, <1>19, <1>20, <1>21,
      <1>22, <1>23, <1>24, <1>25, <1>26, <1>27, <1>28, <1>29 DEF Next, Step,
      Stop

\* A step keeps the loops over sinks_ within the vector.
LEMMA SinkLoopStep ==
  ASSUME TypeOK, SinkLoopInv, [Next]_vars
  PROVE  SinkLoopInv'
<1>1. ASSUME NEW t \in Thread, Construct(t) PROVE SinkLoopInv'
  BY <1>1 DEF Construct, FatalSlot, SinkLoopInv, InDispatch, HoldsSinks, HoldsLog,
      SinkMethods, TypeOK, ControlTypeOK, DestinationTypeOK, vars,
      destinations, files, threadVars, dataVars, crashVars, globals, waits
<1>2. ASSUME NEW t \in Thread, InitFields(t) \/ InitFlag(t) PROVE SinkLoopInv'
  BY <1>2 DEF InitFields, InitFlag, SinkLoopInv, InDispatch, HoldsSinks,
      HoldsLog, SinkMethods, TypeOK, ControlTypeOK, DestinationTypeOK, vars,
      destinations, files, threadVars, dataVars, crashVars, globals, waits
<1>3. ASSUME NEW t \in Thread, Stream(t) PROVE SinkLoopInv'
  BY <1>3 DEF Stream, SinkLoopInv, InDispatch, HoldsSinks, HoldsLog,
      SinkMethods, TypeOK, ControlTypeOK, DestinationTypeOK, vars,
      destinations, files, threadVars, dataVars, crashVars, globals, waits
<1>4. ASSUME NEW t \in Thread, FlushIgnored(t) PROVE SinkLoopInv'
  BY <1>4 DEF FlushIgnored, FlushReturns, SinkLoopInv, InDispatch, HoldsSinks,
      HoldsLog, SinkMethods, TypeOK, ControlTypeOK, DestinationTypeOK, vars,
      destinations, files, threadVars, dataVars, crashVars, globals, waits
<1>5. ASSUME NEW t \in Thread, FlushActioned(t) PROVE SinkLoopInv'
  BY <1>5 DEF FlushActioned, SinkLoopInv, InDispatch, HoldsSinks, HoldsLog,
      SinkMethods, TypeOK, ControlTypeOK, DestinationTypeOK, vars,
      destinations, files, threadVars, dataVars, crashVars, globals, waits
<1>6. ASSUME NEW t \in Thread, WildCall(t) PROVE SinkLoopInv'
  BY <1>6 DEF WildCall, SinkLoopInv, InDispatch, HoldsSinks, HoldsLog,
      SinkMethods, TypeOK, ControlTypeOK, DestinationTypeOK, vars,
      destinations, files, threadVars, dataVars, crashVars, globals, waits
<1>7. ASSUME NEW t \in Thread, LogTrace(t) PROVE SinkLoopInv'
  BY <1>7 DEF LogTrace, SinkLoopInv, InDispatch, HoldsSinks, HoldsLog,
      SinkMethods, TypeOK, ControlTypeOK, DestinationTypeOK, vars,
      destinations, files, threadVars, dataVars, crashVars, globals, waits
<1>8. ASSUME NEW t \in Thread, SendToSink(t) PROVE SinkLoopInv'
  BY <1>8 DEF SendToSink, Send, SinkLoopInv, InDispatch, HoldsSinks, HoldsLog,
      SinkMethods, TypeOK, ControlTypeOK, DestinationTypeOK, vars,
      destinations, files, threadVars, dataVars, crashVars, globals, waits
<1>9. ASSUME NEW t \in Thread, SendToLog(t) PROVE SinkLoopInv'
  BY <1>9 DEF SendToLog, WriteToStderr, SinkLoopInv, InDispatch, HoldsSinks,
      HoldsLog, SinkMethods, TypeOK, ControlTypeOK, DestinationTypeOK, vars,
      destinations, files, threadVars, dataVars, crashVars, globals, waits
<1>10. ASSUME NEW t \in Thread, LogToAllLogfiles(t) PROVE SinkLoopInv'
  BY <1>10 DEF LogToAllLogfiles, MaybeLogToLogfile, SinkLoopInv, InDispatch,
      HoldsSinks, HoldsLog, SinkMethods, TypeOK, ControlTypeOK,
      DestinationTypeOK, vars, destinations, files, threadVars, dataVars,
      crashVars, globals, waits
<1>11. ASSUME NEW t \in Thread, AfterLogfiles(t) PROVE SinkLoopInv'
  BY <1>11 DEF AfterLogfiles, MaybeLogToStderr, WriteToStderr, SinkLoopInv,
      InDispatch, HoldsSinks, HoldsLog, SinkMethods, TypeOK, ControlTypeOK,
      DestinationTypeOK, vars, destinations, files, threadVars, dataVars,
      crashVars, globals, waits
<1>12. ASSUME NEW t \in Thread, LogToSinks(t) PROVE SinkLoopInv'
  BY <1>12 DEF LogToSinks, ReaderLock, SinkLoopInv, InDispatch, HoldsSinks,
      HoldsLog, SinkMethods, TypeOK, ControlTypeOK, DestinationTypeOK, vars,
      destinations, files, threadVars, dataVars, crashVars, globals, waits
<1>13. ASSUME NEW t \in Thread, LogToOneSink(t) PROVE SinkLoopInv'
  BY <1>13 DEF LogToOneSink, Send, SinkLoopInv, InDispatch, HoldsSinks,
      HoldsLog, SinkMethods, TypeOK, ControlTypeOK, DestinationTypeOK, vars,
      destinations, files, threadVars, dataVars, crashVars, globals, waits
<1>14. ASSUME NEW t \in Thread, LogToSinksEnds(t) PROVE SinkLoopInv'
  BY <1>14 DEF LogToSinksEnds, ReaderUnlock, SinkLoopInv, InDispatch,
      HoldsSinks, HoldsLog, SinkMethods, TypeOK, ControlTypeOK,
      DestinationTypeOK, vars, destinations, files, threadVars, dataVars,
      crashVars, globals, waits
<1>15. ASSUME NEW t \in Thread, RecordCrashReason(t) PROVE SinkLoopInv'
  BY <1>15 DEF RecordCrashReason, SinkLoopInv, InDispatch, HoldsSinks,
      HoldsLog, SinkMethods, TypeOK, ControlTypeOK, DestinationTypeOK, vars,
      destinations, files, threadVars, dataVars, crashVars, globals, waits
<1>16. ASSUME NEW t \in Thread, FlushAll(t) PROVE SinkLoopInv'
  BY <1>16 DEF FlushAll, FlushAllLogfiles, SinkLoopInv, InDispatch,
      HoldsSinks, HoldsLog, SinkMethods, TypeOK, ControlTypeOK,
      DestinationTypeOK, vars, destinations, files, threadVars, dataVars,
      crashVars, globals, waits
<1>17. ASSUME NEW t \in Thread, Fail(t) PROVE SinkLoopInv'
  BY <1>17 DEF Fail, SinkLoopInv, InDispatch, HoldsSinks, HoldsLog,
      SinkMethods, TypeOK, ControlTypeOK, DestinationTypeOK, vars,
      destinations, files, threadVars, dataVars, crashVars, globals, waits
<1>18. ASSUME NEW t \in Thread, RewindShared(t) PROVE SinkLoopInv'
  BY <1>18 DEF RewindShared, SinkLoopInv, InDispatch, HoldsSinks, HoldsLog,
      SinkMethods, TypeOK, ControlTypeOK, DestinationTypeOK, vars,
      destinations, files, threadVars, dataVars, crashVars, globals, waits
<1>19. ASSUME NEW t \in Thread, Relock(t) PROVE SinkLoopInv'
  BY <1>19 DEF Relock, SinkLoopInv, InDispatch, HoldsSinks, HoldsLog,
      SinkMethods, TypeOK, ControlTypeOK, DestinationTypeOK, vars,
      destinations, files, threadVars, dataVars, crashVars, globals, waits
<1>20. ASSUME NEW t \in Thread, CountMessage(t) PROVE SinkLoopInv'
  BY <1>20 DEF CountMessage, SinkLoopInv, InDispatch, HoldsSinks, HoldsLog,
      SinkMethods, TypeOK, ControlTypeOK, DestinationTypeOK, vars,
      destinations, files, threadVars, dataVars, crashVars, globals, waits
<1>21. ASSUME NEW t \in Thread, WaitForSink(t) PROVE SinkLoopInv'
  BY <1>21 DEF WaitForSink, Waited, SinkLoopInv, InDispatch, HoldsSinks,
      HoldsLog, SinkMethods, TypeOK, ControlTypeOK, DestinationTypeOK, vars,
      destinations, files, threadVars, dataVars, crashVars, globals, waits
<1>22. ASSUME NEW t \in Thread, WaitForSinks(t) PROVE SinkLoopInv'
  BY <1>22 DEF WaitForSinks, ReaderLock, SinkLoopInv, InDispatch, HoldsSinks,
      HoldsLog, SinkMethods, TypeOK, ControlTypeOK, DestinationTypeOK, vars,
      destinations, files, threadVars, dataVars, crashVars, globals, waits
<1>23. ASSUME NEW t \in Thread, WaitForOneSink(t) PROVE SinkLoopInv'
  BY <1>23 DEF WaitForOneSink, Waited, SinkLoopInv, InDispatch, HoldsSinks,
      HoldsLog, SinkMethods, TypeOK, ControlTypeOK, DestinationTypeOK, vars,
      destinations, files, threadVars, dataVars, crashVars, globals, waits
<1>24. ASSUME NEW t \in Thread, WaitForSinksEnds(t) PROVE SinkLoopInv'
  BY <1>24 DEF WaitForSinksEnds, ReaderUnlock, SinkLoopInv, InDispatch,
      HoldsSinks, HoldsLog, SinkMethods, TypeOK, ControlTypeOK,
      DestinationTypeOK, vars, destinations, files, threadVars, dataVars,
      crashVars, globals, waits
<1>25. ASSUME NEW t \in Thread, SetFlushed(t) PROVE SinkLoopInv'
  BY <1>25 DEF SetFlushed, FlushReturns, SinkLoopInv, InDispatch, HoldsSinks,
      HoldsLog, SinkMethods, TypeOK, ControlTypeOK, DestinationTypeOK, vars,
      destinations, files, threadVars, dataVars, crashVars, globals, waits
<1>26. ASSUME NEW t \in Thread, Register(t) PROVE SinkLoopInv'
  BY <1>26 DEF Register, Begin, AddLogSink, SinkLoopInv, InDispatch,
      HoldsSinks, HoldsLog, SinkMethods, TypeOK, ControlTypeOK,
      DestinationTypeOK, vars, destinations, files, threadVars, dataVars,
      crashVars, globals, waits
<1>27. ASSUME NEW t \in Thread, Unregister(t) PROVE SinkLoopInv'
  BY <1>27 DEF Unregister, Begin, RemoveLogSink, SinkLoopInv, InDispatch,
      HoldsSinks, HoldsLog, SinkMethods, TypeOK, ControlTypeOK,
      DestinationTypeOK, vars, destinations, files, threadVars, dataVars,
      crashVars, globals, waits
<1>28. ASSUME NEW t \in Thread, InitGoogleLogging(t) PROVE SinkLoopInv'
  BY <1>28 DEF InitGoogleLogging, Begin, SinkLoopInv, InDispatch, HoldsSinks,
      HoldsLog, SinkMethods, TypeOK, ControlTypeOK, DestinationTypeOK, vars,
      destinations, files, threadVars, dataVars, crashVars, globals, waits
<1>29. CASE UNCHANGED vars
  BY <1>29 DEF vars, destinations, files, threadVars, dataVars, crashVars,
      globals, waits, SinkLoopInv, InDispatch, HoldsSinks, HoldsLog,
      SinkMethods, TypeOK, ControlTypeOK, DestinationTypeOK
<1> QED
  BY <1>1, <1>2, <1>3, <1>4, <1>5, <1>6, <1>7, <1>8, <1>9, <1>10, <1>11,
      <1>12, <1>13, <1>14, <1>15, <1>16, <1>17, <1>18, <1>19, <1>20, <1>21,
      <1>22, <1>23, <1>24, <1>25, <1>26, <1>27, <1>28, <1>29 DEF Next, Step,
      Stop

\* A step keeps every message in progress accounted for.
LEMMA InProgressStep ==
  ASSUME TypeOK, InProgressInv, MessageAssumption, DestinationAssumption,
         [Next]_vars
  PROVE  InProgressInv'
<1>1. ASSUME NEW t \in Thread, Construct(t) PROVE InProgressInv'
  BY <1>1 DEF Construct, FatalSlot, InProgressInv, TypeOK, ControlTypeOK, ThreadTypeOK,
      MessageAssumption, DestinationAssumption, vars, destinations, files,
      threadVars, dataVars, crashVars, globals, waits
<1>2. ASSUME NEW t \in Thread, InitFields(t) \/ InitFlag(t) PROVE InProgressInv'
  BY <1>2 DEF InitFields, InitFlag, InProgressInv, TypeOK, ControlTypeOK,
      ThreadTypeOK, MessageAssumption, DestinationAssumption, vars,
      destinations, files, threadVars, dataVars, crashVars, globals, waits
<1>3. ASSUME NEW t \in Thread, Stream(t) PROVE InProgressInv'
  BY <1>3 DEF Stream, InProgressInv, TypeOK, ControlTypeOK, ThreadTypeOK,
      MessageAssumption, DestinationAssumption, vars, destinations, files,
      threadVars, dataVars, crashVars, globals, waits
<1>4. ASSUME NEW t \in Thread, FlushIgnored(t) PROVE InProgressInv'
  BY <1>4 DEF FlushIgnored, FlushReturns, InProgressInv, TypeOK,
      ControlTypeOK, ThreadTypeOK, MessageAssumption, DestinationAssumption,
      vars, destinations, files, threadVars, dataVars, crashVars, globals,
      waits
<1>5. ASSUME NEW t \in Thread, FlushActioned(t) PROVE InProgressInv'
  BY <1>5 DEF FlushActioned, InProgressInv, TypeOK, ControlTypeOK,
      ThreadTypeOK, MessageAssumption, DestinationAssumption, vars,
      destinations, files, threadVars, dataVars, crashVars, globals, waits
<1>6. ASSUME NEW t \in Thread, WildCall(t) PROVE InProgressInv'
  BY <1>6 DEF WildCall, InProgressInv, TypeOK, ControlTypeOK, ThreadTypeOK,
      MessageAssumption, DestinationAssumption, vars, destinations, files,
      threadVars, dataVars, crashVars, globals, waits
<1>7. ASSUME NEW t \in Thread, LogTrace(t) PROVE InProgressInv'
  <2>1. PICK l \in {"Count", "SendToSink", "SendToSinkAndLog", "SendToLog"} :
          pc' = [pc EXCEPT ![t] = l]
    BY <1>7 DEF LogTrace, SinkMethods
  <2>2. pc[t] = "LogTrace" /\ UNCHANGED <<ops, flushes, idx>>
    BY <1>7 DEF LogTrace, threadVars
  <2> QED
    BY <2>1, <2>2 DEF InProgressInv, TypeOK, ControlTypeOK
<1>8. ASSUME NEW t \in Thread, SendToSink(t) PROVE InProgressInv'
  BY <1>8 DEF SendToSink, Send, InProgressInv, TypeOK, ControlTypeOK,
      ThreadTypeOK, MessageAssumption, DestinationAssumption, vars,
      destinations, files, threadVars, dataVars, crashVars, globals, waits
<1>9. ASSUME NEW t \in Thread, SendToLog(t) PROVE InProgressInv'
  <2>1. Me(t).sev \in Severity
    BY DEF TypeOK, ThreadTypeOK, DataTypeOK, Data
  <2>2. \/ pc' = [pc EXCEPT ![t] = "LogToSinks"] /\ UNCHANGED idx
        \/ /\ pc' = [pc EXCEPT ![t] = "LogToAllLogfiles"]
           /\ idx' = [idx EXCEPT ![t] = Me(t).sev]
    BY <1>9 DEF SendToLog
  <2>3. pc[t] = "SendToLog" /\ UNCHANGED <<ops, flushes>>
    BY <1>9 DEF SendToLog, threadVars
  <2> HIDE DEF Me
  <2> QED
    BY <2>1, <2>2, <2>3 DEF InProgressInv, TypeOK, ControlTypeOK
<1>10. ASSUME NEW t \in Thread, LogToAllLogfiles(t) PROVE InProgressInv'
  <2>1. idx[t] \in Severity /\ pc[t] = "LogToAllLogfiles"
    BY <1>10 DEF LogToAllLogfiles, InProgressInv
  <2>2. idx[t] > 0 => idx[t] - 1 \in Severity
    BY <2>1, DestinationAssumption DEF Severity, DestinationAssumption
  <2>3. \/ /\ idx[t] > 0
           /\ idx' = [idx EXCEPT ![t] = idx[t] - 1] /\ UNCHANGED pc
        \/ UNCHANGED idx /\ pc' = [pc EXCEPT ![t] = "MaybeLogToStderr"]
    BY <1>10, <2>1 DEF LogToAllLogfiles
  <2>4. UNCHANGED <<ops, flushes>>
    BY <1>10 DEF LogToAllLogfiles, threadVars
  <2> QED
    BY <2>1, <2>2, <2>3, <2>4 DEF InProgressInv, TypeOK, ControlTypeOK
<1>11. ASSUME NEW t \in Thread, AfterLogfiles(t) PROVE InProgressInv'
  BY <1>11 DEF AfterLogfiles, MaybeLogToStderr, WriteToStderr, InProgressInv,
      TypeOK, ControlTypeOK, ThreadTypeOK, MessageAssumption,
      DestinationAssumption, vars, destinations, files, threadVars, dataVars,
      crashVars, globals, waits
<1>12. ASSUME NEW t \in Thread, LogToSinks(t) PROVE InProgressInv'
  BY <1>12 DEF LogToSinks, ReaderLock, InProgressInv, TypeOK, ControlTypeOK,
      ThreadTypeOK, MessageAssumption, DestinationAssumption, vars,
      destinations, files, threadVars, dataVars, crashVars, globals, waits
<1>13. ASSUME NEW t \in Thread, LogToOneSink(t) PROVE InProgressInv'
  BY <1>13 DEF LogToOneSink, Send, InProgressInv, TypeOK, ControlTypeOK,
      ThreadTypeOK, MessageAssumption, DestinationAssumption, vars,
      destinations, files, threadVars, dataVars, crashVars, globals, waits
<1>14. ASSUME NEW t \in Thread, LogToSinksEnds(t) PROVE InProgressInv'
  BY <1>14 DEF LogToSinksEnds, ReaderUnlock, InProgressInv, TypeOK,
      ControlTypeOK, ThreadTypeOK, MessageAssumption, DestinationAssumption,
      vars, destinations, files, threadVars, dataVars, crashVars, globals,
      waits
<1>15. ASSUME NEW t \in Thread, RecordCrashReason(t) PROVE InProgressInv'
  BY <1>15 DEF RecordCrashReason, InProgressInv, TypeOK, ControlTypeOK,
      ThreadTypeOK, MessageAssumption, DestinationAssumption, vars,
      destinations, files, threadVars, dataVars, crashVars, globals, waits
<1>16. ASSUME NEW t \in Thread, FlushAll(t) PROVE InProgressInv'
  BY <1>16 DEF FlushAll, FlushAllLogfiles, InProgressInv, TypeOK,
      ControlTypeOK, ThreadTypeOK, MessageAssumption, DestinationAssumption,
      vars, destinations, files, threadVars, dataVars, crashVars, globals,
      waits
<1>17. ASSUME NEW t \in Thread, Fail(t) PROVE InProgressInv'
  BY <1>17 DEF Fail, InProgressInv, TypeOK, ControlTypeOK, ThreadTypeOK,
      MessageAssumption, DestinationAssumption, vars, destinations, files,
      threadVars, dataVars, crashVars, globals, waits
<1>18. ASSUME NEW t \in Thread, RewindShared(t) PROVE InProgressInv'
  BY <1>18 DEF RewindShared, InProgressInv, TypeOK, ControlTypeOK,
      ThreadTypeOK, MessageAssumption, DestinationAssumption, vars,
      destinations, files, threadVars, dataVars, crashVars, globals, waits
<1>19. ASSUME NEW t \in Thread, Relock(t) PROVE InProgressInv'
  BY <1>19 DEF Relock, InProgressInv, TypeOK, ControlTypeOK, ThreadTypeOK,
      MessageAssumption, DestinationAssumption, vars, destinations, files,
      threadVars, dataVars, crashVars, globals, waits
<1>20. ASSUME NEW t \in Thread, CountMessage(t) PROVE InProgressInv'
  BY <1>20 DEF CountMessage, InProgressInv, TypeOK, ControlTypeOK,
      ThreadTypeOK, MessageAssumption, DestinationAssumption, vars,
      destinations, files, threadVars, dataVars, crashVars, globals, waits
<1>21. ASSUME NEW t \in Thread, WaitForSink(t) PROVE InProgressInv'
  BY <1>21 DEF WaitForSink, Waited, InProgressInv, TypeOK, ControlTypeOK,
      ThreadTypeOK, MessageAssumption, DestinationAssumption, vars,
      destinations, files, threadVars, dataVars, crashVars, globals, waits
<1>22. ASSUME NEW t \in Thread, WaitForSinks(t) PROVE InProgressInv'
  BY <1>22 DEF WaitForSinks, ReaderLock, InProgressInv, TypeOK, ControlTypeOK,
      ThreadTypeOK, MessageAssumption, DestinationAssumption, vars,
      destinations, files, threadVars, dataVars, crashVars, globals, waits
<1>23. ASSUME NEW t \in Thread, WaitForOneSink(t) PROVE InProgressInv'
  BY <1>23 DEF WaitForOneSink, Waited, InProgressInv, TypeOK, ControlTypeOK,
      ThreadTypeOK, MessageAssumption, DestinationAssumption, vars,
      destinations, files, threadVars, dataVars, crashVars, globals, waits
<1>24. ASSUME NEW t \in Thread, WaitForSinksEnds(t) PROVE InProgressInv'
  BY <1>24 DEF WaitForSinksEnds, ReaderUnlock, InProgressInv, TypeOK,
      ControlTypeOK, ThreadTypeOK, MessageAssumption, DestinationAssumption,
      vars, destinations, files, threadVars, dataVars, crashVars, globals,
      waits
<1>25. ASSUME NEW t \in Thread, SetFlushed(t) PROVE InProgressInv'
  BY <1>25 DEF SetFlushed, FlushReturns, InProgressInv, TypeOK, ControlTypeOK,
      ThreadTypeOK, MessageAssumption, DestinationAssumption, vars,
      destinations, files, threadVars, dataVars, crashVars, globals, waits
<1>26. ASSUME NEW t \in Thread, Register(t) PROVE InProgressInv'
  BY <1>26 DEF Register, Begin, AddLogSink, InProgressInv, TypeOK,
      ControlTypeOK, ThreadTypeOK, MessageAssumption, DestinationAssumption,
      vars, destinations, files, threadVars, dataVars, crashVars, globals,
      waits
<1>27. ASSUME NEW t \in Thread, Unregister(t) PROVE InProgressInv'
  BY <1>27 DEF Unregister, Begin, RemoveLogSink, InProgressInv, TypeOK,
      ControlTypeOK, ThreadTypeOK, MessageAssumption, DestinationAssumption,
      vars, destinations, files, threadVars, dataVars, crashVars, globals,
      waits
<1>28. ASSUME NEW t \in Thread, InitGoogleLogging(t) PROVE InProgressInv'
  BY <1>28 DEF InitGoogleLogging, Begin, InProgressInv, TypeOK, ControlTypeOK,
      ThreadTypeOK, MessageAssumption, DestinationAssumption, vars,
      destinations, files, threadVars, dataVars, crashVars, globals, waits
<1>29. CASE UNCHANGED vars
  BY <1>29 DEF vars, destinations, files, threadVars, dataVars, crashVars,
      globals, waits, InProgressInv, TypeOK, ControlTypeOK, ThreadTypeOK,
      MessageAssumption, DestinationAssumption
<1> QED
  BY <1>1, <1>2, <1>3, <1>4, <1>5, <1>6, <1>7, <1>8, <1>9, <1>10, <1>11,
      <1>12, <1>13, <1>14, <1>15, <1>16, <1>17, <1>18, <1>19, <1>20, <1>21,
      <1>22, <1>23, <1>24, <1>25, <1>26, <1>27, <1>28, <1>29 DEF Next, Step,
      Stop

\* A step keeps put positions and lengths within what was written.
LEMMA StreamStep ==
  ASSUME TypeOK, StreamInv, InProgressInv, MessageAssumption, [Next]_vars
  PROVE  StreamInv'
<1>1. ASSUME NEW t \in Thread, Construct(t) PROVE StreamInv'
  BY <1>1 DEF Construct, FatalSlot, Slot, Fresh, Data, MessageAssumption, StreamInv,
      TypeOK, DataTypeOK, ThreadTypeOK, vars, destinations, files, threadVars,
      dataVars, crashVars, globals, waits
<1>2. ASSUME NEW t \in Thread, InitFields(t) \/ InitFlag(t) PROVE StreamInv'
  <2>1. CASE InitFields(t)
    BY <2>1 DEF InitFields, Data, StreamInv, TypeOK, DataTypeOK,
        ThreadTypeOK, vars, destinations, files, threadVars, dataVars, crashVars,
        globals, waits
  <2>2. CASE InitFlag(t)
    BY <2>2 DEF InitFlag, Data, StreamInv, TypeOK, DataTypeOK,
        ThreadTypeOK, vars, destinations, files, threadVars, dataVars, crashVars,
        globals, waits
  <2> QED
    BY <1>2, <2>1, <2>2
<1>3. ASSUME NEW t \in Thread, Stream(t) PROVE StreamInv'
  <2> DEFINE s == slot[t]
             b == Put(buf[s], put[s], Id(t))
  <2>1. s \in Slot /\ Id(t) \in MsgId
    BY <1>3 DEF TypeOK, ThreadTypeOK, InProgressInv, Stream, MsgId
  <2>2. /\ buf[s] \in Text /\ put[s] \in Nat /\ put[s] <= Len(buf[s])
        /\ data[s].num \in Nat /\ data[s].num <= Len(buf[s])
    BY <2>1 DEF TypeOK, DataTypeOK, Data, StreamInv
  <2>3. Len(b) \in Nat /\ Len(b) >= Len(buf[s]) /\ Len(b) >= put[s] + 1
    BY <2>1, <2>2, PutProperties, LenProperties DEF Text
  <2>4. Len(buf[s]) \in Nat
    BY <2>2, LenProperties DEF Text
  <2> HIDE DEF b
  <2>5. /\ buf' = [buf EXCEPT ![s] = b] /\ put' = [put EXCEPT ![s] = put[s] + 1]
        /\ \A r \in Slot : data'[r].num = data[r].num
    BY <1>3, <2>1 DEF Stream, TypeOK, DataTypeOK, Data, b
  <2>6. ASSUME NEW r \in Slot
        PROVE  put'[r] <= Len(buf'[r]) /\ data'[r].num <= Len(buf'[r])
    <3>1. CASE r = s
      <4>1. put'[r] = put[s] + 1 /\ buf'[r] = b /\ data'[r].num = data[s].num
        BY <2>1, <2>5, <3>1 DEF TypeOK, DataTypeOK
      <4> QED
        BY <2>2, <2>3, <2>4, <4>1
    <3>2. CASE r # s
      <4>1. put'[r] = put[r] /\ buf'[r] = buf[r] /\ data'[r].num = data[r].num
        BY <2>1, <2>5, <3>2 DEF TypeOK, DataTypeOK
      <4> QED
        BY <4>1 DEF StreamInv
    <3> QED
      BY <3>1, <3>2
  <2> QED
    BY <2>6 DEF StreamInv
<1>4. ASSUME NEW t \in Thread, FlushActioned(t) PROVE StreamInv'
  BY <1>4 DEF FlushActioned, Data, StreamInv, TypeOK, DataTypeOK,
      ThreadTypeOK, vars, destinations, files, threadVars, dataVars,
      crashVars, globals, waits
<1>5. ASSUME NEW t \in Thread, RewindShared(t) PROVE StreamInv'
  BY <1>5 DEF RewindShared, Slot, Text, StreamInv, TypeOK, DataTypeOK,
      ThreadTypeOK, vars, destinations, files, threadVars, dataVars,
      crashVars, globals, waits
<1>6. ASSUME NEW t \in Thread, SetFlushed(t) PROVE StreamInv'
  BY <1>6 DEF SetFlushed, FlushReturns, Data, StreamInv, TypeOK, DataTypeOK,
      ThreadTypeOK, vars, destinations, files, threadVars, dataVars,
      crashVars, globals, waits
<1>7. ASSUME NEW t \in Thread,
             FlushIgnored(t) \/ WildCall(t) \/ LogTrace(t) \/ SendToSink(t) \/
             SendToLog(t) \/ LogToAllLogfiles(t) \/ AfterLogfiles(t) \/
             LogToSinks(t) \/ LogToOneSink(t) \/ LogToSinksEnds(t) \/
             RecordCrashReason(t) \/ FlushAll(t) \/ Fail(t) \/ Relock(t) \/
             CountMessage(t) \/ WaitForSink(t) \/ WaitForSinks(t) \/
             WaitForOneSink(t) \/ WaitForSinksEnds(t) \/ Register(t) \/
             Unregister(t) \/ InitGoogleLogging(t)
     PROVE  StreamInv'
  <2>1. UNCHANGED dataVars
    BY <1>7 DEF FlushIgnored, WildCall, LogTrace, SendToSink, SendToLog,
        LogToAllLogfiles, AfterLogfiles, LogToSinks, LogToOneSink,
        LogToSinksEnds, RecordCrashReason, FlushAll, Fail, Relock,
        CountMessage, WaitForSink, WaitForSinks, WaitForOneSink,
        WaitForSinksEnds, Register, Unregister, InitGoogleLogging, AddLogSink,
        Begin, FlushAllLogfiles, FlushReturns, MaybeLogToLogfile,
        MaybeLogToStderr, ReaderLock, ReaderUnlock, RemoveLogSink, Send,
        Waited, WriteToStderr, dataVars
  <2> QED
    BY <2>1 DEF dataVars, StreamInv
<1>8. CASE UNCHANGED vars
  BY <1>8 DEF vars, destinations, files, threadVars, dataVars, crashVars,
      globals, waits, StreamInv, TypeOK, DataTypeOK, ThreadTypeOK
<1> QED
  BY <1>1, <1>2, <1>3, <1>4, <1>5, <1>6, <1>7, <1>8 DEF Next, Step, Stop

\* A step keeps each message data with its owner.
LEMMA OwnerStep ==
  ASSUME TypeOK, OwnerInv, ExclusiveInv, MessageAssumption, [Next]_vars
  PROVE  OwnerInv'
<1>1. ASSUME NEW t \in Thread, Construct(t) PROVE OwnerInv'
  <2>1. PICK c \in Call :
          LET s == IF c.sev # FATAL THEN t
                   ELSE IF fatal_msg_exclusive THEN Exclusive ELSE Shared
          IN  /\ slot' = [slot EXCEPT ![t] = s]
              /\ data' = IF s = t THEN [data EXCEPT ![s] = Fresh]
                         ELSE [data EXCEPT ![s].first = (s = Exclusive)]
    BY <1>1 DEF Construct, FatalSlot
  <2>2. /\ Exclusive \notin Thread /\ Shared \notin Thread
        /\ Exclusive # Shared /\ Exclusive \in Slot /\ Shared \in Slot /\ t \in Slot
    BY MessageAssumption DEF MessageAssumption, Slot
  <2>3. pc' = [pc EXCEPT ![t] = "Init"]
    BY <1>1 DEF Construct, FatalSlot
  <2>4. ASSUME NEW u \in Thread PROVE slot'[u] \in {u, Exclusive, Shared}
    BY <2>1 DEF TypeOK, ThreadTypeOK, OwnerInv
  <2>5. ASSUME NEW u \in Thread, NEW v \in Thread,
               slot'[u] = Exclusive, slot'[v] = Exclusive
        PROVE  u = v
    BY <2>1, <2>2, <2>5 DEF TypeOK, ThreadTypeOK, OwnerInv, ExclusiveInv
  <2>6. ASSUME NEW r \in Slot, data'[r].first PROVE r = Exclusive
    BY <2>1, <2>2, <2>6 DEF TypeOK, DataTypeOK, Data, OwnerInv, Fresh
  <2>7. ASSUME NEW u \in Thread, pc'[u] = "RecordCrashReason"
        PROVE  slot'[u] = Exclusive
    BY <2>1, <2>3, <2>7 DEF TypeOK, ControlTypeOK, ThreadTypeOK, OwnerInv
  <2> QED
    BY <2>4, <2>5, <2>6, <2>7 DEF OwnerInv
<1>2. ASSUME NEW t \in Thread, InitFields(t) \/ InitFlag(t) PROVE OwnerInv'
  <2>1. CASE InitFields(t)
    BY <2>1 DEF InitFields, OwnerInv, TypeOK, ControlTypeOK,
        ThreadTypeOK, DataTypeOK, Data, vars, destinations, files, threadVars,
        dataVars, crashVars, globals, waits
  <2>2. CASE InitFlag(t)
    BY <2>2 DEF InitFlag, OwnerInv, TypeOK, ControlTypeOK,
        ThreadTypeOK, DataTypeOK, Data, vars, destinations, files, threadVars,
        dataVars, crashVars, globals, waits
  <2> QED
    BY <1>2, <2>1, <2>2
<1>3. ASSUME NEW t \in Thread, Stream(t) PROVE OwnerInv'
  BY <1>3 DEF Stream, OwnerInv, TypeOK, ControlTypeOK, ThreadTypeOK,
      DataTypeOK, Data, vars, destinations, files, threadVars, dataVars,
      crashVars, globals, waits
<1>4. ASSUME NEW t \in Thread, FlushIgnored(t) PROVE OwnerInv'
  BY <1>4 DEF FlushIgnored, FlushReturns, OwnerInv, TypeOK, ControlTypeOK,
      ThreadTypeOK, DataTypeOK, Data, vars, destinations, files, threadVars,
      dataVars, crashVars, globals, waits
<1>5. ASSUME NEW t \in Thread, FlushActioned(t) PROVE OwnerInv'
  BY <1>5 DEF FlushActioned, OwnerInv, TypeOK, ControlTypeOK, ThreadTypeOK,
      DataTypeOK, Data, vars, destinations, files, threadVars, dataVars,
      crashVars, globals, waits
<1>6. ASSUME NEW t \in Thread, WildCall(t) PROVE OwnerInv'
  BY <1>6 DEF WildCall, OwnerInv, TypeOK, ControlTypeOK, ThreadTypeOK,
      DataTypeOK, Data, vars, destinations, files, threadVars, dataVars,
      crashVars, globals, waits
<1>7. ASSUME NEW t \in Thread, LogTrace(t) PROVE OwnerInv'
  <2>1. PICK l \in {"Count", "SendToSink", "SendToSinkAndLog", "SendToLog"} :
          pc' = [pc EXCEPT ![t] = l]
    BY <1>7 DEF LogTrace, SinkMethods
  <2>2. /\ pc[t] = "LogTrace"
        /\ UNCHANGED <<threadVars, dataVars, crash_reason, fatal_message,
                       fatal_msg_exclusive>>
    BY <1>7 DEF LogTrace, crashVars, globals
  <2> QED
    BY <2>1, <2>2 DEF OwnerInv, TypeOK, ControlTypeOK, ThreadTypeOK, threadVars, dataVars
<1>8. ASSUME NEW t \in Thread, SendToSink(t) PROVE OwnerInv'
  BY <1>8 DEF SendToSink, Send, OwnerInv, TypeOK, ControlTypeOK, ThreadTypeOK,
      DataTypeOK, Data, vars, destinations, files, threadVars, dataVars,
      crashVars, globals, waits
<1>9. ASSUME NEW t \in Thread, SendToLog(t) PROVE OwnerInv'
  BY SMTT(30), <1>9
      DEF SendToLog, WriteToStderr, OwnerInv, TypeOK, ControlTypeOK,
      ThreadTypeOK, DataTypeOK, Data, vars, destinations, files, threadVars,
      dataVars, crashVars, globals, waits
<1>10. ASSUME NEW t \in Thread, LogToAllLogfiles(t) PROVE OwnerInv'
  BY <1>10 DEF LogToAllLogfiles, MaybeLogToLogfile, OwnerInv, TypeOK,
      ControlTypeOK, ThreadTypeOK, DataTypeOK, Data, vars, destinations,
      files, threadVars, dataVars, crashVars, globals, waits
<1>11. ASSUME NEW t \in Thread, AfterLogfiles(t) PROVE OwnerInv'
  BY <1>11 DEF AfterLogfiles, MaybeLogToStderr, WriteToStderr, OwnerInv,
      TypeOK, ControlTypeOK, ThreadTypeOK, DataTypeOK, Data, vars,
      destinations, files, threadVars, dataVars, crashVars, globals, waits
<1>12. ASSUME NEW t \in Thread, LogToSinks(t) PROVE OwnerInv'
  BY <1>12 DEF LogToSinks, ReaderLock, OwnerInv, TypeOK, ControlTypeOK,
      ThreadTypeOK, DataTypeOK, Data, vars, destinations, files, threadVars,
      dataVars, crashVars, globals, waits
<1>13. ASSUME NEW t \in Thread, LogToOneSink(t) PROVE OwnerInv'
  BY <1>13 DEF LogToOneSink, Send, OwnerInv, TypeOK, ControlTypeOK,
      ThreadTypeOK, DataTypeOK, Data, vars, destinations, files, threadVars,
      dataVars, crashVars, globals, waits
<1>14. ASSUME NEW t \in Thread, LogToSinksEnds(t) PROVE OwnerInv'
  BY <1>14 DEF LogToSinksEnds, ReaderUnlock, OwnerInv, TypeOK, ControlTypeOK,
      ThreadTypeOK, DataTypeOK, Data, vars, destinations, files, threadVars,
      dataVars, crashVars, globals, waits
<1>15. ASSUME NEW t \in Thread, RecordCrashReason(t) PROVE OwnerInv'
  BY <1>15 DEF RecordCrashReason, OwnerInv, TypeOK, ControlTypeOK,
      ThreadTypeOK, DataTypeOK, Data, vars, destinations, files, threadVars,
      dataVars, crashVars, globals, waits
<1>16. ASSUME NEW t \in Thread, FlushAll(t) PROVE OwnerInv'
  BY <1>16 DEF FlushAll, FlushAllLogfiles, OwnerInv, TypeOK, ControlTypeOK,
      ThreadTypeOK, DataTypeOK, Data, vars, destinations, files, threadVars,
      dataVars, crashVars, globals, waits
<1>17. ASSUME NEW t \in Thread, Fail(t) PROVE OwnerInv'
  BY <1>17 DEF Fail, OwnerInv, TypeOK, ControlTypeOK, ThreadTypeOK,
      DataTypeOK, Data, vars, destinations, files, threadVars, dataVars,
      crashVars, globals, waits
<1>18. ASSUME NEW t \in Thread, RewindShared(t) PROVE OwnerInv'
  BY <1>18 DEF RewindShared, OwnerInv, TypeOK, ControlTypeOK, ThreadTypeOK,
      DataTypeOK, Data, vars, destinations, files, threadVars, dataVars,
      crashVars, globals, waits
<1>19. ASSUME NEW t \in Thread, Relock(t) PROVE OwnerInv'
  BY <1>19 DEF Relock, OwnerInv, TypeOK, ControlTypeOK, ThreadTypeOK,
      DataTypeOK, Data, vars, destinations, files, threadVars, dataVars,
      crashVars, globals, waits
<1>20. ASSUME NEW t \in Thread, CountMessage(t) PROVE OwnerInv'
  BY <1>20 DEF CountMessage, OwnerInv, TypeOK, ControlTypeOK, ThreadTypeOK,
      DataTypeOK, Data, vars, destinations, files, threadVars, dataVars,
      crashVars, globals, waits
<1>21. ASSUME NEW t \in Thread, WaitForSink(t) PROVE OwnerInv'
  BY <1>21 DEF WaitForSink, Waited, OwnerInv, TypeOK, ControlTypeOK,
      ThreadTypeOK, DataTypeOK, Data, vars, destinations, files, threadVars,
      dataVars, crashVars, globals, waits
<1>22. ASSUME NEW t \in Thread, WaitForSinks(t) PROVE OwnerInv'
  BY <1>22 DEF WaitForSinks, ReaderLock, OwnerInv, TypeOK, ControlTypeOK,
      ThreadTypeOK, DataTypeOK, Data, vars, destinations, files, threadVars,
      dataVars, crashVars, globals, waits
<1>23. ASSUME NEW t \in Thread, WaitForOneSink(t) PROVE OwnerInv'
  BY <1>23 DEF WaitForOneSink, Waited, OwnerInv, TypeOK, ControlTypeOK,
      ThreadTypeOK, DataTypeOK, Data, vars, destinations, files, threadVars,
      dataVars, crashVars, globals, waits
<1>24. ASSUME NEW t \in Thread, WaitForSinksEnds(t) PROVE OwnerInv'
  BY <1>24 DEF WaitForSinksEnds, ReaderUnlock, OwnerInv, TypeOK,
      ControlTypeOK, ThreadTypeOK, DataTypeOK, Data, vars, destinations,
      files, threadVars, dataVars, crashVars, globals, waits
<1>25. ASSUME NEW t \in Thread, SetFlushed(t) PROVE OwnerInv'
  BY <1>25 DEF SetFlushed, FlushReturns, OwnerInv, TypeOK, ControlTypeOK,
      ThreadTypeOK, DataTypeOK, Data, vars, destinations, files, threadVars,
      dataVars, crashVars, globals, waits
<1>26. ASSUME NEW t \in Thread, Register(t) PROVE OwnerInv'
  BY <1>26 DEF Register, Begin, AddLogSink, OwnerInv, TypeOK, ControlTypeOK,
      ThreadTypeOK, DataTypeOK, Data, vars, destinations, files, threadVars,
      dataVars, crashVars, globals, waits
<1>27. ASSUME NEW t \in Thread, Unregister(t) PROVE OwnerInv'
  BY <1>27 DEF Unregister, Begin, RemoveLogSink, OwnerInv, TypeOK,
      ControlTypeOK, ThreadTypeOK, DataTypeOK, Data, vars, destinations,
      files, threadVars, dataVars, crashVars, globals, waits
<1>28. ASSUME NEW t \in Thread, InitGoogleLogging(t) PROVE OwnerInv'
  BY <1>28 DEF InitGoogleLogging, Begin, OwnerInv, TypeOK, ControlTypeOK,
      ThreadTypeOK, DataTypeOK, Data, vars, destinations, files, threadVars,
      dataVars, crashVars, globals, waits
<1>29. CASE UNCHANGED vars
  BY <1>29 DEF vars, destinations, files, threadVars, dataVars, crashVars,
      globals, waits, OwnerInv, TypeOK, ControlTypeOK, ThreadTypeOK,
      DataTypeOK, Data
<1> QED
  BY <1>1, <1>2, <1>3, <1>4, <1>5, <1>6, <1>7, <1>8, <1>9, <1>10, <1>11,
      <1>12, <1>13, <1>14, <1>15, <1>16, <1>17, <1>18, <1>19, <1>20, <1>21,
      <1>22, <1>23, <1>24, <1>25, <1>26, <1>27, <1>28, <1>29 DEF Next, Step,
      Stop

\* A step keeps the exclusive buffer that of the first FATAL message.
LEMMA ExclusiveStep ==
  ASSUME TypeOK, OwnerInv, ExclusiveInv, InProgressInv, MessageAssumption,
         [Next]_vars
  PROVE  ExclusiveInv'
<1>1. ASSUME NEW t \in Thread, Construct(t) PROVE ExclusiveInv'
  <2>1. PICK s \in {t, Exclusive, Shared} :
          /\ s = Exclusive => fatal_msg_exclusive
          /\ slot' = [slot EXCEPT ![t] = s]
          /\ fatal_msg_exclusive' = (fatal_msg_exclusive /\ s # Exclusive)
          /\ data' = IF s = t THEN [data EXCEPT ![s] = Fresh]
                     ELSE [data EXCEPT ![s].first = (s = Exclusive)]
          /\ buf' = IF s = t THEN [buf EXCEPT ![s] = <<>>] ELSE buf
          /\ put' = IF s = t THEN [put EXCEPT ![s] = 0] ELSE put
    <3>1. PICK c \in Call :
            LET s == IF c.sev # FATAL THEN t ELSE FatalSlot IN
            /\ slot' = [slot EXCEPT ![t] = s]
            /\ fatal_msg_exclusive' = (fatal_msg_exclusive /\ s # Exclusive)
            /\ data' = IF s = t THEN [data EXCEPT ![s] = Fresh]
                       ELSE [data EXCEPT ![s].first = (s = Exclusive)]
            /\ buf' = IF s = t THEN [buf EXCEPT ![s] = <<>>] ELSE buf
            /\ put' = IF s = t THEN [put EXCEPT ![s] = 0] ELSE put
      BY <1>1 DEF Construct
    <3>2. \A d : LET s == IF d.sev # FATAL THEN t ELSE FatalSlot IN
            s \in {t, Exclusive, Shared} /\ (s = Exclusive => fatal_msg_exclusive)
      BY MessageAssumption DEF MessageAssumption, FatalSlot
    <3> DEFINE s == IF c.sev # FATAL THEN t ELSE FatalSlot
    <3>3. s \in {t, Exclusive, Shared}
      BY <3>2
    <3> WITNESS s \in {t, Exclusive, Shared}
    <3> QED
      BY <3>1, <3>2
  <2>2. /\ pc[t] = "idle" /\ pc' = [pc EXCEPT ![t] = "Init"]
        /\ ops' = [ops EXCEPT ![t] = @ + 1]
        /\ UNCHANGED <<crash_reason, fatal_message>>
    BY <1>1 DEF Construct, FatalSlot, crashVars
  <2>3. t # Exclusive /\ Exclusive # Shared /\ Exclusive \in Slot /\ s \in Slot
    BY MessageAssumption DEF MessageAssumption, Slot
  <2>4. /\ buf'[Exclusive] = buf[Exclusive] /\ put'[Exclusive] = put[Exclusive]
        /\ data'[Exclusive].num = data[Exclusive].num
    BY <2>1, <2>3 DEF TypeOK, DataTypeOK, Data
  <2>5. slot'[t] = s /\ \A u \in Thread : u # t => slot'[u] = slot[u]
    BY <2>1 DEF TypeOK, ThreadTypeOK
  <2>6. pc'[t] = "Init" /\ \A u \in Thread : u # t =>
          pc'[u] = pc[u] /\ ops'[u] = ops[u]
    BY <2>2 DEF TypeOK, ControlTypeOK, ThreadTypeOK
  <2>7. fatal_msg_exclusive => buf[Exclusive] = <<>>
    BY DEF ExclusiveInv
  <2> QED
    BY ZenonT(60), <2>1, <2>2, <2>3, <2>4, <2>5, <2>6, <2>7 DEF ExclusiveInv
<1>2. ASSUME NEW t \in Thread, InitFields(t) \/ InitFlag(t) PROVE ExclusiveInv'
  <2>1. CASE InitFields(t)
    BY <2>1 DEF InitFields, ExclusiveInv, OwnerInv, TypeOK,
        ControlTypeOK, ThreadTypeOK, DataTypeOK, Data, Slot, MessageAssumption,
        vars, destinations, files, threadVars, dataVars, crashVars, globals,
        waits
  <2>2. CASE InitFlag(t)
    BY <2>2 DEF InitFlag, ExclusiveInv, OwnerInv, TypeOK,
        ControlTypeOK, ThreadTypeOK, DataTypeOK, Data, Slot, MessageAssumption,
        vars, destinations, files, threadVars, dataVars, crashVars, globals,
        waits
  <2> QED
    BY <1>2, <2>1, <2>2
<1>3. ASSUME NEW t \in Thread, Stream(t) PROVE ExclusiveInv'
  <2> DEFINE s == slot[t]
             b == Put(buf[s], put[s], Id(t))
  <2>1. /\ pc[t] = "stream" /\ pc' = [pc EXCEPT ![t] = "Flush"]
        /\ buf' = [buf EXCEPT ![s] = b]
        /\ put' = [put EXCEPT ![s] = put[s] + 1]
        /\ UNCHANGED <<threadVars, fatal_msg_exclusive, crash_reason,
                       fatal_message>>
    BY <1>3 DEF Stream, globals, crashVars
  <2>2. s \in Slot /\ Exclusive \in Slot
    BY DEF TypeOK, ThreadTypeOK, Slot
  <2>3. data'[Exclusive].num = data[Exclusive].num
    BY <1>3, <2>2 DEF Stream, TypeOK, DataTypeOK, Data
  <2>4. CASE s = Exclusive
    <3>1. buf[s] = <<>> /\ put[s] = 0
      BY <2>1, <2>4 DEF ExclusiveInv
    <3>2. b = <<Id(t)>>
      <4>1. Id(t) \in MsgId
        BY <2>1 DEF TypeOK, ThreadTypeOK, InProgressInv, MsgId
      <4> QED
        BY <3>1, <4>1, PutFirst
    <3> HIDE DEF b
    <3>3. buf'[Exclusive] = <<Id(t)>> /\ put'[Exclusive] = 1
      BY <2>1, <2>2, <2>4, <3>1, <3>2 DEF TypeOK, DataTypeOK
    <3>4. ~crash_reason /\ ~fatal_msg_exclusive
      BY <2>4, <3>1 DEF ExclusiveInv
    <3>5. \A u \in Thread : slot[u] = Exclusive => u = t
      BY <2>4 DEF OwnerInv
    <3> QED
      BY <2>1, <2>3, <3>3, <3>4, <3>5 DEF ExclusiveInv, TypeOK, ControlTypeOK,
          ThreadTypeOK, threadVars
  <2>5. CASE s # Exclusive
    <3> HIDE DEF b
    <3>1. buf'[Exclusive] = buf[Exclusive] /\ put'[Exclusive] = put[Exclusive]
      BY <2>1, <2>2, <2>5 DEF TypeOK, DataTypeOK
    <3> QED
      BY <2>1, <2>3, <2>5, <3>1 DEF ExclusiveInv, TypeOK, ControlTypeOK,
          ThreadTypeOK, threadVars
  <2> QED
    BY <2>4, <2>5
<1>4. ASSUME NEW t \in Thread, FlushIgnored(t) PROVE ExclusiveInv'
  BY <1>4 DEF FlushIgnored, FlushReturns, ExclusiveInv, OwnerInv, TypeOK,
      ControlTypeOK, ThreadTypeOK, DataTypeOK, Data, Slot, MessageAssumption,
      vars, destinations, files, threadVars, dataVars, crashVars, globals,
      waits
<1>5. ASSUME NEW t \in Thread, FlushActioned(t) PROVE ExclusiveInv'
  <2> DEFINE s == slot[t]
  <2>1. /\ pc[t] = "Flush" /\ pc' = [pc EXCEPT ![t] = "LogTrace"]
        /\ data' = [data EXCEPT ![s] = [data[s] EXCEPT !.num = put[s]]]
        /\ UNCHANGED <<threadVars, buf, put, fatal_msg_exclusive, crash_reason,
                       fatal_message>>
    BY <1>5 DEF FlushActioned, globals, crashVars
  <2>2. s \in Slot /\ Exclusive \in Slot
    BY DEF TypeOK, ThreadTypeOK, Slot
  <2>3. ASSUME s = Exclusive PROVE put[s] = 1
    <3>1. buf[Exclusive] = <<Id(t)>>
      BY <2>1, <2>3 DEF ExclusiveInv
    <3>2. buf[Exclusive] # <<>>
      BY <3>1
    <3> QED
      BY <2>3, <3>2 DEF ExclusiveInv
  <2>4. data'[Exclusive].num = IF s = Exclusive THEN 1 ELSE data[Exclusive].num
    BY <2>1, <2>2, <2>3 DEF TypeOK, DataTypeOK, Data
  <2>5. ASSUME NEW u \in Thread, u # t, slot[u] = Exclusive PROVE s # Exclusive
    BY <2>5 DEF OwnerInv
  <2> HIDE DEF s
  <2> QED
    BY <2>1, <2>4, <2>5 DEF ExclusiveInv, TypeOK, ControlTypeOK, ThreadTypeOK,
        threadVars, s
<1>6. ASSUME NEW t \in Thread, WildCall(t) PROVE ExclusiveInv'
  BY <1>6 DEF WildCall, ExclusiveInv, OwnerInv, TypeOK, ControlTypeOK,
      ThreadTypeOK, DataTypeOK, Data, Slot, MessageAssumption, vars,
      destinations, files, threadVars, dataVars, crashVars, globals, waits
<1>7. ASSUME NEW t \in Thread, LogTrace(t) PROVE ExclusiveInv'
  <2>1. PICK l \in {"Count", "SendToSink", "SendToSinkAndLog", "SendToLog"} :
          pc' = [pc EXCEPT ![t] = l]
    BY <1>7 DEF LogTrace, SinkMethods
  <2>2. /\ pc[t] = "LogTrace"
        /\ UNCHANGED <<threadVars, dataVars, crash_reason, fatal_message,
                       fatal_msg_exclusive>>
    BY <1>7 DEF LogTrace, crashVars, globals
  <2> QED
    BY <2>1, <2>2 DEF ExclusiveInv, TypeOK, ControlTypeOK, ThreadTypeOK, threadVars, dataVars
<1>8. ASSUME NEW t \in Thread, SendToSink(t) PROVE ExclusiveInv'
  BY <1>8 DEF SendToSink, Send, ExclusiveInv, OwnerInv, TypeOK, ControlTypeOK,
      ThreadTypeOK, DataTypeOK, Data, Slot, MessageAssumption, vars,
      destinations, files, threadVars, dataVars, crashVars, globals, waits
<1>9. ASSUME NEW t \in Thread, SendToLog(t) PROVE ExclusiveInv'
  <2>1. PICK l \in {"LogToSinks", "LogToAllLogfiles"} :
          pc' = [pc EXCEPT ![t] = l]
    BY <1>9 DEF SendToLog
  <2>2. /\ pc[t] = "SendToLog"
        /\ UNCHANGED <<threadVars, dataVars, crash_reason, fatal_message,
                       fatal_msg_exclusive>>
    BY <1>9 DEF SendToLog, crashVars, globals
  <2> QED
    BY <2>1, <2>2 DEF ExclusiveInv, TypeOK, ControlTypeOK, ThreadTypeOK,
        threadVars, dataVars
<1>10. ASSUME NEW t \in Thread, LogToAllLogfiles(t) PROVE ExclusiveInv'
  BY SMTT(30), <1>10
      DEF LogToAllLogfiles, MaybeLogToLogfile, ExclusiveInv, OwnerInv,
      TypeOK, ControlTypeOK, ThreadTypeOK, DataTypeOK, Data, Slot,
      MessageAssumption, vars, destinations, files, threadVars, dataVars,
      crashVars, globals, waits
<1>11. ASSUME NEW t \in Thread, AfterLogfiles(t) PROVE ExclusiveInv'
  BY <1>11 DEF AfterLogfiles, MaybeLogToStderr, WriteToStderr, ExclusiveInv,
      OwnerInv, TypeOK, ControlTypeOK, ThreadTypeOK, DataTypeOK, Data, Slot,
      MessageAssumption, vars, destinations, files, threadVars, dataVars,
      crashVars, globals, waits
<1>12. ASSUME NEW t \in Thread, LogToSinks(t) PROVE ExclusiveInv'
  BY <1>12 DEF LogToSinks, ReaderLock, ExclusiveInv, OwnerInv, TypeOK,
      ControlTypeOK, ThreadTypeOK, DataTypeOK, Data, Slot, MessageAssumption,
      vars, destinations, files, threadVars, dataVars, crashVars, globals,
      waits
<1>13. ASSUME NEW t \in Thread, LogToOneSink(t) PROVE ExclusiveInv'
  BY <1>13 DEF LogToOneSink, Send, ExclusiveInv, OwnerInv, TypeOK,
      ControlTypeOK, ThreadTypeOK, DataTypeOK, Data, Slot, MessageAssumption,
      vars, destinations, files, threadVars, dataVars, crashVars, globals,
      waits
<1>14. ASSUME NEW t \in Thread, LogToSinksEnds(t) PROVE ExclusiveInv'
  BY <1>14 DEF LogToSinksEnds, ReaderUnlock, ExclusiveInv, OwnerInv, TypeOK,
      ControlTypeOK, ThreadTypeOK, DataTypeOK, Data, Slot, MessageAssumption,
      vars, destinations, files, threadVars, dataVars, crashVars, globals,
      waits
<1>15. ASSUME NEW t \in Thread, RecordCrashReason(t) PROVE ExclusiveInv'
  <2>1. /\ pc[t] = "RecordCrashReason" /\ slot[t] = Exclusive
        /\ pc' = [pc EXCEPT ![t] = "FlushAll"]
        /\ fatal_message' = EntryOf(t).text
        /\ UNCHANGED <<threadVars, dataVars, fatal_msg_exclusive>>
    BY <1>15 DEF RecordCrashReason, OwnerInv, globals
  <2>2. buf[Exclusive] = <<Id(t)>> /\ data[Exclusive].num = 1
    BY <2>1 DEF ExclusiveInv
  <2>3. EntryOf(t).text = <<Id(t)>>
    <3>1. EntryOf(t).text = SubSeq(<<Id(t)>>, 1, 1)
      BY <2>1, <2>2 DEF EntryOf
    <3>2. <<Id(t)>> \in Seq({Id(t)}) /\ Len(<<Id(t)>>) = 1
      OBVIOUS
    <3>3. SubSeq(<<Id(t)>>, 1, Len(<<Id(t)>>)) = <<Id(t)>>
      BY <3>2, SubSeqFull
    <3> QED
      BY <3>1, <3>2, <3>3
  <2> QED
    BY <2>1, <2>2, <2>3 DEF ExclusiveInv, TypeOK, ControlTypeOK, ThreadTypeOK,
        threadVars, dataVars
<1>16. ASSUME NEW t \in Thread, FlushAll(t) PROVE ExclusiveInv'
  BY <1>16 DEF FlushAll, FlushAllLogfiles, ExclusiveInv, OwnerInv, TypeOK,
      ControlTypeOK, ThreadTypeOK, DataTypeOK, Data, Slot, MessageAssumption,
      vars, destinations, files, threadVars, dataVars, crashVars, globals,
      waits
<1>17. ASSUME NEW t \in Thread, Fail(t) PROVE ExclusiveInv'
  <2>1. /\ pc[t] = "Fail"
        /\ UNCHANGED pc \/ pc' = [pc EXCEPT ![t] = "seekp"]
        /\ UNCHANGED <<threadVars, dataVars, crash_reason, fatal_message,
                       fatal_msg_exclusive>>
    BY <1>17 DEF Fail, globals
  <2> QED
    BY <2>1 DEF ExclusiveInv, TypeOK, ControlTypeOK, ThreadTypeOK, threadVars,
        dataVars
<1>18. ASSUME NEW t \in Thread, RewindShared(t) PROVE ExclusiveInv'
  BY <1>18 DEF RewindShared, ExclusiveInv, OwnerInv, TypeOK, ControlTypeOK,
      ThreadTypeOK, DataTypeOK, Data, Slot, MessageAssumption, vars,
      destinations, files, threadVars, dataVars, crashVars, globals, waits
<1>19. ASSUME NEW t \in Thread, Relock(t) PROVE ExclusiveInv'
  BY <1>19 DEF Relock, ExclusiveInv, OwnerInv, TypeOK, ControlTypeOK,
      ThreadTypeOK, DataTypeOK, Data, Slot, MessageAssumption, vars,
      destinations, files, threadVars, dataVars, crashVars, globals, waits
<1>20. ASSUME NEW t \in Thread, CountMessage(t) PROVE ExclusiveInv'
  BY <1>20 DEF CountMessage, ExclusiveInv, OwnerInv, TypeOK, ControlTypeOK,
      ThreadTypeOK, DataTypeOK, Data, Slot, MessageAssumption, vars,
      destinations, files, threadVars, dataVars, crashVars, globals, waits
<1>21. ASSUME NEW t \in Thread, WaitForSink(t) PROVE ExclusiveInv'
  BY <1>21 DEF WaitForSink, Waited, ExclusiveInv, OwnerInv, TypeOK,
      ControlTypeOK, ThreadTypeOK, DataTypeOK, Data, Slot, MessageAssumption,
      vars, destinations, files, threadVars, dataVars, crashVars, globals,
      waits
<1>22. ASSUME NEW t \in Thread, WaitForSinks(t) PROVE ExclusiveInv'
  BY <1>22 DEF WaitForSinks, ReaderLock, ExclusiveInv, OwnerInv, TypeOK,
      ControlTypeOK, ThreadTypeOK, DataTypeOK, Data, Slot, MessageAssumption,
      vars, destinations, files, threadVars, dataVars, crashVars, globals,
      waits
<1>23. ASSUME NEW t \in Thread, WaitForOneSink(t) PROVE ExclusiveInv'
  BY <1>23 DEF WaitForOneSink, Waited, ExclusiveInv, OwnerInv, TypeOK,
      ControlTypeOK, ThreadTypeOK, DataTypeOK, Data, Slot, MessageAssumption,
      vars, destinations, files, threadVars, dataVars, crashVars, globals,
      waits
<1>24. ASSUME NEW t \in Thread, WaitForSinksEnds(t) PROVE ExclusiveInv'
  BY <1>24 DEF WaitForSinksEnds, ReaderUnlock, ExclusiveInv, OwnerInv, TypeOK,
      ControlTypeOK, ThreadTypeOK, DataTypeOK, Data, Slot, MessageAssumption,
      vars, destinations, files, threadVars, dataVars, crashVars, globals,
      waits
<1>25. ASSUME NEW t \in Thread, SetFlushed(t) PROVE ExclusiveInv'
  BY <1>25 DEF SetFlushed, FlushReturns, ExclusiveInv, OwnerInv, TypeOK,
      ControlTypeOK, ThreadTypeOK, DataTypeOK, Data, Slot, MessageAssumption,
      vars, destinations, files, threadVars, dataVars, crashVars, globals,
      waits
<1>26. ASSUME NEW t \in Thread, Register(t) PROVE ExclusiveInv'
  <2>1. /\ pc[t] = "idle" /\ ops' = [ops EXCEPT ![t] = @ + 1]
        /\ UNCHANGED <<pc, slot, dataVars, crash_reason, fatal_message,
                       fatal_msg_exclusive>>
    BY <1>26 DEF Register, Begin, crashVars
  <2> QED
    BY <2>1 DEF ExclusiveInv, TypeOK, ThreadTypeOK, dataVars
<1>27. ASSUME NEW t \in Thread, Unregister(t) PROVE ExclusiveInv'
  <2>1. /\ pc[t] = "idle" /\ ops' = [ops EXCEPT ![t] = @ + 1]
        /\ UNCHANGED <<pc, slot, dataVars, crash_reason, fatal_message,
                       fatal_msg_exclusive>>
    BY <1>27 DEF Unregister, Begin, crashVars
  <2> QED
    BY <2>1 DEF ExclusiveInv, TypeOK, ThreadTypeOK, dataVars
<1>28. ASSUME NEW t \in Thread, InitGoogleLogging(t) PROVE ExclusiveInv'
  BY <1>28 DEF InitGoogleLogging, Begin, ExclusiveInv, OwnerInv, TypeOK,
      ControlTypeOK, ThreadTypeOK, DataTypeOK, Data, Slot, MessageAssumption,
      vars, destinations, files, threadVars, dataVars, crashVars, globals,
      waits
<1>29. CASE UNCHANGED vars
  BY <1>29 DEF vars, destinations, files, threadVars, dataVars, crashVars,
      globals, waits, ExclusiveInv, OwnerInv, TypeOK, ControlTypeOK,
      ThreadTypeOK, DataTypeOK, Data, Slot, MessageAssumption
<1> QED
  BY <1>1, <1>2, <1>3, <1>4, <1>5, <1>6, <1>7, <1>8, <1>9, <1>10, <1>11,
      <1>12, <1>13, <1>14, <1>15, <1>16, <1>17, <1>18, <1>19, <1>20, <1>21,
      <1>22, <1>23, <1>24, <1>25, <1>26, <1>27, <1>28, <1>29 DEF Next, Step,
      Stop
-----------------------------------------------------------------------------
(* The inductive invariant.                                                *)

\* The invariant holds at the start ...
LEMMA InitInv ==
  ASSUME Init, MessageAssumption, DestinationAssumption
  PROVE  Inv
<1> USE DEF Init, DestinationInit
<1>1. DestinationTypeOK
  BY DEF DestinationTypeOK
<1>2. ControlTypeOK
  BY DEF ControlTypeOK, PC
<1>3. ThreadTypeOK
  <2>1. NoCall \in CallType
    BY DestinationAssumption, MessageAssumption DEF NoCall, CallType, Severity,
        SendMethod, SinkMethods, OutMethods, Target, DestinationAssumption,
        MessageAssumption
  <2> QED
    BY <2>1, MessageAssumption DEF ThreadTypeOK, Slot, MessageAssumption
<1>4. DataTypeOK
  <2>1. Fresh \in Data
    BY DestinationAssumption DEF Fresh, Data, Severity, SendMethod, Target,
        DestinationAssumption
  <2> QED
    BY <2>1 DEF DataTypeOK, Text
<1>5. GlobalTypeOK
  <2>1. initialized \in BOOLEAN
    BY MessageAssumption DEF MessageAssumption
  <2>2. fatal_msg_exclusive \in BOOLEAN /\ crash_reason \in BOOLEAN
    OBVIOUS
  <2>3. /\ num_messages_ \in [Severity -> Nat] /\ built \in [Severity -> Nat]
        /\ extracted \in [Thread -> Seq(Entry)] /\ fatal_message \in Text
        /\ status \in {"running", "aborted", "undefined"}
        /\ owed \in [Thread -> SUBSET Sink]
        /\ excused \in [Thread -> SUBSET Sink]
    BY DEF Text
  <2> QED
    BY <2>1, <2>2, <2>3 DEF GlobalTypeOK
<1>6. LogMutexInv
  BY MessageAssumption DEF LogMutexInv, HoldsLog, InDispatch, MessageAssumption
<1>7. SinkLoopInv
  BY DEF SinkLoopInv, HoldsSinks
<1>8. InProgressInv
  BY DEF InProgressInv
<1>9. StreamInv
  BY DEF StreamInv, Fresh
<1>10. OwnerInv
  BY MessageAssumption DEF OwnerInv, Fresh, MessageAssumption
<1>11. ExclusiveInv
  BY MessageAssumption DEF ExclusiveInv, Slot, MessageAssumption
<1> QED
  BY <1>1, <1>2, <1>3, <1>4, <1>5, <1>6, <1>7, <1>8, <1>9, <1>10, <1>11
     DEF Inv, TypeOK

\* ... every step of the program keeps it ...
LEMMA StepInv ==
  ASSUME Inv, [Next]_vars, MessageAssumption, DestinationAssumption
  PROVE  Inv'
<1> USE DEF Inv
<1>1. TypeOK'
  BY DestinationTypeStep, ControlTypeStep, ThreadTypeStep, DataTypeStep,
     GlobalTypeStep DEF TypeOK
<1>2. LogMutexInv' /\ SinkLoopInv' /\ InProgressInv' /\ StreamInv'
  BY LogMutexStep, SinkLoopStep, InProgressStep, StreamStep
<1>3. OwnerInv' /\ ExclusiveInv'
  BY OwnerStep, ExclusiveStep
<1> QED
  BY <1>1, <1>2, <1>3

\* ... and so it always holds.
THEOREM Invariance == Spec => []Inv
<1>1. Init => Inv
  BY InitInv, MessageAssumption, DestinationAssumption
<1>2. Inv /\ [Next]_vars => Inv'
  BY StepInv, MessageAssumption, DestinationAssumption
<1> QED
  BY <1>1, <1>2, PTL DEF Spec
-----------------------------------------------------------------------------
(* What follows.                                                           *)

\* Every variable keeps its type; in particular no loop over sinks_ and no
\* copy out of a message's buffer reaches beyond its end.
THEOREM TypeCorrect == Spec => []TypeOK
BY Invariance, PTL DEF Inv

\* At most one thread dispatches, whatever the number of threads and however
\* many FATAL messages release and retake log_mutex.
THEOREM OneLogsAtATime == Spec => []MutualExclusion
<1>1. Inv => MutualExclusion
  BY DEF Inv, LogMutexInv, MutualExclusion
<1> QED
  BY <1>1, Invariance, PTL

\* WaitTillSent of a sink, and abort(), are called without log_mutex.
THEOREM WaitsHoldNoLogMutex == Spec => []WaitsUnlocked
<1>1. Inv => WaitsUnlocked
  BY DEF Inv, LogMutexInv, WaitsUnlocked, HoldsLog, InDispatch
<1> QED
  BY <1>1, Invariance, PTL

\* RemoveLogSink returns only when no thread is in a loop over the sinks.
THEOREM SinksKeptStable == Spec => SinksStable
<1>1. Inv /\ [Next]_vars
      => [(\E t \in Thread : pc[t] \in HoldsSinks) => UNCHANGED sinks_]_vars
  <2> SUFFICES ASSUME Inv, [Next]_vars, NEW u \in Thread, pc[u] \in HoldsSinks
               PROVE  UNCHANGED sinks_
    OBVIOUS
  <2>1. sinkReaders # {}
    BY DEF Inv, SinkLoopInv
  <2>2. ASSUME NEW t \in Thread, Register(t) \/ Unregister(t) PROVE FALSE
    BY <2>1, <2>2 DEF Register, Unregister, AddLogSink, RemoveLogSink
  <2>3. ASSUME NEW t \in Thread, Construct(t) \/ InitGoogleLogging(t)
        PROVE  UNCHANGED sinks_
    BY <2>3 DEF Construct, InitGoogleLogging, destinations
  <2>4. ASSUME NEW t \in Thread, Step(t) PROVE UNCHANGED sinks_
    BY <2>4 DEF Step, InitFields, InitFlag, Stream, FlushIgnored,
        FlushActioned, WildCall, LogTrace, SendToSink, SendToLog,
        LogToAllLogfiles, AfterLogfiles, LogToSinks, LogToOneSink,
        LogToSinksEnds, RecordCrashReason, FlushAll, Fail, RewindShared,
        Relock, CountMessage, WaitForSink, WaitForSinks, WaitForOneSink,
        WaitForSinksEnds, SetFlushed, FlushReturns, Send, ReaderLock,
        ReaderUnlock, destinations
  <2>5. CASE UNCHANGED vars
    BY <2>5 DEF vars, destinations
  <2> QED
    BY <2>2, <2>3, <2>4, <2>5 DEF Next, Stop
<1> QED
  BY <1>1, Invariance, PTL DEF Spec, SinksStable

\* The crash reason and the copy of the message are, once recorded, those of
\* the message that took the exclusive data, and stay so.
THEOREM FirstFatalKept == Spec => []FirstFatalPreserved
<1>1. Inv => FirstFatalPreserved
  <2> SUFFICES ASSUME Inv, crash_reason, NEW t \in Thread,
                      slot[t] = Exclusive, pc[t] # "idle"
               PROVE  buf[Exclusive] = <<Id(t)>>
    BY DEF Inv, ExclusiveInv, FirstFatalPreserved
  <2>1. Len(buf[Exclusive]) = 1
    BY DEF Inv, ExclusiveInv
  <2>2. buf[Exclusive] # <<>>
    BY <2>1
  <2> QED
    BY <2>2 DEF Inv, ExclusiveInv
<1> QED
  BY <1>1, Invariance, PTL
=============================================================================
