--------------------------- MODULE DeliveryProofs ---------------------------
(***************************************************************************)
(* Proofs about what LogMessage delivers: that messages keep their text,   *)
(* are counted once, waited for, and on disk before the program fails, and *)
(* that the log files agree.  DeliveryInv is inductive relative to Inv of  *)
(* LogMessageProofs.                                                       *)
(*                                                                         *)
(* Then, that LogMessage implements SerialLog: every step of a thread is,  *)
(* of the destinations without what is in flight, no step at all, the      *)
(* registration of a sink, or the delivery of one whole message to every   *)
(* destination it is meant for.  SerialInv, which says where the copies of *)
(* a message are while it is dispatched and that no message is dispatched  *)
(* twice, is inductive relative to Inv and DeliveryInv.                    *)
(***************************************************************************)
EXTENDS LogMessageProofs, FiniteSetTheorems

USE DEF At, Goto, Me, Id, quiet, sinkVars

ThreadNext(t) ==
  Construct(t) \/ Step(t) \/ Register(t) \/ Unregister(t)
    \/ InitGoogleLogging(t)

\* A step is one of a thread, or changes nothing.
LEMMA NextCases ==
  ASSUME [Next]_vars
  PROVE  (\E t \in Thread : ThreadNext(t)) \/ UNCHANGED vars
BY DEF Next, ThreadNext, Stop

\* A step of a thread is a step of the program.
LEMMA NextOfThread ==
  ASSUME NEW t \in Thread, ThreadNext(t)
  PROVE  [Next]_vars
BY DEF Next, ThreadNext
-----------------------------------------------------------------------------
(* What a thread's step leaves alone of another thread.                    *)

\* A step changes no other thread's own variables.
LEMMA OthersKept ==
  ASSUME TypeOK, NEW t \in Thread, ThreadNext(t), NEW u \in Thread, u # t
  PROVE  /\ pc'[u] = pc[u] /\ ops'[u] = ops[u] /\ call'[u] = call[u]
         /\ slot'[u] = slot[u] /\ idx'[u] = idx[u] /\ after'[u] = after[u]
         /\ owed'[u] = owed[u] /\ extracted'[u] = extracted[u]
<1> USE DEF TypeOK, ControlTypeOK, ThreadTypeOK, GlobalTypeOK
<1>1. CASE Construct(t)
  BY <1>1 DEF Construct
<1>2. CASE Register(t) \/ Unregister(t) \/ InitGoogleLogging(t)
  BY <1>2 DEF Register, Unregister, InitGoogleLogging, Begin
<1>3. CASE Step(t)
  <2>1. CASE InitFields(t) \/ InitFlag(t) \/ Stream(t) \/ FlushIgnored(t)
             \/ FlushActioned(t) \/ WildCall(t) \/ LogTrace(t) \/ SendToSink(t)
             \/ SendToLog(t)
    BY <2>1 DEF InitFields, InitFlag, Stream, FlushIgnored, FlushActioned,
        FlushReturns, WildCall, LogTrace, SendToSink, SendToLog, threadVars,
        waits
  <2>2. CASE LogToAllLogfiles(t) \/ AfterLogfiles(t) \/ LogToSinks(t)
             \/ LogToOneSink(t) \/ LogToSinksEnds(t) \/ RecordCrashReason(t)
             \/ FlushAll(t) \/ Fail(t) \/ RewindShared(t) \/ Relock(t)
    BY <2>2 DEF LogToAllLogfiles, AfterLogfiles, LogToSinks, LogToOneSink,
        LogToSinksEnds, RecordCrashReason, FlushAll, Fail, RewindShared, Relock,
        threadVars, waits
  <2>3. CASE CountMessage(t) \/ WaitForSink(t) \/ WaitForSinks(t)
             \/ WaitForOneSink(t) \/ WaitForSinksEnds(t) \/ SetFlushed(t)
    BY <2>3 DEF CountMessage, WaitForSink, WaitForSinks, WaitForOneSink,
        WaitForSinksEnds, SetFlushed, FlushReturns, Waited, threadVars, waits
  <2> QED
    BY <1>3, <2>1, <2>2, <2>3 DEF Step
<1> QED
  BY <1>1, <1>2, <1>3 DEF ThreadNext

\* Only six actions write message data at all.
LEMMA DataKept ==
  ASSUME NEW t \in Thread, ThreadNext(t)
  PROVE  \/ Construct(t) \/ InitFields(t) \/ InitFlag(t) \/ Stream(t)
         \/ FlushActioned(t) \/ SetFlushed(t) \/ RewindShared(t)
         \/ UNCHANGED dataVars
<1>1. CASE FlushIgnored(t) \/ WildCall(t) \/ LogTrace(t) \/ SendToSink(t)
           \/ SendToLog(t) \/ LogToAllLogfiles(t) \/ AfterLogfiles(t)
           \/ LogToSinks(t) \/ LogToOneSink(t) \/ LogToSinksEnds(t)
  BY <1>1 DEF FlushIgnored, FlushReturns, WildCall, LogTrace, SendToSink,
      SendToLog, LogToAllLogfiles, AfterLogfiles, LogToSinks, LogToOneSink,
      LogToSinksEnds, dataVars
<1>2. CASE RecordCrashReason(t) \/ FlushAll(t) \/ Fail(t) \/ Relock(t)
           \/ CountMessage(t) \/ WaitForSink(t) \/ WaitForSinks(t)
           \/ WaitForOneSink(t) \/ WaitForSinksEnds(t)
  BY <1>2 DEF RecordCrashReason, FlushAll, Fail, Relock, CountMessage,
      WaitForSink, WaitForSinks, WaitForOneSink, WaitForSinksEnds, dataVars
<1>3. CASE Register(t) \/ Unregister(t) \/ InitGoogleLogging(t)
  BY <1>3 DEF Register, Unregister, InitGoogleLogging, Begin, dataVars
<1> QED
  BY <1>1, <1>2, <1>3 DEF ThreadNext, Step

\* A step writes no data but the thread's own, and rewinds the shared stream;
\* the severity changes only in the constructor.
LEMMA DataWritten ==
  ASSUME TypeOK, MessageAssumption, NEW t \in Thread, ThreadNext(t),
         NEW s \in Slot
  PROVE  /\ s # slot'[t] => data'[s] = data[s] /\ buf'[s] = buf[s]
         /\ s # slot'[t] /\ s # Shared => put'[s] = put[s]
         /\ \/ data'[s].sev = data[s].sev
            \/ s = slot'[t] /\ pc'[t] = "Init" /\ s = t
            \/ s = slot'[t] /\ pc[t] = "Init" /\ data'[s].sev = call[t].sev
<1> USE DEF TypeOK, ControlTypeOK, ThreadTypeOK, DataTypeOK
<1>1. CASE Construct(t)
  <2>1. PICK r \in Slot :
          /\ slot' = [slot EXCEPT ![t] = r] /\ Goto(t, "Init")
          /\ data' = IF r = t THEN [data EXCEPT ![r] = Fresh]
                     ELSE [data EXCEPT ![r].first = (r = Exclusive)]
          /\ buf' = IF r = t THEN [buf EXCEPT ![r] = <<>>] ELSE buf
          /\ put' = IF r = t THEN [put EXCEPT ![r] = 0] ELSE put
    BY <1>1 DEF Construct, FatalSlot, Slot
  <2>2. r # t => data'[s].sev = data[s].sev
    BY <2>1 DEF Data
  <2> QED
    BY <2>1, <2>2
<1>2. CASE InitFields(t)
  <2>1. /\ UNCHANGED <<slot, buf, put>> /\ pc[t] = "Init"
        /\ \E d \in Data : data' = [data EXCEPT ![slot[t]] = d]
                              /\ d.sev = call[t].sev
    <3> DEFINE d == [data[slot[t]] EXCEPT !.sev = call[t].sev,
                                        !.method = call[t].method]
    <3>1. d \in Data /\ d.sev = call[t].sev
      <4>1. data[slot[t]] \in Data
        OBVIOUS
      <4>2. call[t].sev \in Severity /\ call[t].method \in SendMethod
        BY DEF CallType
      <4> QED
        BY <4>1, <4>2 DEF Data
    <3>2. data' = [data EXCEPT ![slot[t]] = d]
      BY <1>2 DEF InitFields
    <3> HIDE DEF d
    <3> QED
      BY <1>2, <3>1, <3>2 DEF InitFields, threadVars
  <2> QED
    BY <2>1
<1>3. CASE Stream(t)
  BY <1>3 DEF Stream, threadVars, Data
<1>4. CASE FlushActioned(t) \/ SetFlushed(t) \/ InitFlag(t)
  <2>1. UNCHANGED <<slot, buf, put>>
    BY <1>4 DEF FlushActioned, SetFlushed, FlushReturns, InitFlag, threadVars
  <2>2. \E d \in Data : data' = [data EXCEPT ![slot[t]] = d]
                          /\ d.sev = data[slot[t]].sev
    <3> DEFINE d1 == [data[slot[t]] EXCEPT !.num = put[slot[t]]]
               d2(b) == [data[slot[t]] EXCEPT !.flushed = b]
    <3>1. data[slot[t]] \in Data /\ put[slot[t]] \in Nat
      OBVIOUS
    <3>2. d1 \in Data /\ d1.sev = data[slot[t]].sev
      BY <3>1 DEF Data
    <3>3. \A b \in BOOLEAN : d2(b) \in Data /\ d2(b).sev = data[slot[t]].sev
      BY ZenonT(60), <3>1 DEF Data
    <3>4. data' = [data EXCEPT ![slot[t]] = d1]
            \/ \E b \in BOOLEAN : data' = [data EXCEPT ![slot[t]] = d2(b)]
      BY <1>4 DEF FlushActioned, SetFlushed, InitFlag
    <3> HIDE DEF d1, d2
    <3> QED
      BY <3>2, <3>3, <3>4
  <2> QED
    BY <2>1, <2>2
<1>5. CASE RewindShared(t)
  BY <1>5 DEF RewindShared, threadVars
<1>6. CASE UNCHANGED dataVars
  BY <1>6 DEF dataVars
<1> QED
  BY <1>1, <1>2, <1>3, <1>4, <1>5, <1>6, DataKept

\* Only the constructor decides which data a message has, and whose call it is.
LEMMA SlotKept ==
  ASSUME NEW t \in Thread, ThreadNext(t), ~Construct(t)
  PROVE  UNCHANGED <<slot, call>>
<1>1. CASE Register(t) \/ Unregister(t) \/ InitGoogleLogging(t)
  BY <1>1 DEF Register, Unregister, InitGoogleLogging, Begin
<1>2. CASE Step(t)
  BY <1>2 DEF Step, InitFields, InitFlag, Stream, FlushIgnored, FlushActioned,
      WildCall, LogTrace, SendToSink, SendToLog, LogToAllLogfiles,
      AfterLogfiles, LogToSinks, LogToOneSink, LogToSinksEnds,
      RecordCrashReason, FlushAll, Fail, RewindShared, Relock, CountMessage,
      WaitForSink, WaitForSinks, WaitForOneSink, WaitForSinksEnds, SetFlushed,
      FlushReturns, threadVars
<1> QED
  BY <1>1, <1>2 DEF ThreadNext

\* A step leaves what another thread is writing alone: the data of a message
\* is touched by its own thread only, unless it is the shared one.
LEMMA OthersData ==
  ASSUME Inv, MessageAssumption, NEW t \in Thread, ThreadNext(t),
         NEW u \in Thread, u # t, slot[u] # Shared
  PROVE  /\ data'[slot[u]] = data[slot[u]] /\ buf'[slot[u]] = buf[slot[u]]
         /\ put'[slot[u]] = put[slot[u]]
<1> USE DEF Inv, TypeOK, ThreadTypeOK
<1>1. slot[u] \in Slot /\ slot[u] \in {u, Exclusive}
  BY DEF OwnerInv
<1>2. slot'[t] # slot[u]
  <2>1. CASE Construct(t)
    <3>1. slot'[t] = t \/ slot'[t] = FatalSlot
      BY <2>1 DEF Construct
    <3>2. FatalSlot = Exclusive => fatal_msg_exclusive
      BY MessageAssumption DEF FatalSlot, MessageAssumption
    <3> QED
      BY <1>1, <3>1, <3>2, MessageAssumption
         DEF ExclusiveInv, FatalSlot, MessageAssumption
  <2>2. CASE ~Construct(t)
    <3>1. slot'[t] = slot[t]
      BY <2>2, SlotKept
    <3> QED
      BY <1>1, <3>1, MessageAssumption DEF OwnerInv, MessageAssumption
  <2> QED
    BY <2>1, <2>2
<1> QED
  BY <1>1, <1>2, DataWritten
-----------------------------------------------------------------------------
(* What a message keeps of its constructor's call.                         *)

\* A step of another thread leaves the severity of a message alone, even of
\* one on the shared data: only FATAL messages write that.
LEMMA OthersSeverity ==
  ASSUME Inv, CallInv, MessageAssumption, NEW t \in Thread, ThreadNext(t),
         NEW u \in Thread, u # t, pc[u] # "idle", pc[u] # "Init"
  PROVE  data'[slot[u]].sev = data[slot[u]].sev
<1>1. CASE slot[u] # Shared
  BY <1>1, OthersData
<1>2. CASE slot[u] = Shared
  <2>1. data[Shared].sev = FATAL
    BY <1>2, MessageAssumption DEF CallInv, MessageAssumption
  <2>2. Shared \in Slot /\ Shared # t
    BY MessageAssumption DEF Slot, MessageAssumption
  <2>3. pc[t] = "Init" /\ slot'[t] = Shared => call[t].sev = FATAL
    <3>1. SUFFICES ASSUME pc[t] = "Init", slot'[t] = Shared
                   PROVE  call[t].sev = FATAL
      OBVIOUS
    <3>2. slot[t] = Shared
      BY <3>1, SlotKept DEF Construct
    <3> QED
      BY <2>2, <3>1, <3>2 DEF CallInv
  <2> QED
    BY <1>2, <2>1, <2>2, <2>3, DataWritten DEF Inv
<1> QED
  BY <1>1, <1>2

\* A message keeps what its constructor was called with.
LEMMA CallStep ==
  ASSUME Inv, CallInv, MessageAssumption, NEW t \in Thread, ThreadNext(t)
  PROVE  CallInv'
<1> DEFINE P(u) ==
       pc[u] # "idle" =>
         /\ (slot[u] = u) <=> (call[u].sev # FATAL)
         /\ pc[u] # "Init" => Me(u).sev = call[u].sev
         /\ pc[u] = "stream" /\ slot[u] # Shared => ~Me(u).flushed
         /\ pc[u] \notin {"Init", "InitFlag", "stream", "Flush"} =>
              Me(u).sev >= MinLogLevel
         /\ pc[u] \in FatalPath \/ (pc[u] \in Waiting /\ after[u] = "Fail")
              => call[u].sev = FATAL
         /\ pc[u] \in SinkMethods /\ slot[u] # Shared => Me(u).method = pc[u]
<1>1. ASSUME NEW u \in Thread, u # t PROVE P(u)'
  <2>1. P(u)
    BY DEF CallInv
  <2>2. /\ pc'[u] = pc[u] /\ slot'[u] = slot[u] /\ call'[u] = call[u]
        /\ after'[u] = after[u]
    BY <1>1, OthersKept DEF Inv
  <2>3. pc[u] \notin {"idle", "Init"} => data'[slot[u]].sev = data[slot[u]].sev
    BY <1>1, OthersSeverity
  <2>4. slot[u] # Shared => data'[slot[u]] = data[slot[u]]
    BY <1>1, OthersData
  <2> QED
    BY <2>1, <2>2, <2>3, <2>4, MessageAssumption
       DEF SinkMethods, MessageAssumption
<1>2. P(t)'
  <2> USE DEF Inv, TypeOK, ControlTypeOK, ThreadTypeOK, DataTypeOK,
      FatalPath, Waiting, SinkMethods
  <2>0. P(t) /\ slot[t] \in Slot
    BY DEF CallInv
  <2>1. CASE Construct(t)
    <3>1. PICK c \in Call :
           /\ call' = [call EXCEPT ![t] = c]
           /\ slot' = [slot EXCEPT ![t] = IF c.sev # FATAL THEN t ELSE FatalSlot]
           /\ pc' = [pc EXCEPT ![t] = "Init"]
      BY <2>1 DEF Construct
    <3>2. FatalSlot # t
      BY MessageAssumption DEF FatalSlot, MessageAssumption
    <3> QED
      BY <3>1, <3>2
  <2>2. CASE InitFields(t)
    <3>1. /\ UNCHANGED threadVars /\ pc' = [pc EXCEPT ![t] = "InitFlag"]
          /\ data' = [data EXCEPT ![slot[t]] =
                        [@ EXCEPT !.sev = call[t].sev, !.method = call[t].method]]
          /\ pc[t] = "Init"
      BY <2>2 DEF InitFields
    <3>2. data'[slot[t]].sev = call[t].sev
      BY <2>0, <3>1 DEF Data
    <3> QED
      BY <2>0, <3>1, <3>2 DEF threadVars
  <2>11. CASE InitFlag(t)
    BY <2>0, <2>11 DEF InitFlag, threadVars, Data
  <2>3. CASE Stream(t)
    BY <2>0, <2>3 DEF Stream, threadVars, Data
  <2>4. CASE FlushIgnored(t) \/ SetFlushed(t)
    BY <2>0, <2>4 DEF FlushIgnored, SetFlushed, FlushReturns, Data
  <2>5. CASE FlushActioned(t)
    BY <2>0, <2>5 DEF FlushActioned, threadVars, Data
  <2>6. CASE WildCall(t) \/ LogTrace(t) \/ SendToSink(t) \/ SendToLog(t)
    BY SMTT(60), <2>0, <2>6 DEF WildCall, LogTrace, SendToSink, SendToLog, threadVars,
        dataVars
  <2>7. CASE LogToAllLogfiles(t) \/ AfterLogfiles(t) \/ LogToSinks(t)
             \/ LogToOneSink(t) \/ LogToSinksEnds(t)
    BY <2>0, <2>7 DEF LogToAllLogfiles, AfterLogfiles, LogToSinks,
        LogToOneSink, LogToSinksEnds, threadVars, dataVars
  <2>8. CASE RecordCrashReason(t) \/ FlushAll(t) \/ Fail(t) \/ RewindShared(t)
             \/ Relock(t)
    BY <2>0, <2>8 DEF RecordCrashReason, FlushAll, Fail, RewindShared, Relock,
        threadVars, dataVars
  <2>9. CASE CountMessage(t) \/ WaitForSink(t) \/ WaitForSinks(t)
             \/ WaitForOneSink(t) \/ WaitForSinksEnds(t)
    BY <2>0, <2>9 DEF CountMessage, WaitForSink, WaitForSinks, WaitForOneSink,
        WaitForSinksEnds, threadVars, dataVars
  <2>10. CASE Register(t) \/ Unregister(t) \/ InitGoogleLogging(t)
    BY <2>0, <2>10 DEF Register, Unregister, InitGoogleLogging, Begin, dataVars
  <2> QED
    BY <2>1, <2>2, <2>3, <2>4, <2>5, <2>6, <2>7, <2>8, <2>9, <2>10,
       <2>11 DEF ThreadNext, Step
<1> QED
  BY <1>1, <1>2 DEF CallInv
-----------------------------------------------------------------------------
(* What a FATAL message has written is on disk when it fails.              *)

\* The log files are written by LogToAllLogfiles and flushed by FlushAll only.
LEMMA FilesKept ==
  ASSUME NEW t \in Thread, ThreadNext(t), ~LogToAllLogfiles(t)
  PROVE  UNCHANGED file /\ (UNCHANGED <<forced, failed>> \/ FlushAll(t))
<1>1. CASE Construct(t) \/ Register(t) \/ Unregister(t) \/ InitGoogleLogging(t)
  BY <1>1 DEF Construct, Register, Unregister, InitGoogleLogging, AddLogSink,
      RemoveLogSink, destinations, files
<1>2. CASE InitFields(t) \/ InitFlag(t) \/ Stream(t) \/ FlushIgnored(t)
           \/ FlushActioned(t) \/ SetFlushed(t) \/ WildCall(t) \/ LogTrace(t)
           \/ SendToSink(t) \/ SendToLog(t)
  BY <1>2 DEF InitFields, InitFlag, Stream, FlushIgnored, FlushActioned,
      SetFlushed, FlushReturns, WildCall, LogTrace, SendToSink, SendToLog,
      Send, WriteToStderr, destinations, files
<1>3. CASE AfterLogfiles(t) \/ LogToSinks(t) \/ LogToOneSink(t)
           \/ LogToSinksEnds(t) \/ RecordCrashReason(t) \/ FlushAll(t)
           \/ Fail(t) \/ RewindShared(t) \/ Relock(t)
  BY <1>3 DEF AfterLogfiles, MaybeLogToStderr, WriteToStderr, LogToSinks,
      LogToOneSink, LogToSinksEnds, ReaderLock, ReaderUnlock, Send, FlushAll,
      FlushAllLogfiles, RecordCrashReason, Fail, RewindShared, Relock,
      destinations, files
<1>4. CASE CountMessage(t) \/ WaitForSink(t) \/ WaitForSinks(t)
           \/ WaitForOneSink(t) \/ WaitForSinksEnds(t)
  BY <1>4 DEF CountMessage, WaitForSink, WaitForSinks, WaitForOneSink,
      WaitForSinksEnds, ReaderLock, ReaderUnlock, destinations, files
<1> QED
  BY <1>1, <1>2, <1>3, <1>4 DEF ThreadNext, Step

\* A step appends at most one entry, the thread's own, to a file, and never
\* takes back a flush.
LEMMA FileAppend ==
  ASSUME Inv, DiskInv, DestinationAssumption, NEW t \in Thread, ThreadNext(t),
         NEW i \in Severity
  PROVE  /\ forced'[i] >= forced[i] /\ forced'[i] <= Len(file'[i])
         /\ failed \subseteq failed'
         /\ \/ file'[i] = file[i]
            \/ /\ LogToAllLogfiles(t) /\ i = idx[t]
               /\ EntryOf(t) \in Entry
               /\ file'[i] = Append(file[i], EntryOf(t))
<1> USE DEF Inv, TypeOK, DestinationTypeOK
<1>0. file[i] \in Seq(Entry) /\ Len(file[i]) \in Nat /\ forced[i] \in Nat
      /\ forced[i] <= Len(file[i])
  BY DEF DiskInv
<1>1. CASE LogToAllLogfiles(t)
  <2>1. EntryOf(t) \in Entry /\ idx[t] \in Severity
    BY <1>1, EntryType DEF LogToAllLogfiles, InProgressInv
  <2>2. /\ file' = [file EXCEPT ![idx[t]] = Append(@, EntryOf(t))]
        /\ failed \subseteq failed'
        /\ \/ forced' = [forced EXCEPT ![idx[t]] = Len(file[idx[t]]) + 1]
           \/ forced' = [forced EXCEPT ![idx[t]] = @]
    BY <1>1 DEF LogToAllLogfiles, MaybeLogToLogfile
  <2>3. CASE i = idx[t]
    <3>1. Len(file'[i]) = Len(file[i]) + 1
      BY <1>0, <2>1, <2>2, <2>3, AppendProperties
    <3> QED
      BY <1>0, <1>1, <2>1, <2>2, <2>3, <3>1
  <2>4. CASE i # idx[t]
    BY <1>0, <2>1, <2>2, <2>4
  <2> QED
    BY <2>3, <2>4
<1>2. CASE ~LogToAllLogfiles(t)
  <2>1. UNCHANGED file
    BY <1>2, FilesKept
  <2>2. CASE UNCHANGED <<forced, failed>>
    BY <1>0, <2>1, <2>2
  <2>3. CASE FlushAllLogfiles
    <3>1. PICK fails \in WriteFails(Severity) :
            /\ forced' = [j \in Severity |->
                            IF j \in fails THEN forced[j] ELSE Len(file[j])]
            /\ failed' = failed \cup fails
      BY <2>3 DEF FlushAllLogfiles
    <3> QED
      BY <1>0, <2>1, <3>1
  <2> QED
    BY <1>2, <2>2, <2>3, FilesKept DEF FlushAll, files
<1> QED
  BY <1>1, <1>2

\* A message that has flushed the files for its failure did so in FlushAll.
LEMMA StaysFlushed ==
  ASSUME Inv, NEW t \in Thread, ThreadNext(t), ~FlushAll(t), FlushedFatal(t)'
  PROVE  FlushedFatal(t) /\ ~LogToAllLogfiles(t) /\ UNCHANGED ops
<1> USE DEF Inv, TypeOK, ControlTypeOK, FlushedFatal, Waiting
<1>1. CASE Construct(t) \/ InitFields(t) \/ InitFlag(t) \/ Stream(t)
           \/ FlushIgnored(t) \/ FlushActioned(t) \/ SetFlushed(t)
           \/ SendToSink(t)
  BY <1>1 DEF Construct, InitFields, InitFlag, Stream, FlushIgnored,
      FlushActioned, SetFlushed, FlushReturns, SendToSink
<1>2. CASE LogTrace(t) \/ SendToLog(t) \/ LogToAllLogfiles(t)
           \/ AfterLogfiles(t) \/ LogToSinks(t) \/ LogToOneSink(t)
           \/ LogToSinksEnds(t) \/ RecordCrashReason(t)
  BY <1>2 DEF LogTrace, SinkMethods, SendToLog, LogToAllLogfiles,
      AfterLogfiles, LogToSinks, LogToOneSink, LogToSinksEnds,
      RecordCrashReason
<1>3. CASE WildCall(t) \/ Fail(t) \/ RewindShared(t) \/ Relock(t)
           \/ CountMessage(t) \/ WaitForSink(t) \/ WaitForSinks(t)
           \/ WaitForOneSink(t) \/ WaitForSinksEnds(t)
  BY <1>3 DEF WildCall, Fail, RewindShared, Relock, CountMessage, WaitForSink,
      WaitForSinks, WaitForOneSink, WaitForSinksEnds, threadVars,
      LogToAllLogfiles
<1>4. CASE Register(t) \/ Unregister(t) \/ InitGoogleLogging(t)
  BY <1>4 DEF Register, Unregister, InitGoogleLogging, Begin
<1> QED
  BY <1>1, <1>2, <1>3, <1>4 DEF ThreadNext, Step

\* What is on disk stays there, and a FATAL message that has flushed the files
\* writes to them no more; a file that a Write fails for is exempt ever after.
LEMMA DiskStep ==
  ASSUME Inv, DiskInv, MessageAssumption, DestinationAssumption,
         NEW t \in Thread, ThreadNext(t)
  PROVE  DiskInv'
<1>1. (\A i \in Severity : forced[i] <= Len(file[i]))'
  BY FileAppend
<1>2. ASSUME LogToStderr
      PROVE  /\ \A i \in Severity : file'[i] = <<>>
             /\ \A u \in Thread : pc'[u] # "LogToAllLogfiles"
  <2>1. \A u \in Thread : pc[u] # "LogToAllLogfiles"
    BY <1>2 DEF DiskInv
  <2>2. ~LogToAllLogfiles(t)
    BY <2>1 DEF LogToAllLogfiles
  <2>3. \A i \in Severity : file'[i] = <<>>
    BY <1>2, <2>2, FilesKept DEF DiskInv
  <2>4. pc'[t] # "LogToAllLogfiles"
    <3> USE DEF Inv, TypeOK, ControlTypeOK
    <3>1. CASE WaitForSinksEnds(t)
      BY <3>1 DEF WaitForSinksEnds
    <3>2. CASE LogTrace(t)
      BY <3>2 DEF LogTrace, SinkMethods
    <3>3. CASE SendToLog(t)
      BY <1>2, <3>3 DEF SendToLog, StderrOnly
    <3>4. CASE Construct(t) \/ InitFields(t) \/ InitFlag(t) \/ Stream(t)
               \/ FlushIgnored(t) \/ FlushActioned(t) \/ SetFlushed(t)
               \/ WildCall(t) \/ SendToSink(t) \/ LogToAllLogfiles(t)
               \/ AfterLogfiles(t)
      BY <2>1, <3>4 DEF Construct, InitFields, InitFlag, Stream, FlushIgnored,
          FlushActioned, SetFlushed, FlushReturns, WildCall, SendToSink,
          LogToAllLogfiles, AfterLogfiles
    <3>5. CASE LogToSinks(t) \/ LogToOneSink(t) \/ LogToSinksEnds(t)
               \/ RecordCrashReason(t) \/ FlushAll(t) \/ Fail(t)
               \/ RewindShared(t) \/ Relock(t) \/ CountMessage(t)
               \/ WaitForSink(t) \/ WaitForSinks(t) \/ WaitForOneSink(t)
      BY <2>1, <3>5 DEF LogToSinks, LogToOneSink, LogToSinksEnds,
          RecordCrashReason, FlushAll, Fail, RewindShared, Relock,
          CountMessage, WaitForSink, WaitForSinks, WaitForOneSink
    <3>6. CASE Register(t) \/ Unregister(t) \/ InitGoogleLogging(t)
      BY <2>1, <3>6 DEF Register, Unregister, InitGoogleLogging, Begin
    <3> QED
      BY <3>1, <3>2, <3>3, <3>4, <3>5, <3>6 DEF ThreadNext, Step
  <2>5. \A u \in Thread \ {t} : pc'[u] = pc[u]
    BY OthersKept DEF Inv
  <2> QED
    BY <2>1, <2>3, <2>4, <2>5
<1>3. ASSUME NEW u \in Thread, FlushedFatal(u)', NEW i \in Severity \ failed',
             NEW k \in 1..Len(file'[i]), file'[i][k].id = Id(u)'
      PROVE  k <= forced'[i]
  <2>1. /\ forced[i] \in Nat /\ forced'[i] \in Nat
        /\ forced'[i] >= forced[i] /\ forced'[i] <= Len(file'[i])
        /\ file[i] \in Seq(Entry) /\ Len(file[i]) \in Nat
        /\ i \in Severity \ failed
    <3>1. forced'[i] \in Nat
      BY StepInv, NextOfThread, MessageAssumption, DestinationAssumption
         DEF Inv, TypeOK, DestinationTypeOK
    <3> QED
      BY <3>1, FileAppend DEF Inv, TypeOK, DestinationTypeOK
  <2>2. CASE u # t
    <3>1. FlushedFatal(u) /\ Id(u)' = Id(u)
      BY <1>3, <2>2, OthersKept DEF FlushedFatal, Inv
    <3>2. CASE file'[i] = file[i]
      BY <1>3, <2>1, <3>1, <3>2 DEF DiskInv
    <3>3. CASE file'[i] = Append(file[i], EntryOf(t)) /\ EntryOf(t) \in Entry
      <4>1. EntryOf(t).id # Id(u)
        BY <2>2 DEF EntryOf
      <4>2. k \in 1..Len(file[i]) /\ file'[i][k] = file[i][k]
        BY <1>3, <2>1, <3>1, <3>3, <4>1, AppendProperties
      <4> QED
        BY <1>3, <2>1, <3>1, <4>2 DEF DiskInv
    <3> QED
      BY <3>2, <3>3, FileAppend
  <2>3. CASE u = t
    <3>1. CASE FlushAll(t)
      <4>1. CASE LogToStderr
        BY <1>2, <1>3, <4>1
      <4>2. CASE ~LogToStderr
        <5>1. PICK fails \in WriteFails(Severity) :
                /\ forced' = [j \in Severity |->
                                IF j \in fails THEN forced[j] ELSE Len(file[j])]
                /\ failed' = failed \cup fails
          BY <3>1, <4>2 DEF FlushAll, FlushAllLogfiles
        <5>2. UNCHANGED file
          BY <3>1, <4>2 DEF FlushAll, FlushAllLogfiles
        <5>3. forced'[i] = Len(file'[i])
          BY <1>3, <5>1, <5>2
        <5> QED
          BY <1>3, <2>1, <5>3
      <4> QED
        BY <4>1, <4>2
    <3>2. CASE ~FlushAll(t)
      <4>1. FlushedFatal(t) /\ ~LogToAllLogfiles(t) /\ UNCHANGED ops
        BY <1>3, <2>3, <3>2, StaysFlushed
      <4> QED
        BY <1>3, <2>3, <3>2, <4>1, FilesKept DEF DiskInv
    <3> QED
      BY <3>1, <3>2
  <2> QED
    BY <2>2, <2>3
<1> QED
  BY <1>1, <1>2, <1>3 DEF DiskInv
-----------------------------------------------------------------------------
(* A message keeps its own text.                                           *)

\* A message's own buffer holds the text that its statement streamed into it.
LEMMA BufferStep ==
  ASSUME Inv, BufferInv, MessageAssumption, NEW t \in Thread, ThreadNext(t)
  PROVE  BufferInv'
<1> DEFINE P(u) ==
       slot[u] = u =>
         /\ pc[u] \in {"Init", "InitFlag", "stream"} =>
              buf[u] = <<>> /\ put[u] = 0
         /\ pc[u] \notin {"idle", "Init", "InitFlag", "stream"} =>
              buf[u] = <<Id(u)>> /\ put[u] = 1
         /\ pc[u] \notin {"idle", "Init", "InitFlag", "stream", "Flush"} =>
              data[u].num = 1
<1>1. ASSUME NEW u \in Thread, u # t PROVE P(u)'
  <2>1. /\ pc'[u] = pc[u] /\ slot'[u] = slot[u] /\ ops'[u] = ops[u]
    BY <1>1, OthersKept DEF Inv
  <2>2. slot[u] = u => /\ data'[u] = data[u] /\ buf'[u] = buf[u]
                       /\ put'[u] = put[u]
    BY <1>1, OthersData, MessageAssumption DEF MessageAssumption
  <2> QED
    BY <2>1, <2>2 DEF BufferInv
<1>2. P(t)'
  <2> USE DEF Inv, TypeOK, ControlTypeOK, ThreadTypeOK, DataTypeOK
  <2>0. P(t) /\ t \in Slot /\ slot[t] \in Slot
    BY DEF BufferInv, Slot
  <2>1. CASE Construct(t)
    <3>1. PICK c \in Call :
            LET s == IF c.sev # FATAL THEN t ELSE FatalSlot IN
            /\ slot' = [slot EXCEPT ![t] = s]
            /\ buf' = IF s = t THEN [buf EXCEPT ![s] = <<>>] ELSE buf
            /\ put' = IF s = t THEN [put EXCEPT ![s] = 0] ELSE put
            /\ pc' = [pc EXCEPT ![t] = "Init"]
      BY <2>1 DEF Construct
    <3> QED
      BY <2>0, <3>1
  <2>2. CASE InitFields(t) \/ InitFlag(t)
    BY <2>0, <2>2 DEF InitFields, InitFlag, threadVars
  <2>3. CASE Stream(t)
    <3>1. /\ UNCHANGED threadVars /\ pc' = [pc EXCEPT ![t] = "Flush"]
          /\ pc[t] = "stream"
          /\ buf' = [buf EXCEPT ![slot[t]] = Put(@, put[slot[t]], Id(t))]
          /\ put' = [put EXCEPT ![slot[t]] = @ + 1]
      BY <2>3 DEF Stream
    <3>2. Id(t) \in MsgId
      BY <3>1 DEF InProgressInv, MsgId
    <3>3. slot[t] = t => buf'[t] = <<Id(t)>> /\ put'[t] = 1
      <4> SUFFICES ASSUME slot[t] = t PROVE buf'[t] = <<Id(t)>> /\ put'[t] = 1
        OBVIOUS
      <4>1. buf[t] = <<>> /\ put[t] = 0
        BY <2>0, <3>1
      <4>2. buf'[t] = Put(<<>>, 0, Id(t)) /\ put'[t] = 1
        BY <2>0, <3>1, <4>1
      <4> QED
        BY <3>2, <4>2, PutFirst
    <3> QED
      BY <3>1, <3>3 DEF threadVars
  <2>4. CASE FlushIgnored(t) \/ SetFlushed(t)
    BY <2>0, <2>4 DEF FlushIgnored, SetFlushed, FlushReturns
  <2>5. CASE FlushActioned(t)
    BY <2>0, <2>5 DEF FlushActioned, threadVars, Data
  <2>6. CASE RewindShared(t)
    <3>1. t # Shared
      BY MessageAssumption DEF MessageAssumption
    <3> QED
      BY <2>0, <2>6, <3>1 DEF RewindShared, threadVars
  <2>7. CASE WildCall(t) \/ LogTrace(t) \/ SendToSink(t) \/ SendToLog(t)
    BY <2>0, <2>7 DEF WildCall, LogTrace, SendToSink, SendToLog, SinkMethods,
        threadVars, dataVars
  <2>8. CASE LogToAllLogfiles(t) \/ AfterLogfiles(t) \/ LogToSinks(t)
             \/ LogToOneSink(t) \/ LogToSinksEnds(t) \/ RecordCrashReason(t)
             \/ FlushAll(t) \/ Fail(t) \/ Relock(t)
    BY <2>0, <2>8 DEF LogToAllLogfiles, AfterLogfiles, LogToSinks,
        LogToOneSink, LogToSinksEnds, RecordCrashReason, FlushAll, Fail,
        Relock, threadVars, dataVars
  <2>9. CASE CountMessage(t) \/ WaitForSink(t) \/ WaitForSinks(t)
             \/ WaitForOneSink(t) \/ WaitForSinksEnds(t)
    BY <2>0, <2>9 DEF CountMessage, WaitForSink, WaitForSinks, WaitForOneSink,
        WaitForSinksEnds, threadVars, dataVars
  <2>10. CASE Register(t) \/ Unregister(t) \/ InitGoogleLogging(t)
    BY <2>0, <2>10 DEF Register, Unregister, InitGoogleLogging, Begin, dataVars
  <2> QED
    BY <2>1, <2>2, <2>3, <2>4, <2>5, <2>6, <2>7, <2>8, <2>9, <2>10
       DEF ThreadNext, Step
<1> QED
  BY <1>1, <1>2 DEF BufferInv

\* What a dispatch passes on of a message below FATAL is that text.
LEMMA EntryIntact ==
  ASSUME Inv, CallInv, BufferInv, DestinationAssumption, NEW t \in Thread,
         pc[t] \notin {"idle", "Init", "InitFlag", "stream", "Flush"},
         EntryOf(t).sev < FATAL
  PROVE  EntryOf(t).text = <<EntryOf(t).id>>
<1>1. slot[t] = t
  BY DEF CallInv, EntryOf, DestinationAssumption
<1>2. buf[t] = <<Id(t)>> /\ data[t].num = 1
  BY <1>1 DEF BufferInv
<1>3. EntryOf(t).text = SubSeq(<<Id(t)>>, 1, 1) /\ EntryOf(t).id = Id(t)
  BY <1>1, <1>2 DEF EntryOf
<1>4. <<Id(t)>> \in Seq({Id(t)}) /\ Len(<<Id(t)>>) = 1
  OBVIOUS
<1>5. SubSeq(<<Id(t)>>, 1, Len(<<Id(t)>>)) = <<Id(t)>>
  BY <1>4, SubSeqFull
<1> QED
  BY <1>3, <1>4, <1>5

\* A sequence of intact entries to which an intact one is appended is intact.
LEMMA IntactAppend ==
  ASSUME NEW seq \in Seq(Entry), NEW e \in Entry, IntactIn(seq),
         e.sev < FATAL => e.text = <<e.id>>
  PROVE  IntactIn(Append(seq, e))
<1> SUFFICES ASSUME NEW k \in 1..Len(Append(seq, e)),
                    Append(seq, e)[k].sev < FATAL
             PROVE  Append(seq, e)[k].text = <<Append(seq, e)[k].id>>
  BY DEF IntactIn
<1>1. CASE k = Len(seq) + 1
  BY <1>1, AppendProperties
<1>2. CASE k # Len(seq) + 1
  <2>1. k \in 1..Len(seq) /\ Append(seq, e)[k] = seq[k]
    BY <1>2, AppendProperties
  <2> QED
    BY <2>1 DEF IntactIn
<1> QED
  BY <1>1, <1>2

\* A step that adds to a destination appends what the thread dispatches.
LEMMA Appends ==
  ASSUME Inv, NEW t \in Thread, ThreadNext(t)
  PROVE  /\ \/ UNCHANGED <<received, stderr, extracted>>
            \/ /\ pc[t] \in InDispatch \cup {"LogTrace"}
               /\ EntryOf(t) \in Entry
         /\ \A s \in Sink : \/ received'[s] = received[s]
                            \/ received'[s] = Append(received[s], EntryOf(t))
         /\ stderr' = stderr \/ stderr' = Append(stderr, EntryOf(t))
         /\ \A u \in Thread : \/ extracted'[u] = extracted[u]
                              \/ extracted'[u] = Append(extracted[u], EntryOf(t))
<1> USE DEF Inv, TypeOK, DestinationTypeOK, GlobalTypeOK
<1>1. CASE LogTrace(t)
  <2>1. EntryOf(t) \in Entry
    BY <1>1, EntryType DEF LogTrace
  <2> QED
    BY <1>1, <2>1 DEF LogTrace, destinations, files
<1>2. CASE SendToSink(t) \/ LogToOneSink(t)
  <2>1. EntryOf(t) \in Entry /\ pc[t] \in InDispatch
    BY <1>2, EntryType DEF SendToSink, LogToOneSink, InDispatch
  <2>2. /\ UNCHANGED <<stderr, extracted>>
        /\ \/ UNCHANGED received
           \/ \E s : received' = [received EXCEPT ![s] = Append(@, EntryOf(t))]
    BY <1>2 DEF SendToSink, LogToOneSink, Send, destinations, files
  <2> QED
    BY <2>1, <2>2
<1>3. CASE SendToLog(t) \/ AfterLogfiles(t)
  <2>1. EntryOf(t) \in Entry /\ pc[t] \in InDispatch
    BY <1>3, EntryType DEF SendToLog, AfterLogfiles, InDispatch
  <2> QED
    BY <1>3, <2>1 DEF SendToLog, AfterLogfiles, MaybeLogToStderr,
        WriteToStderr, files
<1>4. CASE UNCHANGED <<received, stderr, extracted>>
  BY <1>4
<1>5. CASE Construct(t) \/ Register(t) \/ Unregister(t) \/ InitGoogleLogging(t)
  BY <1>4, <1>5 DEF Construct, Register, Unregister, InitGoogleLogging, Begin,
      AddLogSink, RemoveLogSink, destinations, files
<1>6. CASE InitFields(t) \/ InitFlag(t) \/ Stream(t) \/ FlushIgnored(t)
           \/ FlushActioned(t) \/ SetFlushed(t) \/ WildCall(t)
  BY <1>4, <1>6 DEF InitFields, InitFlag, Stream, FlushIgnored, FlushActioned,
      SetFlushed, FlushReturns, WildCall, destinations, files
<1>7. CASE LogToAllLogfiles(t) \/ LogToSinks(t) \/ LogToSinksEnds(t)
           \/ RecordCrashReason(t) \/ FlushAll(t) \/ Fail(t)
           \/ RewindShared(t) \/ Relock(t)
  BY <1>4, <1>7 DEF LogToAllLogfiles, MaybeLogToLogfile, LogToSinks,
      LogToSinksEnds, ReaderLock, ReaderUnlock, FlushAll, FlushAllLogfiles,
      RecordCrashReason, Fail, RewindShared, Relock, destinations, files
<1>8. CASE CountMessage(t) \/ WaitForSink(t) \/ WaitForSinks(t)
           \/ WaitForOneSink(t) \/ WaitForSinksEnds(t)
  BY <1>4, <1>8 DEF CountMessage, WaitForSink, WaitForSinks, WaitForOneSink,
      WaitForSinksEnds, ReaderLock, ReaderUnlock, destinations, files
<1> QED
  BY <1>1, <1>2, <1>3, <1>5, <1>6, <1>7, <1>8 DEF ThreadNext, Step

\* Wherever a message goes, its own text goes.
LEMMA TextStep ==
  ASSUME Inv, CallInv, DiskInv, BufferInv, TextIntact,
         DestinationAssumption, NEW t \in Thread, ThreadNext(t)
  PROVE  TextIntact'
<1> USE DEF Inv, TypeOK, DestinationTypeOK, GlobalTypeOK
<1>1. ASSUME NEW seq \in Seq(Entry), IntactIn(seq), EntryOf(t) \in Entry,
             pc[t] \in InDispatch \cup {"LogTrace"}
      PROVE  IntactIn(Append(seq, EntryOf(t)))
  <2>1. EntryOf(t).sev < FATAL => EntryOf(t).text = <<EntryOf(t).id>>
    BY <1>1, EntryIntact DEF InDispatch
  <2> QED
    BY <1>1, <2>1, IntactAppend
<1>2. ASSUME NEW i \in Severity PROVE IntactIn(file'[i])
  <2>1. IntactIn(file[i]) /\ file[i] \in Seq(Entry)
    BY DEF TextIntact
  <2>2. LogToAllLogfiles(t) => pc[t] \in InDispatch
    BY DEF LogToAllLogfiles, InDispatch
  <2> QED
    BY <1>1, <2>1, <2>2, FileAppend
<1>3. ASSUME NEW s \in Sink PROVE IntactIn(received'[s])
  <2>1. IntactIn(received[s]) /\ received[s] \in Seq(Entry)
    BY DEF TextIntact
  <2> QED
    BY <1>1, <2>1, Appends
<1>4. IntactIn(stderr')
  <2>1. IntactIn(stderr) /\ stderr \in Seq(Entry)
    BY DEF TextIntact
  <2> QED
    BY <1>1, <2>1, Appends
<1>5. ASSUME NEW u \in Thread PROVE IntactIn(extracted'[u])
  <2>1. IntactIn(extracted[u]) /\ extracted[u] \in Seq(Entry)
    BY DEF TextIntact
  <2> QED
    BY <1>1, <2>1, Appends
<1> QED
  BY <1>2, <1>3, <1>4, <1>5 DEF TextIntact, IntactIn
-----------------------------------------------------------------------------
(* Every message is counted once.                                          *)

\* A finite set with one element more, and with one less.
LEMMA AddOne ==
  ASSUME NEW S, NEW x, NEW T, IsFiniteSet(S), x \notin S, T = S \cup {x}
  PROVE  IsFiniteSet(T) /\ Cardinality(T) = Cardinality(S) + 1
BY FS_AddElement

\* A set without one of its elements has one element less.
LEMMA RemoveOne ==
  ASSUME NEW S, NEW x, NEW T, IsFiniteSet(S), x \in S, T = S \ {x}
  PROVE  IsFiniteSet(T) /\ Cardinality(T) = Cardinality(S) - 1
BY FS_RemoveElement

\* What a step of a thread does to the counts of a severity below FATAL: a
\* message is constructed, and its thread becomes pending; it is counted, and
\* its thread no longer is; or neither.
LEMMA CountCases ==
  ASSUME Inv, CallInv, MessageAssumption, DestinationAssumption,
         NEW t \in Thread, ThreadNext(t), NEW i \in 0..(FATAL - 1)
  PROVE  \/ /\ built'[i] = built[i] /\ num_messages_'[i] = num_messages_[i]
            /\ i >= MinLogLevel =>
                 ((call'[t].sev = i /\ Pending(t)')
                    <=> (call[t].sev = i /\ Pending(t)))
         \/ /\ built'[i] = built[i] + 1 /\ num_messages_'[i] = num_messages_[i]
            /\ ~Pending(t) /\ call'[t].sev = i /\ Pending(t)'
         \/ /\ built'[i] = built[i] /\ num_messages_'[i] = num_messages_[i] + 1
            /\ call[t].sev = i /\ Pending(t) /\ ~Pending(t)'
            /\ i >= MinLogLevel
<1> USE DEF Inv, TypeOK, ControlTypeOK, ThreadTypeOK, DataTypeOK, GlobalTypeOK,
    Pending, HoldsLog, InDispatch
<1>0. /\ i \in Severity /\ i # FATAL /\ slot[t] \in Slot
      /\ pc[t] # "idle" =>
           /\ pc[t] # "Init" => Me(t).sev = call[t].sev
           /\ pc[t] = "stream" /\ slot[t] # Shared => ~Me(t).flushed
           /\ pc[t] \notin {"Init", "InitFlag", "stream", "Flush"}
                => Me(t).sev >= MinLogLevel
           /\ pc[t] \in FatalPath \/ (pc[t] \in Waiting /\ after[t] = "Fail")
                => call[t].sev = FATAL
           /\ call[t].sev # FATAL => slot[t] # Shared
  BY SMTT(60), MessageAssumption DEF Severity, CallInv, DestinationAssumption,
     MessageAssumption
<1>1. CASE Construct(t)
  <2>1. PICK c \in Call : /\ call' = [call EXCEPT ![t] = c]
                          /\ pc' = [pc EXCEPT ![t] = "Init"]
                          /\ built' = [built EXCEPT ![c.sev] = @ + 1]
    BY <1>1 DEF Construct
  <2>2. UNCHANGED num_messages_ /\ pc[t] = "idle"
    BY <1>1 DEF Construct
  <2>3. c.sev \in Severity
    BY MessageAssumption DEF MessageAssumption, CallType
  <2> QED
    BY <1>0, <2>1, <2>2, <2>3
<1>2. CASE CountMessage(t)
  <2>1. /\ num_messages_' = [num_messages_ EXCEPT ![call[t].sev] = @ + 1]
        /\ UNCHANGED <<call, built>> /\ pc[t] = "Count"
        /\ pc' = [pc EXCEPT ![t] = "WaitForSink"]
        /\ call[t].sev \in Severity /\ call[t].sev >= MinLogLevel
    BY <1>0, <1>2 DEF CountMessage, threadVars, CallType
  <2> QED
    BY <1>0, <2>1
<1>3. CASE FlushIgnored(t)
  <2>1. /\ UNCHANGED <<call, data, slot, built, num_messages_>>
        /\ pc[t] = "Flush" /\ (Me(t).flushed \/ Me(t).sev < MinLogLevel)
        /\ pc' = [pc EXCEPT ![t] = "Flush"] \/ pc' = [pc EXCEPT ![t] = "idle"]
    BY <1>3 DEF FlushIgnored, FlushReturns, globals
  <2>2. call[t].sev = i => i = Me(t).sev
    BY <1>0, <2>1
  <2>3. Me(t).sev < MinLogLevel => ~(Me(t).sev >= MinLogLevel)
    <3>1. Me(t).sev \in Int /\ MinLogLevel \in Int
      BY <1>0, MessageAssumption DEF Data, Severity, MessageAssumption,
          DestinationAssumption
    <3> QED
      BY <3>1
  <2> QED
    BY <2>1, <2>2, <2>3
<1>4. CASE SetFlushed(t)
  <2>1. /\ UNCHANGED <<call, slot, built, num_messages_>> /\ pc[t] = "Flushed"
        /\ data' = [data EXCEPT ![slot[t]].flushed = TRUE]
        /\ pc' = [pc EXCEPT ![t] = "Flush"] \/ pc' = [pc EXCEPT ![t] = "idle"]
    BY <1>4 DEF SetFlushed, FlushReturns, globals
  <2>2. data'[slot[t]].flushed
    BY <1>0, <2>1 DEF Data
  <2> QED
    BY <2>1, <2>2
<1>5. CASE InitFields(t) \/ InitFlag(t)
  BY <1>0, <1>5 DEF InitFields, InitFlag, threadVars, globals
<1>6. CASE Stream(t)
  <2>1. /\ UNCHANGED <<call, slot, built, num_messages_>> /\ pc[t] = "stream"
        /\ pc' = [pc EXCEPT ![t] = "Flush"]
        /\ data'[slot[t]].flushed = data[slot[t]].flushed
    BY <1>0, <1>6 DEF Stream, threadVars, globals, Data
  <2>2. call[t].sev = i => ~data[slot[t]].flushed
    BY <1>0, <2>1
  <2> QED
    BY <2>1, <2>2
<1>7. CASE FlushActioned(t) \/ WildCall(t)
  BY <1>0, <1>7 DEF FlushActioned, WildCall, threadVars, dataVars, globals
<1>8. CASE LogTrace(t) \/ SendToSink(t) \/ SendToLog(t) \/ LogToAllLogfiles(t)
           \/ AfterLogfiles(t)
  BY <1>0, <1>8 DEF LogTrace, SendToSink, SendToLog, LogToAllLogfiles,
      AfterLogfiles, SinkMethods, threadVars, dataVars, globals
<1>9. CASE LogToSinks(t) \/ LogToOneSink(t) \/ LogToSinksEnds(t)
           \/ RecordCrashReason(t)
  BY <1>0, <1>9 DEF LogToSinks, LogToOneSink, LogToSinksEnds,
      RecordCrashReason, threadVars, dataVars, globals
<1>10. CASE FlushAll(t) \/ Fail(t) \/ RewindShared(t) \/ Relock(t)
  BY <1>0, <1>10 DEF FlushAll, Fail, RewindShared, Relock, FatalPath,
      threadVars, dataVars, globals
<1>11. CASE WaitForSink(t) \/ WaitForSinks(t) \/ WaitForOneSink(t)
            \/ WaitForSinksEnds(t)
  <2>1. /\ UNCHANGED <<call, built, num_messages_>> /\ pc[t] \in Waiting
        /\ pc'[t] \in Waiting \cup {"Fail", "Flushed"}
    BY <1>11 DEF WaitForSink, WaitForSinks, WaitForOneSink, WaitForSinksEnds,
        Waiting, threadVars, globals
  <2> QED
    BY <2>1 DEF Waiting
<1>12. CASE Register(t) \/ Unregister(t) \/ InitGoogleLogging(t)
  BY <1>0, <1>12 DEF Register, Unregister, InitGoogleLogging, Begin, dataVars
<1> QED
  BY <1>1, <1>2, <1>3, <1>4, <1>5, <1>6, <1>7, <1>8, <1>9, <1>10, <1>11,
     <1>12 DEF ThreadNext, Step

\* The messages that are built but not counted are those that are pending.
LEMMA CountStep ==
  ASSUME Inv, CallInv, CountInv, MessageAssumption, DestinationAssumption,
         NEW t \in Thread, ThreadNext(t)
  PROVE  CountInv'
<1> SUFFICES ASSUME NEW i \in 0..(FATAL - 1)
             PROVE  IF i < MinLogLevel THEN num_messages_'[i] = 0
                    ELSE /\ IsFiniteSet(Uncounted(i)')
                         /\ built'[i] = num_messages_'[i]
                                          + Cardinality(Uncounted(i)')
  BY DEF CountInv
<1> USE DEF Inv, TypeOK, GlobalTypeOK
<1>0. /\ MinLogLevel \in Int /\ i \in Int /\ i # FATAL
      /\ built[i] \in Nat /\ num_messages_[i] \in Nat
  BY MessageAssumption DEF MessageAssumption, Severity, DestinationAssumption
<1>1. CASE i < MinLogLevel
  <2>1. num_messages_[i] = 0 /\ ~(i >= MinLogLevel)
    BY <1>0, <1>1 DEF CountInv
  <2> QED
    BY <1>1, <2>1, CountCases
<1>2. CASE i >= MinLogLevel
  <2>1. /\ IsFiniteSet(Uncounted(i))
        /\ built[i] = num_messages_[i] + Cardinality(Uncounted(i))
    BY <1>0, <1>2 DEF CountInv
  <2>2. \A u \in Thread \ {t} : u \in Uncounted(i)' <=> u \in Uncounted(i)
    <3> TAKE u \in Thread \ {t}
    <3>1. pc'[u] = pc[u] /\ call'[u] = call[u] /\ slot'[u] = slot[u]
      BY OthersKept
    <3>2. call[u].sev = i /\ pc[u] = "Flush" =>
            data'[slot[u]].flushed = data[slot[u]].flushed
      <4>1. call[u].sev = i /\ pc[u] = "Flush" => slot[u] # Shared
        BY <1>0, MessageAssumption DEF CallInv, MessageAssumption
      <4> QED
        BY <4>1, OthersData
    <3> QED
      BY <3>1, <3>2 DEF Uncounted, Pending
  <2>3. /\ t \in Uncounted(i)' <=> (call'[t].sev = i /\ Pending(t)')
        /\ t \in Uncounted(i) <=> (call[t].sev = i /\ Pending(t))
    BY DEF Uncounted
  <2>4. Uncounted(i) \subseteq Thread /\ Uncounted(i)' \subseteq Thread
    BY DEF Uncounted
  <2>5. Cardinality(Uncounted(i)) \in Nat
    BY <2>1, FS_CardinalityType
  <2>6. CASE /\ built'[i] = built[i] /\ num_messages_'[i] = num_messages_[i]
             /\ (call'[t].sev = i /\ Pending(t)')
                  <=> (call[t].sev = i /\ Pending(t))
    <3>1. \A u \in Thread : u \in Uncounted(i)' <=> u \in Uncounted(i)
      BY <2>2, <2>3, <2>6
    <3>2. Uncounted(i)' = Uncounted(i)
      BY <2>4, <3>1
    <3> QED
      BY <1>0, <1>2, <2>1, <2>6, <3>2
  <2>7. CASE /\ built'[i] = built[i] + 1
             /\ num_messages_'[i] = num_messages_[i]
             /\ ~Pending(t) /\ call'[t].sev = i /\ Pending(t)'
    <3>1. Uncounted(i)' = Uncounted(i) \cup {t} /\ t \notin Uncounted(i)
      BY <2>2, <2>3, <2>4, <2>7
    <3>2. /\ IsFiniteSet(Uncounted(i)')
          /\ Cardinality(Uncounted(i)') = Cardinality(Uncounted(i)) + 1
      BY <2>1, <3>1, AddOne
    <3>3. built'[i] = num_messages_'[i] + Cardinality(Uncounted(i)')
      BY <1>0, <2>1, <2>5, <2>7, <3>2
    <3> QED
      BY <1>0, <1>2, <3>2, <3>3
  <2>8. CASE /\ built'[i] = built[i]
             /\ num_messages_'[i] = num_messages_[i] + 1
             /\ call[t].sev = i /\ Pending(t) /\ ~Pending(t)'
    <3>1. Uncounted(i)' = Uncounted(i) \ {t} /\ t \in Uncounted(i)
      BY <2>2, <2>3, <2>4, <2>8
    <3>2. /\ IsFiniteSet(Uncounted(i)')
          /\ Cardinality(Uncounted(i)') = Cardinality(Uncounted(i)) - 1
      BY <2>1, <3>1, RemoveOne
    <3>3. built'[i] = num_messages_'[i] + Cardinality(Uncounted(i)')
      BY <1>0, <2>1, <2>5, <2>8, <3>2
    <3> QED
      BY <1>0, <1>2, <3>2, <3>3
  <2> QED
    BY <1>2, <2>6, <2>7, <2>8, CountCases
<1> QED
  BY <1>0, <1>1, <1>2
-----------------------------------------------------------------------------
(* Every sink that was sent a message is waited for.                       *)

\* RemoveLogSink drops one occurrence of the sink it is given, and no other.
LEMMA OthersRegistered ==
  ASSUME NEW s, RemoveLogSink(s), sinks_ \in Seq(Sink),
         NEW k \in 1..Len(sinks_), sinks_[k] # s
  PROVE  \E j \in 1..Len(sinks_') : sinks_'[j] = sinks_[k]
<1> DEFINE n == Len(sinks_)
<1>1. CASE UNCHANGED sinks_
  BY <1>1
<1>2. ASSUME NEW i \in 1..n, sinks_[i] = s,
             sinks_' = SubSeq([sinks_ EXCEPT ![i] = sinks_[n]], 1, n - 1)
      PROVE  \E j \in 1..Len(sinks_') : sinks_'[j] = sinks_[k]
  <2> DEFINE e == [sinks_ EXCEPT ![i] = sinks_[n]]
  <2>1. n \in Nat /\ n >= 1 /\ sinks_[n] \in Sink
    BY ElementOfSeq
  <2>2. /\ e \in Seq(Sink) /\ Len(e) = n
        /\ e[i] = sinks_[n] /\ \A j \in 1..n : j # i => e[j] = sinks_[j]
    BY <2>1, ExceptSeq
  <2>3. /\ Len(sinks_') = n - 1
        /\ \A j \in 1..(n - 1) : sinks_'[j] = e[j]
    <3> HIDE DEF e
    <3> QED
      BY <1>2, <2>1, <2>2, SubSeqProperties DEF e
  <2> HIDE DEF e
  <2>4. CASE k = n
    <3>1. i # n /\ i \in 1..(n - 1)
      BY <1>2, <2>1, <2>4
    <3>2. sinks_'[i] = sinks_[k] /\ i \in 1..Len(sinks_')
      BY <2>1, <2>2, <2>3, <2>4, <3>1
    <3> QED
      BY <3>2
  <2>5. CASE k # n
    BY <1>2, <2>1, <2>2, <2>3, <2>5
  <2> QED
    BY <2>4, <2>5
<1> QED
  BY <1>1, <1>2 DEF RemoveLogSink
\* Of another thread a step touches no excuse, unless it unregisters a sink:
\* the registry changes only in AddLogSink and RemoveLogSink.
LEMMA RegistryKept ==
  ASSUME TypeOK, NEW t \in Thread, ThreadNext(t)
  PROVE  \/ /\ UNCHANGED sinks_
            /\ \A u \in Thread : u # t => excused'[u] = excused[u]
         \/ /\ pc[t] = "idle" /\ UNCHANGED <<pc, owed, slot>>
            /\ \E s \in SinkOps : \/ AddLogSink(s) /\ UNCHANGED excused
                                  \/ /\ RemoveLogSink(s)
                                     /\ excused' = [u \in Thread |->
                                           excused[u] \cup ({s} \cap owed[u])]
<1> USE DEF TypeOK, GlobalTypeOK
<1>1. CASE Construct(t)
  BY <1>1 DEF Construct, destinations
<1>2. CASE InitGoogleLogging(t) \/ Register(t) \/ Unregister(t)
  BY <1>2 DEF InitGoogleLogging, Register, Unregister, Begin, destinations
<1>3. CASE Step(t)
  <2>1. CASE InitFields(t) \/ InitFlag(t) \/ Stream(t) \/ FlushIgnored(t)
             \/ FlushActioned(t) \/ SetFlushed(t) \/ WildCall(t) \/ LogTrace(t)
    BY <2>1 DEF InitFields, InitFlag, Stream, FlushIgnored, FlushActioned,
        SetFlushed, FlushReturns, WildCall, LogTrace, destinations, waits
  <2>2. CASE SendToSink(t) \/ SendToLog(t) \/ LogToAllLogfiles(t)
             \/ AfterLogfiles(t) \/ LogToSinks(t) \/ LogToOneSink(t)
             \/ LogToSinksEnds(t)
    BY <2>2 DEF SendToSink, SendToLog, LogToAllLogfiles, AfterLogfiles,
        LogToSinks, LogToOneSink, LogToSinksEnds, Send, ReaderLock,
        ReaderUnlock, destinations, waits
  <2>3. CASE RecordCrashReason(t) \/ FlushAll(t) \/ Fail(t) \/ RewindShared(t)
             \/ Relock(t) \/ CountMessage(t)
    BY <2>3 DEF RecordCrashReason, FlushAll, Fail, RewindShared, Relock,
        CountMessage, destinations, waits
  <2>4. CASE WaitForSink(t) \/ WaitForSinks(t) \/ WaitForOneSink(t)
             \/ WaitForSinksEnds(t)
    BY <2>4 DEF WaitForSink, WaitForSinks, WaitForOneSink, WaitForSinksEnds,
        Waited, ReaderLock, ReaderUnlock, destinations, waits
  <2> QED
    BY <1>3, <2>1, <2>2, <2>3, <2>4 DEF Step
<1> QED
  BY <1>1, <1>2, <1>3 DEF ThreadNext

\* A sink that a thread still owes a wait is excused or yet to be waited for.
Provided(u) ==
  excused[u] \cup OwnSink(u) \cup {sinks_[k] : k \in StillToCome(u)}

\* Another thread's step takes none of that away: while the thread loops over
\* the sinks the registry stays, and a sink that is removed is excused.
LEMMA OthersProvided ==
  ASSUME Inv, MessageAssumption, NEW t \in Thread, ThreadNext(t),
         NEW u \in Thread, u # t, slot[u] # Shared, owed[u] \subseteq Provided(u)
  PROVE  owed'[u] \subseteq Provided(u)'
<1> USE DEF Inv, TypeOK, GlobalTypeOK, DestinationTypeOK
<1>1. /\ pc'[u] = pc[u] /\ slot'[u] = slot[u] /\ idx'[u] = idx[u]
      /\ owed'[u] = owed[u] /\ data'[slot[u]] = data[slot[u]]
  BY OthersKept, OthersData
<1>2. OwnSink(u)' = OwnSink(u)
  BY <1>1 DEF OwnSink
<1>3. CASE UNCHANGED sinks_ /\ excused'[u] = excused[u]
  <2>1. StillToCome(u)' = StillToCome(u)
    BY <1>1, <1>3 DEF StillToCome
  <2> QED
    BY <1>1, <1>2, <1>3, <2>1 DEF Provided
<1>4. ASSUME NEW s \in SinkOps,
             \/ AddLogSink(s) /\ UNCHANGED excused
             \/ /\ RemoveLogSink(s)
                /\ excused'[u] = excused[u] \cup ({s} \cap owed[u])
      PROVE  owed'[u] \subseteq Provided(u)'
  <2>1. sinkReaders = {} /\ SinkOps \subseteq Sink
    BY <1>4, MessageAssumption DEF AddLogSink, RemoveLogSink, MessageAssumption
  <2>2. pc[u] \notin HoldsSinks
    BY <2>1 DEF SinkLoopInv
  <2> SUFFICES ASSUME NEW r \in owed[u], r \notin excused'[u],
                      r \notin OwnSink(u)
               PROVE  r \in {sinks_'[k] : k \in StillToCome(u)'}
    BY <1>1, <1>2 DEF Provided
  <2>3. r \notin excused[u] /\ (RemoveLogSink(s) /\ ~AddLogSink(s) => r # s)
    BY <1>4
  <2>4. PICK k \in StillToCome(u) : r = sinks_[k]
    BY <2>3 DEF Provided
  <2>5. /\ StillToCome(u) = 1..Len(sinks_)
        /\ StillToCome(u)' = 1..Len(sinks_')
    BY <1>1, <2>2, <2>4 DEF StillToCome, HoldsSinks
  <2>6. CASE AddLogSink(s)
    <3>1. sinks_' = Append(sinks_, s)
      BY <2>6 DEF AddLogSink
    <3>2. /\ k \in 1..Len(sinks_') /\ sinks_'[k] = sinks_[k]
      BY <2>1, <2>5, <3>1, AppendProperties
    <3> QED
      BY <2>4, <2>5, <3>2
  <2>7. CASE RemoveLogSink(s) /\ ~AddLogSink(s)
    <3>1. sinks_[k] # s
      BY <2>3, <2>4, <2>7
    <3>2. \E j \in 1..Len(sinks_') : sinks_'[j] = sinks_[k]
      BY <2>5, <2>7, <3>1, OthersRegistered
    <3> QED
      BY <2>4, <2>5, <3>2
  <2> QED
    BY <1>4, <2>6, <2>7
<1> QED
  BY <1>3, <1>4, RegistryKept

\* WaitTillSent follows every send.
LEMMA WaitStep ==
  ASSUME Inv, CallInv, WaitInv, MessageAssumption,
         NEW t \in Thread, ThreadNext(t)
  PROVE  WaitInv'
<1>1. ASSUME NEW u \in Thread, u # t, slot'[u] # Shared
      PROVE  owed'[u] \subseteq Provided(u)'
  <2>1. slot'[u] = slot[u]
    BY <1>1, OthersKept DEF Inv
  <2>2. owed[u] \subseteq Provided(u)
    BY <1>1, <2>1 DEF WaitInv, Provided
  <2> QED
    BY <1>1, <2>1, <2>2, OthersProvided
<1>2. ASSUME slot'[t] # Shared PROVE owed'[t] \subseteq Provided(t)'
  <2> USE DEF Inv, TypeOK, ControlTypeOK, ThreadTypeOK, GlobalTypeOK,
      DestinationTypeOK
  <2>0. slot[t] # Shared => owed[t] \subseteq Provided(t)
    BY DEF WaitInv, Provided
  <2>1. CASE Construct(t)
    BY <2>1 DEF Construct
  <2>2. CASE ~Construct(t)
    <3>0. slot[t] # Shared /\ UNCHANGED slot
      BY <1>2, <2>2, SlotKept
    <3> USE <2>0, <3>0 DEF Provided, OwnSink, StillToCome
    <3>1. CASE InitFields(t) \/ InitFlag(t) \/ Stream(t) \/ FlushIgnored(t)
               \/ FlushActioned(t) \/ SetFlushed(t) \/ LogTrace(t)
      <4>1. /\ UNCHANGED <<sinks_, waits>>
            /\ pc[t] \in {"Init", "InitFlag", "stream", "Flush", "Flushed",
                "LogTrace"}
        BY <3>1 DEF InitFields, InitFlag, Stream, FlushIgnored, FlushActioned,
            SetFlushed, FlushReturns, LogTrace, destinations
      <4> QED
        BY <4>1 DEF HoldsLog, InDispatch, waits
    <3>a. ASSUME pc[t] \in HoldsLog, pc'[t] \in HoldsLog \cup {"WaitForSink"},
                 UNCHANGED <<sinks_, data, excused>>,
                 owed'[t] \subseteq owed[t] \cup OwnSink(t)
                                   \cup {sinks_[k] : k \in 1..Len(sinks_)}
          PROVE  owed'[t] \subseteq Provided(t)'
      <4>1. OwnSink(t)' = OwnSink(t)
        BY <3>a
      <4>2. /\ StillToCome(t) = 1..Len(sinks_)
            /\ StillToCome(t)' = 1..Len(sinks_)
        BY <3>a DEF HoldsLog, InDispatch
      <4> HIDE DEF OwnSink, StillToCome
      <4> SUFFICES ASSUME NEW r \in owed'[t] PROVE r \in Provided(t)'
        OBVIOUS
      <4>3. r \in excused[t] \cup OwnSink(t)
                 \cup {sinks_[k] : k \in 1..Len(sinks_)}
        BY <3>a, <4>2
      <4> QED
        BY <3>a, <4>1, <4>2, <4>3
    <3>2. CASE WildCall(t) \/ Fail(t) \/ RewindShared(t) \/ Relock(t)
      <4>1. CASE WildCall(t)
        BY <4>1 DEF WildCall, dataVars, waits, destinations
      <4>2. CASE Fail(t) \/ RewindShared(t) \/ Relock(t)
        <5>1. pc[t] \in {"Fail", "seekp", "Relock"} /\ UNCHANGED waits
          BY <4>2 DEF Fail, RewindShared, Relock
        <5> QED
          BY <5>1 DEF HoldsLog, InDispatch, waits
      <4> QED
        BY <3>2, <4>1, <4>2
    <3>3. CASE SendToSink(t)
      <4>1. Me(t).method \in SinkMethods
        BY <3>3 DEF SendToSink, CallInv, SinkMethods
      <4>2. /\ pc[t] \in HoldsLog /\ pc'[t] \in HoldsLog
            /\ UNCHANGED <<sinks_, data, excused>>
            /\ owed'[t] \subseteq owed[t] \cup {Me(t).target}
        BY <3>3 DEF SendToSink, Send, HoldsLog, InDispatch, dataVars,
            destinations
      <4> QED
        BY <3>a, <4>1, <4>2
    <3>4. CASE LogToOneSink(t)
      <4>1. idx[t] \in 1..Len(sinks_)
        BY <3>4 DEF LogToOneSink, SinkLoopInv, HoldsSinks
      <4>2. /\ pc[t] \in HoldsLog /\ UNCHANGED <<pc, sinks_, data, excused>>
            /\ owed'[t] = owed[t] \cup {sinks_[idx[t]]}
        BY <3>4 DEF LogToOneSink, Send, HoldsLog, InDispatch, dataVars
      <4> QED
        BY SMTT(60), <3>a, <4>1, <4>2
    <3>5. CASE SendToLog(t) \/ LogToAllLogfiles(t) \/ AfterLogfiles(t)
               \/ LogToSinks(t) \/ LogToSinksEnds(t)
      <4>1. /\ pc[t] \in HoldsLog /\ pc'[t] \in HoldsLog
            /\ UNCHANGED <<sinks_, data, waits>>
        BY <3>5 DEF SendToLog, LogToAllLogfiles, AfterLogfiles, LogToSinks,
            LogToSinksEnds, ReaderLock, ReaderUnlock, HoldsLog, InDispatch,
            dataVars
      <4> QED
        BY <3>a, <4>1 DEF waits
    <3>6. CASE RecordCrashReason(t) \/ FlushAll(t) \/ CountMessage(t)
      <4>1. /\ pc[t] \in HoldsLog /\ pc'[t] \in HoldsLog \cup {"WaitForSink"}
            /\ UNCHANGED <<sinks_, data, waits>>
        BY <3>6 DEF RecordCrashReason, FlushAll, CountMessage, HoldsLog,
            InDispatch, dataVars, destinations
      <4> QED
        BY <3>a, <4>1 DEF waits
    <3>7. CASE WaitForSink(t)
      BY <3>7 DEF WaitForSink, Waited, WildTarget, HoldsLog, InDispatch,
          dataVars, waits, destinations
    <3>8. CASE WaitForSinks(t)
      BY <3>8 DEF WaitForSinks, ReaderLock, HoldsLog, InDispatch, dataVars,
          waits
    <3>9. CASE WaitForOneSink(t)
      <4>1. /\ pc[t] = "WaitTillSent" /\ idx[t] \in Nat /\ idx[t] > 0
            /\ idx'[t] = idx[t] - 1 /\ UNCHANGED <<pc, sinks_>>
            /\ owed'[t] = owed[t] \ {sinks_[idx[t]]}
            /\ excused'[t] = excused[t] \ {sinks_[idx[t]]}
        BY <3>9 DEF WaitForOneSink, Waited, destinations
      <4>2. /\ StillToCome(t) = 1..idx[t] /\ StillToCome(t)' = 1..(idx[t] - 1)
            /\ OwnSink(t) = {}
        BY <4>1 DEF HoldsLog, InDispatch
      <4> HIDE DEF OwnSink, StillToCome
      <4> SUFFICES ASSUME NEW r \in owed'[t], r \notin excused'[t]
                   PROVE  r \in {sinks_'[k] : k \in StillToCome(t)'}
        OBVIOUS
      <4>3. r # sinks_[idx[t]]
        BY <4>1
      <4>4. r \in Provided(t) /\ r \notin excused[t]
        BY <4>1, <4>3
      <4>5. r \in {sinks_[k] : k \in StillToCome(t)}
        BY <4>2, <4>4
      <4>6. PICK k \in 1..idx[t] : r = sinks_[k]
        BY <4>2, <4>5
      <4>7. k \in 1..(idx[t] - 1)
        BY <4>1, <4>3, <4>6
      <4> QED
        BY <4>1, <4>2, <4>6, <4>7
    <3>10. CASE WaitForSinksEnds(t)
      BY <3>10 DEF WaitForSinksEnds, ReaderUnlock, HoldsLog, InDispatch,
          dataVars, waits
    <3>11. CASE Register(t) \/ Unregister(t) \/ InitGoogleLogging(t)
      <4>1. pc[t] = "idle" /\ UNCHANGED <<pc, owed>>
        BY <3>11 DEF Register, Unregister, InitGoogleLogging, Begin
      <4>2. excused[t] \subseteq excused'[t]
        BY <3>11 DEF Register, Unregister, InitGoogleLogging
      <4> QED
        BY <4>1, <4>2 DEF HoldsLog, InDispatch
    <3> QED
      BY <2>2, <3>1, <3>2, <3>3, <3>4, <3>5, <3>6, <3>7, <3>8, <3>9, <3>10,
         <3>11 DEF ThreadNext, Step
  <2> QED
    BY <2>1, <2>2
<1> QED
  BY <1>1, <1>2 DEF WaitInv, Provided
-----------------------------------------------------------------------------
(* The log files agree.                                                    *)

\* Of the first n entries at most n are severe.
LEMMA RankType ==
  ASSUME NEW seq, NEW i, NEW n \in Nat
  PROVE  IsFiniteSet(Severe(seq, i, n)) /\ Rank(seq, i, n) \in 0..n
<1>1. IsFiniteSet(1..n) /\ Cardinality(1..n) = n
  BY FS_Interval
<1>2. Severe(seq, i, n) \in SUBSET (1..n)
  BY DEF Severe
<1>3. /\ IsFiniteSet(Severe(seq, i, n))
      /\ Cardinality(Severe(seq, i, n)) <= n
  BY <1>1, <1>2, FS_Subset
<1>4. Cardinality(Severe(seq, i, n)) \in Nat
  BY <1>3, FS_CardinalityType
<1> QED
  BY <1>3, <1>4 DEF Rank

\* Appending an entry changes no rank but the one that counts it as well.
LEMMA RankAppend ==
  ASSUME NEW seq \in Seq(Entry), NEW e \in Entry, NEW i \in Int
  PROVE  /\ \A n \in 0..Len(seq) : Rank(Append(seq, e), i, n) = Rank(seq, i, n)
         /\ Rank(Append(seq, e), i, Len(seq) + 1) =
              IF e.sev >= i THEN Rank(seq, i, Len(seq)) + 1
              ELSE Rank(seq, i, Len(seq))
<1> DEFINE s == Append(seq, e)
<1>0. Len(seq) \in Nat
  OBVIOUS
<1>1. /\ \A k \in 1..Len(seq) : s[k] = seq[k]
      /\ s[Len(seq) + 1] = e
  BY AppendProperties
<1> HIDE DEF s
<1>2. ASSUME NEW n \in 0..Len(seq) PROVE Severe(s, i, n) = Severe(seq, i, n)
  BY <1>0, <1>1 DEF Severe
<1>3. CASE e.sev >= i
  <2>1. Severe(s, i, Len(seq) + 1) = Severe(s, i, Len(seq)) \cup {Len(seq) + 1}
    BY <1>0, <1>1, <1>3 DEF Severe
  <2>2. Len(seq) + 1 \notin Severe(s, i, Len(seq))
    BY <1>0 DEF Severe
  <2>3. Cardinality(Severe(s, i, Len(seq) + 1))
          = Cardinality(Severe(s, i, Len(seq))) + 1
    BY <1>0, <2>1, <2>2, AddOne, RankType
  <2> QED
    BY <1>0, <1>2, <1>3, <2>3 DEF Rank, s
<1>4. CASE ~(e.sev >= i)
  <2>1. Severe(s, i, Len(seq) + 1) = Severe(s, i, Len(seq))
    BY <1>0, <1>1, <1>4 DEF Severe
  <2> QED
    BY <1>0, <1>2, <1>4, <2>1 DEF Rank, s
<1> QED
  BY <1>3, <1>4

\* A higher file that gains an entry still matches the lower one ...
LEMMA MatchesAbove ==
  ASSUME NEW higher \in Seq(Entry), NEW lower \in Seq(Entry), NEW i \in Int,
         NEW e \in Entry, Matches(higher, lower, i)
  PROVE  Matches(Append(higher, e), lower, i)
<1> SUFFICES ASSUME NEW n \in 1..Len(lower), lower[n].sev >= i
             PROVE  LET h == Append(higher, e)
                        r == Rank(lower, i, n) IN
                    r \in 1..Len(h) /\ h[r].id = lower[n].id
  BY DEF Matches
<1>1. /\ Rank(lower, i, n) \in 1..Len(higher)
      /\ higher[Rank(lower, i, n)].id = lower[n].id
  BY DEF Matches
<1>2. Len(higher) \in Nat
  OBVIOUS
<1> QED
  BY <1>1, <1>2, AppendProperties

\* ... and so does a lower one that gains an entry, if it is below the higher
\* file's severity or the entry that the higher file already has.
LEMMA MatchesBelow ==
  ASSUME NEW higher \in Seq(Entry), NEW lower \in Seq(Entry), NEW i \in Int,
         NEW e \in Entry, Matches(higher, lower, i),
         e.sev >= i =>
           /\ Len(higher) = Rank(lower, i, Len(lower)) + 1
           /\ higher[Len(higher)].id = e.id
  PROVE  Matches(higher, Append(lower, e), i)
<1> DEFINE s == Append(lower, e)
<1>1. /\ s \in Seq(Entry) /\ Len(s) = Len(lower) + 1 /\ Len(lower) \in Nat
      /\ \A n \in 1..Len(lower) : s[n] = lower[n]
      /\ s[Len(lower) + 1] = e
  BY AppendProperties
<1>2. /\ \A n \in 0..Len(lower) : Rank(s, i, n) = Rank(lower, i, n)
      /\ e.sev >= i =>
           Rank(s, i, Len(lower) + 1) = Rank(lower, i, Len(lower)) + 1
  BY RankAppend
<1> HIDE DEF s
<1> SUFFICES ASSUME NEW n \in 1..Len(s), s[n].sev >= i
             PROVE  /\ Rank(s, i, n) \in 1..Len(higher)
                    /\ higher[Rank(s, i, n)].id = s[n].id
  BY DEF Matches, s
<1>3. CASE n = Len(lower) + 1
  <2>1. Rank(lower, i, Len(lower)) \in Nat
    BY <1>1, RankType
  <2> QED
    BY <1>1, <1>2, <1>3, <2>1
<1>4. CASE n # Len(lower) + 1
  <2>1. n \in 1..Len(lower) /\ n \in 0..Len(lower)
    BY <1>1, <1>4
  <2> QED
    BY <1>1, <1>2, <2>1 DEF Matches
<1> QED
  BY <1>3, <1>4

\* Only LogToAllLogfiles goes on in the loop over the files, and SendToLog
\* enters it, at the message's own severity.
LEMMA EntersLoop ==
  ASSUME TypeOK, NEW t \in Thread, ThreadNext(t), ~LogToAllLogfiles(t)
  PROVE  /\ UNCHANGED file
         /\ pc'[t] = "LogToAllLogfiles" =>
              \/ /\ pc[t] = "SendToLog" /\ idx'[t] = Me(t).sev
                 /\ UNCHANGED <<data, slot>>
              \/ /\ pc[t] = "LogToAllLogfiles" /\ UNCHANGED <<data, slot, idx, ops>>
         /\ pc[t] = "LogToAllLogfiles" =>
              pc'[t] = "LogToAllLogfiles" /\ UNCHANGED <<data, slot, idx, ops>>
<1> USE DEF TypeOK, ControlTypeOK
<1>0. UNCHANGED file
  BY FilesKept
<1>1. CASE SendToLog(t)
  BY <1>0, <1>1 DEF SendToLog, threadVars, dataVars
<1>2. CASE WildCall(t)
  BY <1>0, <1>2 DEF WildCall, threadVars, dataVars
<1>3. CASE InitFields(t) \/ InitFlag(t) \/ Stream(t) \/ FlushIgnored(t)
           \/ FlushActioned(t) \/ SetFlushed(t) \/ Construct(t)
  BY <1>0, <1>3 DEF InitFields, InitFlag, Stream, FlushIgnored, FlushActioned,
      SetFlushed, FlushReturns, Construct
<1>4. CASE LogTrace(t) \/ SendToSink(t) \/ AfterLogfiles(t) \/ LogToSinks(t)
           \/ LogToOneSink(t) \/ LogToSinksEnds(t) \/ RecordCrashReason(t)
  BY <1>0, <1>4 DEF LogTrace, SinkMethods, SendToSink, AfterLogfiles,
      LogToSinks, LogToOneSink, LogToSinksEnds, RecordCrashReason
<1>5. CASE FlushAll(t) \/ Fail(t) \/ RewindShared(t) \/ Relock(t)
           \/ CountMessage(t)
  BY <1>0, <1>5 DEF FlushAll, Fail, RewindShared, Relock, CountMessage
<1>6. CASE WaitForSink(t) \/ WaitForSinks(t) \/ WaitForOneSink(t)
           \/ WaitForSinksEnds(t)
  BY <1>0, <1>6 DEF WaitForSink, WaitForSinks, WaitForOneSink,
      WaitForSinksEnds
<1>7. CASE Register(t) \/ Unregister(t) \/ InitGoogleLogging(t)
  BY <1>0, <1>7 DEF Register, Unregister, InitGoogleLogging, Begin
<1> QED
  BY <1>1, <1>2, <1>3, <1>4, <1>5, <1>6, <1>7 DEF ThreadNext, Step

\* What FilesInv says of a file and the one below it.
Agree(i) ==
  LET n == Rank(file[i - 1], i, Len(file[i - 1])) IN
  /\ Matches(file[i], file[i - 1], i)
  /\ Ahead(i) = {} => Len(file[i]) = n
  /\ \A t \in Ahead(i) : Len(file[i]) = n + 1 /\ file[i][n + 1].id = Id(t)

\* In the loop the severity of a message stays, and nobody else is in it.
LEMMA OthersAhead ==
  ASSUME Inv, CallInv, MessageAssumption, NEW t \in Thread, ThreadNext(t),
         NEW u \in Thread, u # t, NEW i \in Int
  PROVE  /\ u \in Ahead(i)' <=> u \in Ahead(i)
         /\ u \in Ahead(i) => Id(u)' = Id(u)
<1>1. /\ pc'[u] = pc[u] /\ slot'[u] = slot[u] /\ idx'[u] = idx[u]
      /\ ops'[u] = ops[u]
  BY OthersKept DEF Inv
<1>2. pc[u] = "LogToAllLogfiles" => data'[slot[u]].sev = data[slot[u]].sev
  BY OthersSeverity
<1> QED
  BY <1>1, <1>2 DEF Ahead

\* The file that is written gets ahead of the one below it, and the one above
\* it is ahead no more.
LEMMA AgreeStep ==
  ASSUME Inv, CallInv, FilesInv, MessageAssumption, DestinationAssumption,
         NEW t \in Thread, LogToAllLogfiles(t), NEW i \in 1..FATAL
  PROVE  Agree(i)'
<1> DEFINE j == idx[t]
           e == EntryOf(t)
<1> USE DEF Inv, TypeOK, DestinationTypeOK, ControlTypeOK
<1>1. /\ j \in Severity /\ e \in Entry /\ e.id = Id(t) /\ e.sev = Me(t).sev
      /\ j <= e.sev /\ pc[t] = "LogToAllLogfiles"
  BY EntryType DEF LogToAllLogfiles, InProgressInv, FilesInv, EntryOf
<1>2. /\ file' = [file EXCEPT ![j] = Append(@, e)]
      /\ UNCHANGED <<data, slot, ops>>
      /\ \/ j > 0 /\ idx'[t] = j - 1 /\ pc'[t] = "LogToAllLogfiles"
         \/ j = 0 /\ pc'[t] # "LogToAllLogfiles"
  BY <1>1 DEF LogToAllLogfiles, MaybeLogToLogfile, threadVars, dataVars,
     Severity, DestinationAssumption
<1>3. /\ i \in Int /\ i \in Severity /\ i - 1 \in Severity /\ i - 1 # i
      /\ j \in Int /\ e.sev \in Int
  BY <1>1 DEF Severity, DestinationAssumption, Entry
<1>4. /\ \A u \in Ahead(i) : u = t
      /\ \A u \in Ahead(i)' : u = t
  <2>1. \A u \in Ahead(i) : u = t
    BY <1>1 DEF Ahead, LogMutexInv, HoldsLog, InDispatch
  <2>2. ThreadNext(t)
    BY DEF ThreadNext, Step
  <2>3. \A u \in Ahead(i)' : u \in Thread
    BY DEF Ahead
  <2> QED
    BY <1>3, <2>1, <2>2, <2>3, OthersAhead
<1>5. Agree(i)
  BY DEF FilesInv, Agree
<1>6. /\ t \in Ahead(i) <=> (j = i - 1 /\ e.sev >= i)
      /\ t \in Ahead(i)' <=> j = i
  <2>1. t \in Ahead(i) <=> (j = i - 1 /\ e.sev >= i)
    BY <1>1 DEF Ahead
  <2>2. t \in Ahead(i)' <=> (pc'[t] = "LogToAllLogfiles" /\ idx'[t] = i - 1
                               /\ e.sev >= i)
    BY <1>1, <1>2 DEF Ahead
  <2>3. i >= 1
    OBVIOUS
  <2> QED
    BY SMTT(60), <1>1, <1>2, <1>3, <2>1, <2>2, <2>3
<1> DEFINE low == file[i - 1]
           high == file[i]
           n == Rank(low, i, Len(low))
<1>7. /\ low \in Seq(Entry) /\ high \in Seq(Entry) /\ n \in Nat
      /\ Len(low) \in Nat /\ Len(high) \in Nat
  <2>1. low \in Seq(Entry) /\ high \in Seq(Entry)
    BY <1>3
  <2>2. Len(low) \in Nat /\ Len(high) \in Nat
    BY <2>1
  <2> QED
    BY <2>1, <2>2, RankType
<1>8. /\ Matches(high, low, i)
      /\ Ahead(i) = {} => Len(high) = n
      /\ t \in Ahead(i) => Len(high) = n + 1 /\ high[n + 1].id = Id(t)
  BY <1>5 DEF Agree
<1> SUFFICES /\ Matches(file'[i], file'[i - 1], i)
             /\ LET m == Rank(file'[i - 1], i, Len(file'[i - 1])) IN
                IF j = i THEN Len(file'[i]) = m + 1 /\ file'[i][m + 1].id = Id(t)
                ELSE Len(file'[i]) = m
  BY <1>2, <1>4, <1>6 DEF Agree
<1> HIDE DEF e, j, low, high, n
<1>9. CASE j = i
  <2>1. file'[i] = Append(high, e) /\ file'[i - 1] = low
    BY <1>2, <1>3, <1>9 DEF high, low
  <2>2. Ahead(i) = {}
    BY <1>3, <1>4, <1>6, <1>9
  <2>3. Len(high) = n
    BY <1>8, <2>2
  <2>4. /\ Matches(Append(high, e), low, i) /\ Len(Append(high, e)) = n + 1
        /\ Append(high, e)[n + 1] = e
    BY SMTT(60), <1>1, <1>3, <1>7, <1>8, <2>3, MatchesAbove, AppendProperties
  <2> QED
    BY <1>1, <1>9, <2>1, <2>4 DEF n
<1>10. CASE j = i - 1
  <2>1. file'[i] = high /\ file'[i - 1] = Append(low, e)
    BY <1>2, <1>3, <1>10 DEF high, low
  <2>2. e.sev >= i => Len(high) = n + 1 /\ high[n + 1].id = e.id
    BY <1>1, <1>6, <1>8, <1>10
  <2>3. ~(e.sev >= i) => Len(high) = n
    BY <1>4, <1>6, <1>8
  <2>4. Matches(high, Append(low, e), i)
    BY <1>1, <1>3, <1>7, <1>8, <2>2, MatchesBelow DEF n
  <2>5. /\ Len(Append(low, e)) = Len(low) + 1
        /\ Rank(Append(low, e), i, Len(low) + 1)
             = IF e.sev >= i THEN n + 1 ELSE n
    <3>1. Len(Append(low, e)) = Len(low) + 1
      BY <1>1, <1>7, AppendProperties
    <3>2. Rank(Append(low, e), i, Len(low) + 1)
            = IF e.sev >= i THEN Rank(low, i, Len(low)) + 1
              ELSE Rank(low, i, Len(low))
      BY <1>1, <1>3, <1>7, RankAppend
    <3> QED
      BY <3>1, <3>2 DEF n
  <2> QED
    BY <1>3, <1>10, <2>1, <2>2, <2>3, <2>4, <2>5
<1>11. CASE j # i /\ j # i - 1
  <2>1. file'[i] = high /\ file'[i - 1] = low
    BY <1>2, <1>3, <1>11 DEF high, low
  <2>2. Ahead(i) = {}
    BY <1>4, <1>6, <1>11
  <2> QED
    BY <1>8, <1>11, <2>1, <2>2 DEF n
<1> QED
  BY <1>9, <1>10, <1>11

\* A file never has a message that the one below it lacks, but the one message
\* that is on its way there.
LEMMA FilesStep ==
  ASSUME Inv, CallInv, FilesInv, MessageAssumption, DestinationAssumption,
         NEW t \in Thread, ThreadNext(t)
  PROVE  FilesInv'
<1> USE DEF Inv, TypeOK, ControlTypeOK, ThreadTypeOK, DataTypeOK
<1>1. ASSUME NEW u \in Thread, pc'[u] = "LogToAllLogfiles"
      PROVE  idx'[u] <= data'[slot'[u]].sev
  <2>1. CASE u # t
    <3>1. pc'[u] = pc[u] /\ slot'[u] = slot[u] /\ idx'[u] = idx[u]
      BY <2>1, OthersKept
    <3>2. data'[slot[u]].sev = data[slot[u]].sev
      BY <1>1, <2>1, <3>1, OthersSeverity
    <3> QED
      BY <1>1, <3>1, <3>2 DEF FilesInv
  <2>2. CASE u = t /\ LogToAllLogfiles(t)
    <3>1. pc[t] = "LogToAllLogfiles" /\ idx[t] \in Severity
      BY <2>2 DEF LogToAllLogfiles, InProgressInv
    <3>2. idx[t] <= Me(t).sev /\ Me(t).sev \in Severity
      BY <3>1 DEF FilesInv, Data
    <3>3. idx'[t] <= idx[t] /\ idx'[t] \in Nat /\ UNCHANGED <<data, slot>>
      BY <2>2, <3>1 DEF LogToAllLogfiles, dataVars, threadVars, Severity
    <3> QED
      BY <2>2, <3>1, <3>2, <3>3 DEF Severity, DestinationAssumption
  <2>3. CASE u = t /\ ~LogToAllLogfiles(t)
    <3>1. Me(t).sev \in Int
      BY DEF Data, Severity, DestinationAssumption
    <3>2. CASE idx'[t] = Me(t).sev /\ UNCHANGED <<data, slot>>
      BY <2>3, <3>1, <3>2
    <3>3. CASE pc[t] = "LogToAllLogfiles" /\ UNCHANGED <<data, slot, idx>>
      BY <2>3, <3>3 DEF FilesInv
    <3> QED
      BY <1>1, <2>3, <3>2, <3>3, EntersLoop
  <2> QED
    BY <2>1, <2>2, <2>3
<1>2. ASSUME NEW i \in 1..FATAL PROVE Agree(i)'
  <2>1. CASE LogToAllLogfiles(t)
    BY <2>1, AgreeStep
  <2>2. CASE ~LogToAllLogfiles(t)
    <3>1. UNCHANGED file
      BY <2>2, EntersLoop
    <3>2. Agree(i) /\ i \in Int
      <4>1. Agree(i)
        BY DEF FilesInv, Agree
      <4> QED
        BY <4>1
    <3>3. t \in Ahead(i)' <=> t \in Ahead(i)
      <4>1. Me(t).sev \in Int
        BY DEF Data, Severity, DestinationAssumption
      <4> QED
        BY <2>2, <4>1, EntersLoop DEF Ahead
    <3>4. t \in Ahead(i) => Id(t)' = Id(t)
      BY <2>2, EntersLoop DEF Ahead
    <3>5. \A u \in Thread : u \in Ahead(i)' <=> u \in Ahead(i)
      BY <3>2, <3>3, OthersAhead
    <3>6. Ahead(i)' = Ahead(i)
      BY <3>5 DEF Ahead
    <3>7. \A u \in Ahead(i) : Id(u)' = Id(u)
      BY <3>2, <3>4, OthersAhead DEF Ahead
    <3> QED
      BY <3>1, <3>2, <3>6, <3>7 DEF Agree
  <2> QED
    BY <2>1, <2>2
<1> QED
  BY <1>1, <1>2 DEF FilesInv, Agree
-----------------------------------------------------------------------------
(* The second inductive invariant.                                         *)

\* It holds at the start ...
LEMMA InitDelivery ==
  ASSUME Init, MessageAssumption, DestinationAssumption
  PROVE  DeliveryInv
<1> USE DEF Init, DestinationInit
<1>1. CallInv /\ WaitInv
  BY DEF CallInv, WaitInv
<1>2. DiskInv
  BY DEF DiskInv, FlushedFatal, Waiting
<1>3. BufferInv
  BY DEF BufferInv
<1>4. TextIntact
  BY DEF TextIntact, IntactIn
<1>5. CountInv
  <2>1. ASSUME NEW i \in 0..(FATAL - 1)
        PROVE  /\ IsFiniteSet(Uncounted(i)) /\ Cardinality(Uncounted(i)) = 0
               /\ built[i] = 0 /\ num_messages_[i] = 0
    <3>1. Uncounted(i) = {}
      BY DEF Uncounted, Pending, HoldsLog, InDispatch
    <3>2. i \in Severity
      BY DEF Severity, DestinationAssumption
    <3> QED
      BY <3>1, <3>2, FS_EmptySet
  <2> QED
    BY <2>1 DEF CountInv
<1>6. FilesInv
  <2>1. ASSUME NEW i \in 1..FATAL PROVE Agree(i)
    <3>1. file[i] = <<>> /\ file[i - 1] = <<>> /\ Len(<<>>) = 0
      BY DEF Severity, DestinationAssumption
    <3>2. Ahead(i) = {}
      BY DEF Ahead
    <3>3. Rank(<<>>, i, 0) = 0
      <4>1. Rank(<<>>, i, 0) \in 0..0
        BY RankType
      <4> QED
        BY <4>1
    <3>4. Matches(<<>>, <<>>, i)
      BY <3>1 DEF Matches
    <3> QED
      BY <3>1, <3>2, <3>3, <3>4 DEF Agree
  <2> QED
    BY <2>1 DEF FilesInv, Agree
<1> QED
  BY <1>1, <1>2, <1>3, <1>4, <1>5, <1>6 DEF DeliveryInv

\* ... what it says depends on the variables alone ...
LEMMA StutterDelivery ==
  ASSUME DeliveryInv, UNCHANGED vars
  PROVE  DeliveryInv'
<1> USE DEF DeliveryInv, vars, destinations, files, threadVars, dataVars,
    crashVars, globals, waits
<1>1. CallInv' /\ DiskInv' /\ BufferInv'
  BY DEF CallInv, DiskInv, FlushedFatal, BufferInv
<1>2. TextIntact' /\ WaitInv'
  BY DEF TextIntact, IntactIn, WaitInv, OwnSink, StillToCome
<1>3. CountInv'
  <2>1. \A i : Uncounted(i)' = Uncounted(i)
    BY DEF Uncounted, Pending
  <2> QED
    BY <2>1 DEF CountInv
<1>4. FilesInv'
  <2>1. \A i : Ahead(i)' = Ahead(i)
    BY DEF Ahead
  <2> QED
    BY <2>1 DEF FilesInv
<1> QED
  BY <1>1, <1>2, <1>3, <1>4

\* ... and every step of a thread keeps it.
LEMMA StepDelivery ==
  ASSUME Inv, DeliveryInv, [Next]_vars, MessageAssumption,
         DestinationAssumption
  PROVE  DeliveryInv'
<1>1. ASSUME NEW t \in Thread, ThreadNext(t) PROVE DeliveryInv'
  <2> USE <1>1 DEF DeliveryInv
  <2>1. CallInv' /\ DiskInv' /\ BufferInv'
    BY CallStep, DiskStep, BufferStep
  <2>2. TextIntact' /\ CountInv'
    BY TextStep, CountStep
  <2>3. WaitInv' /\ FilesInv'
    BY WaitStep, FilesStep
  <2> QED
    BY <2>1, <2>2, <2>3
<1> QED
  BY <1>1, NextCases, StutterDelivery

\* The invariant holds of any threads, calls, severities and settings of the
\* flags (Logger.cc, LogMessage.cc).
THEOREM DeliveryInvariance == Spec => []DeliveryInv
<1>1. Init => DeliveryInv
  BY InitDelivery, MessageAssumption, DestinationAssumption
<1>2. Inv /\ DeliveryInv /\ [Next]_vars => DeliveryInv'
  BY StepDelivery, MessageAssumption, DestinationAssumption
<1> QED
  BY <1>1, <1>2, Invariance, PTL DEF Spec
-----------------------------------------------------------------------------
(* What follows.                                                           *)

\* Whatever a message below FATAL is written to or sent to gets the text that
\* its own statement streamed.
THEOREM TextKept == Spec => []TextIntact
BY DeliveryInvariance, PTL DEF DeliveryInv

\* When a FATAL message fails, it and everything before it is on disk in the log
\* files of which no Write has failed.
THEOREM FatalFlushed == Spec => []FatalIsOnDisk
<1>1. DeliveryInv => FatalIsOnDisk
  BY DEF DeliveryInv, DiskInv, FlushedFatal, FatalIsOnDisk
<1> QED
  BY <1>1, DeliveryInvariance, PTL

\* At rest every message below FATAL has been counted once.
THEOREM CountedOnce == Spec => []CountsMessages
<1>1. Inv /\ DeliveryInv => CountsMessages
  <2> SUFFICES ASSUME Inv, DeliveryInv, Quiescent, NEW i \in 0..(FATAL - 1)
               PROVE  num_messages_[i] = IF i < MinLogLevel THEN 0 ELSE built[i]
    BY DEF CountsMessages
  <2>1. Uncounted(i) = {}
    BY DEF Quiescent, Uncounted, Pending, HoldsLog, InDispatch
  <2>2. Cardinality(Uncounted(i)) = 0
    BY <2>1, FS_EmptySet
  <2>3. num_messages_[i] \in Nat
    BY DestinationAssumption
       DEF Inv, TypeOK, GlobalTypeOK, Severity, DestinationAssumption
  <2> QED
    BY <2>2, <2>3 DEF DeliveryInv, CountInv
<1> QED
  BY <1>1, Invariance, DeliveryInvariance, PTL

\* A LogMessage returns, or fails, only when every sink that was sent it has
\* been waited for or was unregistered.
THEOREM SinksWaitedFor == Spec => []WaitedUnlessRemoved
<1>1. DeliveryInv => WaitedUnlessRemoved
  BY DEF DeliveryInv, WaitInv, OwnSink, StillToCome, HoldsLog, InDispatch,
     WaitedUnlessRemoved
<1> QED
  BY <1>1, DeliveryInvariance, PTL

\* Between dispatches the higher log files are the severe part of the lower
\* ones, message by message.
THEOREM LogFilesAgree == Spec => []FilesAgree
<1>1. Inv /\ DeliveryInv => FilesAgree
  <2> SUFFICES ASSUME Inv, DeliveryInv, logMutex = NoThread, NEW i \in 1..FATAL
               PROVE  /\ Len(file[i]) = Rank(file[i - 1], i, Len(file[i - 1]))
                      /\ Matches(file[i], file[i - 1], i)
    BY DEF FilesAgree
  <2>1. Ahead(i) = {}
    BY MessageAssumption
       DEF Inv, LogMutexInv, HoldsLog, InDispatch, Ahead, MessageAssumption
  <2> QED
    BY <2>1 DEF DeliveryInv, FilesInv
<1> QED
  BY <1>1, Invariance, DeliveryInvariance, PTL

-----------------------------------------------------------------------------
(* LogMessage implements SerialLog.                                        *)

\* The FATAL messages of the program all go to the logs, whatever another one
\* makes of the data they share, and end it there.
ToLogs == {"SendToLog", "SendToSinkAndLog", "WriteToStringAndLog"}
FatalEnds ==
  ~UnitTestFail /\ \A c \in Call : c.sev = FATAL => c.method \in ToLogs

\* A message is flushed by its destructor alone, or every FATAL message ends
\* the program.  Otherwise one that shares its data may be dispatched twice:
\* the next one resets has_been_flushed_ (LogMessage.cc:141).
DispatchedOnce == MaxFlush = 1 \/ FatalEnds
-----------------------------------------------------------------------------
(* The invariant.                                                          *)

\* A message that has an entry somewhere is of an earlier operation of its
\* thread, or of the present one, which will not dispatch it any more.
NoMore(t) ==
  /\ pc[t] \notin {"Init", "InitFlag", "stream", "LogTrace"}
  /\ pc[t] = "Flush" => slot[t] # Shared /\ Me(t).flushed
Gone(m) == m[2] < ops[m[1]] \/ (m[2] = ops[m[1]] /\ NoMore(m[1]))
AllGone(seq) == \A k \in 1..Len(seq) : Gone(seq[k].id)
GoneInv ==
  /\ \A i \in Severity : AllGone(file[i])
  /\ \A s \in Sink : AllGone(received[s])
  /\ AllGone(stderr)

\* The operations of a thread; the statement it executes is the program's.
OpsInv ==
  \A t \in Thread : ops[t] <= MaxOps /\ (pc[t] # "idle" => call[t] \in Call)

\* A FATAL message with shared data never gets past its failure.
BeforeFailure ==
  {"idle", "Init", "InitFlag", "stream", "Flush", "LogTrace",
   "RecordCrashReason", "FlushAll", "Fail"} \cup (InDispatch \ {"SendToSink"})
SharedInv ==
  \/ MaxFlush = 1
  \/ /\ data[Shared].method \in ToLogs
     /\ \A t \in Thread : slot[t] = Shared =>
          pc[t] \in BeforeFailure \/ (pc[t] \in Waiting /\ after[t] = "Fail")

\* The last n entries of seq are m's, and no others are.
Ends(seq, m, n) ==
  /\ n \in 0..Len(seq)
  /\ \A k \in 1..Len(seq) :
       IF k > Len(seq) - n THEN seq[k].id = m.id /\ seq[k].sev = m.sev
       ELSE seq[k].id # m.id

\* The copies of a thread's message so far: own holds the sink of its own that
\* it was sent to, toFiles says whether it goes to the log files.
Msg(t) == [id |-> Id(t), sev |-> call[t].sev]
Reached(t, i) ==
  \/ pc[t] \in {"MaybeLogToStderr", "LogToSinks", "send"}
  \/ pc[t] = "LogToAllLogfiles" /\ idx[t] < i
FileCopies(t, i, toFiles) ==
  IF toFiles /\ Reached(t, i) /\ i <= call[t].sev THEN 1 ELSE 0
StderrCopies(t, toFiles) ==
  IF /\ pc[t] \in {"LogToSinks", "send"}
     /\ ~toFiles \/ call[t].sev >= StderrThreshold
  THEN 1 ELSE 0
SentTo(t, s) == {k \in 1..Len(sinks_) : k > idx[t] /\ sinks_[k] = s}
SinkCopies(t, s, own) ==
  (IF pc[t] = "send" THEN Cardinality(SentTo(t, s)) ELSE 0)
    + (IF s \in own THEN 1 ELSE 0)
Sends(t, own, toFiles) ==
  /\ toFiles => ~LogToStderr
  /\ pc[t] \in {"LogToAllLogfiles", "MaybeLogToStderr"} => toFiles
  /\ pc[t] \in SinkMethods => own = {}
  /\ \A i \in Severity : Ends(file[i], Msg(t), FileCopies(t, i, toFiles))
  /\ \A s \in Sink : Ends(received[s], Msg(t), SinkCopies(t, s, own))
  /\ Ends(stderr, Msg(t), StderrCopies(t, toFiles))
FlightInv ==
  \A t \in Thread : pc[t] \in InDispatch =>
    \E own \in SUBSET Sink, toFiles \in BOOLEAN : Sends(t, own, toFiles)

SerialInv == OpsInv /\ SharedInv /\ GoneInv /\ FlightInv
-----------------------------------------------------------------------------
(* What only a dispatch touches.                                           *)

\* The destinations are written, and the sinks chosen, by the owner of
\* log_mutex alone.
LEMMA DestinationsKept ==
  ASSUME NEW t \in Thread, ThreadNext(t), pc[t] \notin InDispatch
  PROVE  UNCHANGED <<file, received, stderr>>
<1>1. UNCHANGED file
  BY FilesKept DEF LogToAllLogfiles, InDispatch
<1>2. CASE Construct(t) \/ Register(t) \/ Unregister(t) \/ InitGoogleLogging(t)
  BY <1>1, <1>2 DEF Construct, Register, Unregister, InitGoogleLogging,
      AddLogSink, RemoveLogSink, destinations, files
<1>3. CASE InitFields(t) \/ InitFlag(t) \/ Stream(t) \/ FlushIgnored(t)
           \/ FlushActioned(t) \/ SetFlushed(t) \/ WildCall(t) \/ LogTrace(t)
  BY <1>1, <1>3 DEF InitFields, InitFlag, Stream, FlushIgnored, FlushActioned,
      SetFlushed, FlushReturns, WildCall, LogTrace, destinations, files
<1>4. CASE RecordCrashReason(t) \/ FlushAll(t) \/ Fail(t) \/ RewindShared(t)
           \/ Relock(t) \/ CountMessage(t)
  BY <1>1, <1>4 DEF FlushAll, FlushAllLogfiles, RecordCrashReason, Fail,
      RewindShared, Relock, CountMessage, destinations, files
<1>5. CASE WaitForSink(t) \/ WaitForSinks(t) \/ WaitForOneSink(t)
           \/ WaitForSinksEnds(t)
  BY <1>1, <1>5 DEF WaitForSink, WaitForSinks, WaitForOneSink,
      WaitForSinksEnds, ReaderLock, ReaderUnlock, destinations, files
<1>6. ~(SendToSink(t) \/ SendToLog(t) \/ LogToAllLogfiles(t) \/ AfterLogfiles(t)
        \/ LogToSinks(t) \/ LogToOneSink(t) \/ LogToSinksEnds(t))
  BY DEF SendToSink, SendToLog, LogToAllLogfiles, AfterLogfiles, LogToSinks,
      LogToOneSink, LogToSinksEnds, InDispatch
<1> QED
  BY <1>2, <1>3, <1>4, <1>5, <1>6 DEF ThreadNext, Step

\* Two threads never dispatch at once, and a thread begins to dispatch only
\* when none does.
LEMMA OneInDispatch ==
  ASSUME Inv, MessageAssumption, NEW t \in Thread, pc[t] \in InDispatch,
         NEW u \in Thread, u # t
  PROVE  pc[u] \notin InDispatch /\ (ThreadNext(u) => ~LogTrace(u))
<1>1. logMutex = t
  BY DEF Inv, LogMutexInv, HoldsLog
<1> QED
  BY <1>1, MessageAssumption
     DEF Inv, LogMutexInv, HoldsLog, LogTrace, MessageAssumption

\* A dispatch is entered by LogTrace, and left by SendToSink or when the loop
\* over the sinks ends.
LEMMA EntersAndLeaves ==
  ASSUME TypeOK, NEW t \in Thread, ThreadNext(t)
  PROVE  /\ pc[t] \notin InDispatch /\ pc'[t] \in InDispatch => LogTrace(t)
         /\ pc[t] \in InDispatch /\ pc'[t] \notin InDispatch =>
              \/ SendToSink(t) /\ pc[t] = "SendToSink"
              \/ LogToSinksEnds(t)
<1> USE DEF TypeOK, ControlTypeOK, InDispatch
<1>1. CASE Construct(t) \/ Register(t) \/ Unregister(t) \/ InitGoogleLogging(t)
  BY <1>1 DEF Construct, Register, Unregister, InitGoogleLogging, Begin
<1>2. CASE InitFields(t) \/ InitFlag(t) \/ Stream(t) \/ FlushIgnored(t)
           \/ FlushActioned(t) \/ SetFlushed(t) \/ WildCall(t) \/ LogTrace(t)
  BY <1>2 DEF InitFields, InitFlag, Stream, FlushIgnored, FlushActioned,
      SetFlushed, FlushReturns, WildCall, LogTrace
<1>3. CASE RecordCrashReason(t) \/ FlushAll(t) \/ Fail(t) \/ RewindShared(t)
           \/ Relock(t) \/ CountMessage(t)
  BY <1>3 DEF FlushAll, RecordCrashReason, Fail, RewindShared, Relock,
      CountMessage
<1>4. CASE WaitForSink(t) \/ WaitForSinks(t) \/ WaitForOneSink(t)
           \/ WaitForSinksEnds(t)
  BY <1>4 DEF WaitForSink, WaitForSinks, WaitForOneSink, WaitForSinksEnds
<1>5. CASE SendToSink(t) \/ SendToLog(t) \/ LogToAllLogfiles(t)
  BY <1>5 DEF SendToSink, SendToLog, LogToAllLogfiles
<1>6. CASE AfterLogfiles(t) \/ LogToSinks(t) \/ LogToOneSink(t)
           \/ LogToSinksEnds(t)
  BY <1>6 DEF AfterLogfiles, LogToSinks, LogToOneSink, LogToSinksEnds
<1> QED
  BY <1>1, <1>2, <1>3, <1>4, <1>5, <1>6 DEF ThreadNext, Step

\* While a thread sends to the sinks the registry stays as it is.
LEMMA RegistryWhileSending ==
  ASSUME Inv, NEW t \in Thread, pc[t] = "send", NEW u \in Thread, ThreadNext(u)
  PROVE  UNCHANGED sinks_
<1>1. sinkReaders # {}
  BY DEF Inv, SinkLoopInv, HoldsSinks
<1> QED
  BY <1>1, RegistryKept DEF Inv, AddLogSink, RemoveLogSink
-----------------------------------------------------------------------------
(* No message is dispatched twice.                                         *)

\* Threads begin at most MaxOps operations.
LEMMA OpsStep ==
  ASSUME Inv, OpsInv, NEW t \in Thread, ThreadNext(t)
  PROVE  OpsInv'
<1> USE DEF Inv, TypeOK, ControlTypeOK, ThreadTypeOK
<1>1. ASSUME NEW u \in Thread, u # t
      PROVE  ops'[u] <= MaxOps /\ (pc'[u] # "idle" => call'[u] \in Call)
  BY <1>1, OthersKept DEF OpsInv
<1>2. ops'[t] <= MaxOps /\ (pc'[t] # "idle" => call'[t] \in Call)
  <2>1. CASE Construct(t)
    <3>1. ops[t] < MaxOps /\ ops'[t] = ops[t] + 1 /\ call'[t] \in Call
      BY <2>1 DEF Construct
    <3> QED
      BY <3>1, MessageAssumption DEF MessageAssumption
  <2>2. CASE Register(t) \/ Unregister(t) \/ InitGoogleLogging(t)
    <3>1. /\ ops[t] < MaxOps /\ ops'[t] = ops[t] + 1
          /\ pc[t] = "idle" /\ UNCHANGED pc
      BY <2>2 DEF Register, Unregister, InitGoogleLogging, Begin
    <3> QED
      BY <3>1, MessageAssumption DEF MessageAssumption
  <2>3. CASE Step(t)
    <3>1. UNCHANGED <<ops, call>> /\ pc[t] # "idle"
      BY <2>3 DEF Step, InitFields, InitFlag, Stream, FlushIgnored,
          FlushActioned, WildCall, LogTrace, SendToSink, SendToLog,
          LogToAllLogfiles, AfterLogfiles, LogToSinks, LogToOneSink,
          LogToSinksEnds, RecordCrashReason, FlushAll, Fail, RewindShared,
          Relock, CountMessage, WaitForSink, WaitForSinks, WaitForOneSink,
          WaitForSinksEnds, SetFlushed, FlushReturns, threadVars
    <3> QED
      BY <3>1 DEF OpsInv
  <2> QED
    BY <2>1, <2>2, <2>3 DEF ThreadNext
<1> QED
  BY <1>1, <1>2 DEF OpsInv

\* The shared data keeps a method that leads to the logs: only FATAL messages
\* write it.
LEMMA SharedMethod ==
  ASSUME Inv, CallInv, OpsInv, MessageAssumption, FatalEnds,
         data[Shared].method \in ToLogs, NEW t \in Thread, ThreadNext(t)
  PROVE  data'[Shared].method \in ToLogs
<1> USE DEF Inv, TypeOK, ControlTypeOK, ThreadTypeOK, DataTypeOK
<1>0. /\ Shared \in Slot /\ Shared # t /\ slot[t] \in Slot
      /\ data[Shared] \in Data /\ data[slot[t]] \in Data
  BY MessageAssumption DEF Slot, MessageAssumption
<1>1. CASE Construct(t)
  <2>1. \E r \in Slot : data' = IF r = t THEN [data EXCEPT ![r] = Fresh]
                       ELSE [data EXCEPT ![r].first = (r = Exclusive)]
    BY <1>1 DEF Construct, FatalSlot, Slot
  <2> QED
    BY <1>0, <2>1 DEF Data
<1>2. CASE InitFields(t)
  <2>1. /\ data' = [data EXCEPT ![slot[t]] =
                      [@ EXCEPT !.sev = call[t].sev, !.method = call[t].method]]
        /\ pc[t] = "Init"
    BY <1>2 DEF InitFields
  <2>2. CASE slot[t] = Shared
    <3>1. call[t].method \in ToLogs
      BY <1>0, <2>1, <2>2 DEF CallInv, OpsInv, FatalEnds
    <3>2. data'[Shared].method = call[t].method
      BY <1>0, <2>1, <2>2 DEF Data
    <3> QED
      BY <3>1, <3>2
  <2>3. CASE slot[t] # Shared
    BY <1>0, <2>1, <2>3
  <2> QED
    BY <2>2, <2>3
<1>3. CASE Stream(t)
  BY <1>0, <1>3 DEF Stream, Data
<1>4. CASE FlushActioned(t) \/ SetFlushed(t) \/ InitFlag(t)
  <2>1. data[slot[t]].method = data'[slot[t]].method
    <3>1. CASE FlushActioned(t)
      BY <1>0, <3>1 DEF FlushActioned, Data
    <3>2. CASE SetFlushed(t)
      BY <1>0, <3>2 DEF SetFlushed, Data
    <3>3. CASE InitFlag(t)
      BY <1>0, <3>3 DEF InitFlag, Data
    <3> QED
      BY <1>4, <3>1, <3>2, <3>3
  <2>2. slot[t] # Shared => data'[Shared] = data[Shared]
    BY <1>0, <1>4 DEF FlushActioned, SetFlushed, InitFlag
  <2> QED
    BY <2>1, <2>2
<1>5. CASE RewindShared(t) \/ UNCHANGED dataVars
  BY <1>5 DEF RewindShared, dataVars
<1> QED
  BY <1>1, <1>2, <1>3, <1>4, <1>5, DataKept

\* A FATAL message on the shared data does not get past its failure.
LEMMA SharedStep ==
  ASSUME Inv, CallInv, OpsInv, SharedInv, MessageAssumption, DispatchedOnce,
         NEW t \in Thread, ThreadNext(t)
  PROVE  SharedInv'
<1> USE DEF Inv, TypeOK, ControlTypeOK, ThreadTypeOK
<1>1. CASE MaxFlush = 1
  BY <1>1 DEF SharedInv
<1>2. CASE MaxFlush # 1
  <2> DEFINE P(u) == slot[u] = Shared =>
               pc[u] \in BeforeFailure
                 \/ (pc[u] \in Waiting /\ after[u] = "Fail")
  <2>0. /\ FatalEnds /\ data[Shared].method \in ToLogs
        /\ \A u \in Thread : P(u)
    BY <1>2 DEF DispatchedOnce, SharedInv
  <2>1. data'[Shared].method \in ToLogs
    BY <2>0, SharedMethod
  <2>2. ASSUME NEW u \in Thread, u # t PROVE P(u)'
    BY <2>0, <2>2, OthersKept
  <2>3. P(t)'
    <3> USE DEF BeforeFailure, InDispatch, Waiting
    <3>1. CASE Construct(t)
      BY <3>1 DEF Construct
    <3>2. CASE Register(t) \/ Unregister(t) \/ InitGoogleLogging(t)
      BY <2>0, <3>2 DEF Register, Unregister, InitGoogleLogging, Begin
    <3>3. CASE Step(t)
      <4> SUFFICES ASSUME slot[t] = Shared
                   PROVE  pc'[t] \in BeforeFailure
                            \/ (pc'[t] \in Waiting /\ after'[t] = "Fail")
        BY ZenonT(60), <3>3, SlotKept DEF Step, Construct, InitFields,
           InitFlag, Stream, FlushIgnored, FlushActioned, WildCall, LogTrace,
           SendToSink, SendToLog, LogToAllLogfiles, AfterLogfiles, LogToSinks,
           LogToOneSink, LogToSinksEnds, RecordCrashReason, FlushAll, Fail,
           RewindShared, Relock, CountMessage, WaitForSink, WaitForSinks,
           WaitForOneSink, WaitForSinksEnds, SetFlushed
      <4>0. P(t) /\ Shared # t
        BY <2>0, MessageAssumption DEF MessageAssumption
      <4>1. CASE InitFields(t) \/ InitFlag(t) \/ Stream(t) \/ FlushIgnored(t)
                 \/ FlushActioned(t) \/ WildCall(t)
        BY <4>0, <4>1 DEF InitFields, InitFlag, Stream, FlushIgnored,
            FlushActioned, FlushReturns, WildCall
      <4>2. CASE LogTrace(t)
        BY <2>0, <4>2 DEF LogTrace, ToLogs, SinkMethods, OutMethods
      <4>3. CASE SendToSink(t) \/ SendToLog(t) \/ LogToAllLogfiles(t)
                 \/ AfterLogfiles(t) \/ LogToSinks(t) \/ LogToOneSink(t)
        BY <4>0, <4>3 DEF SendToSink, SendToLog, LogToAllLogfiles,
            AfterLogfiles, LogToSinks, LogToOneSink
      <4>4. CASE LogToSinksEnds(t)
        <5>1. Me(t).sev = FATAL
          BY <4>0, <4>4 DEF LogToSinksEnds, CallInv
        <5> QED
          BY <4>4, <5>1 DEF LogToSinksEnds
      <4>5. CASE RecordCrashReason(t) \/ FlushAll(t)
        BY <4>5 DEF RecordCrashReason, FlushAll
      <4>6. CASE Fail(t)
        BY <2>0, <4>6 DEF Fail, FatalEnds
      <4>7. CASE RewindShared(t) \/ Relock(t) \/ CountMessage(t)
                 \/ SetFlushed(t)
        BY <4>0, <4>7 DEF RewindShared, Relock, CountMessage, SetFlushed
      <4>8. CASE WaitForSink(t) \/ WaitForSinks(t) \/ WaitForOneSink(t)
                 \/ WaitForSinksEnds(t)
        BY <4>0, <4>8 DEF WaitForSink, WaitForSinks, WaitForOneSink,
            WaitForSinksEnds
      <4> QED
        BY <3>3, <4>1, <4>2, <4>3, <4>4, <4>5, <4>6, <4>7, <4>8 DEF Step
    <3> QED
      BY <3>1, <3>2, <3>3 DEF ThreadNext
  <2> QED
    BY <2>1, <2>2, <2>3 DEF SharedInv
<1> QED
  BY <1>1, <1>2

\* A message that is not going to be dispatched never will be.
LEMMA StaysGone ==
  ASSUME Inv, CallInv, SharedInv, MessageAssumption, NEW t \in Thread,
         ThreadNext(t), NEW m \in MsgId, Gone(m)
  PROVE  Gone(m)'
<1> USE DEF Inv, TypeOK, ControlTypeOK, ThreadTypeOK
<1> DEFINE u == m[1]
<1>0. u \in Thread /\ m[2] \in Nat /\ ops[u] \in Nat
  BY DEF MsgId
<1>1. CASE u # t
  <2>1. ops'[u] = ops[u] /\ pc'[u] = pc[u] /\ slot'[u] = slot[u]
    BY <1>0, <1>1, OthersKept
  <2>2. slot[u] # Shared => data'[slot[u]] = data[slot[u]]
    BY <1>0, <1>1, OthersData
  <2> QED
    BY <2>1, <2>2 DEF Gone, NoMore
<1>2. CASE u = t
  <2>1. CASE Construct(t) \/ Register(t) \/ Unregister(t)
             \/ InitGoogleLogging(t)
    <3>1. ops'[t] = ops[t] + 1
      BY <2>1 DEF Construct, Register, Unregister, InitGoogleLogging, Begin
    <3> QED
      BY <1>0, <1>2, <3>1 DEF Gone
  <2>2. CASE Step(t)
    <3>1. UNCHANGED ops
      BY <2>2 DEF Step, InitFields, InitFlag, Stream, FlushIgnored,
          FlushActioned, WildCall, LogTrace, SendToSink, SendToLog,
          LogToAllLogfiles, AfterLogfiles, LogToSinks, LogToOneSink,
          LogToSinksEnds, RecordCrashReason, FlushAll, Fail, RewindShared,
          Relock, CountMessage, WaitForSink, WaitForSinks, WaitForOneSink,
          WaitForSinksEnds, SetFlushed, FlushReturns, threadVars
    <3>2. ASSUME NoMore(t) PROVE NoMore(t)'
      <4>1. ~(InitFields(t) \/ InitFlag(t) \/ Stream(t) \/ FlushActioned(t)
              \/ LogTrace(t))
        BY <3>2 DEF NoMore, InitFields, InitFlag, Stream, FlushActioned,
            LogTrace
      <4>2. CASE FlushIgnored(t)
        BY <3>2, <4>2 DEF NoMore, FlushIgnored, FlushReturns
      <4>3. CASE SetFlushed(t)
        <5>1. /\ pc[t] = "Flushed" /\ slot'[t] = slot[t]
              /\ data' = [data EXCEPT ![slot[t]].flushed = TRUE]
              /\ pc'[t] = IF flushes[t] > 1 THEN "Flush" ELSE "idle"
          BY <4>3 DEF SetFlushed, FlushReturns
        <5>2. data'[slot[t]].flushed
          BY <5>1 DEF DataTypeOK, Data
        <5>3. CASE slot[t] = Shared
          <6>1. MaxFlush = 1
            BY <5>1, <5>3
               DEF SharedInv, BeforeFailure, InDispatch, Waiting
          <6>2. flushes[t] \in 0..1
            BY <6>1
          <6> QED
            BY <5>1, <6>2 DEF NoMore
        <5> QED
          BY <5>1, <5>2, <5>3 DEF NoMore
      <4>4. CASE WaitForSinksEnds(t)
        BY <4>4 DEF NoMore, WaitForSinksEnds
      <4>5. CASE WildCall(t)
        BY <3>2, <4>5 DEF NoMore, WildCall, threadVars, dataVars
      <4>6. CASE SendToSink(t) \/ SendToLog(t) \/ LogToAllLogfiles(t)
                 \/ AfterLogfiles(t) \/ LogToSinks(t) \/ LogToOneSink(t)
                 \/ LogToSinksEnds(t)
        BY <4>6 DEF NoMore, SendToSink, SendToLog, LogToAllLogfiles,
            AfterLogfiles, LogToSinks, LogToOneSink, LogToSinksEnds
      <4>7. CASE RecordCrashReason(t) \/ FlushAll(t) \/ Fail(t)
                 \/ RewindShared(t) \/ Relock(t) \/ CountMessage(t)
                 \/ WaitForSink(t) \/ WaitForSinks(t) \/ WaitForOneSink(t)
        BY <4>7 DEF NoMore, RecordCrashReason, FlushAll, Fail, RewindShared,
            Relock, CountMessage, WaitForSink, WaitForSinks, WaitForOneSink
      <4> QED
        BY <2>2, <4>1, <4>2, <4>3, <4>4, <4>5, <4>6, <4>7 DEF Step
    <3> QED
      BY <1>2, <3>1, <3>2 DEF Gone
  <2> QED
    BY <2>1, <2>2 DEF ThreadNext
<1> QED
  BY <1>1, <1>2

\* What is dispatched is not dispatched again.
LEMMA DispatchedIsGone ==
  ASSUME Inv, NEW t \in Thread, ThreadNext(t), pc[t] \in InDispatch
  PROVE  /\ Id(t) \in MsgId /\ EntryOf(t) \in Entry
         /\ Id(t)' = Id(t) /\ Gone(Id(t))'
<1> USE DEF Inv, TypeOK, ControlTypeOK, ThreadTypeOK
<1>1. Id(t) \in MsgId /\ EntryOf(t) \in Entry
  <2>1. pc[t] # "idle"
    BY DEF InDispatch
  <2> QED
    BY <2>1, EntryType DEF InProgressInv, MsgId
<1>2. UNCHANGED ops /\ NoMore(t)'
  <2>1. CASE SendToSink(t) \/ SendToLog(t) \/ LogToAllLogfiles(t)
             \/ AfterLogfiles(t) \/ LogToSinks(t) \/ LogToOneSink(t)
             \/ LogToSinksEnds(t) \/ WildCall(t)
    BY <2>1 DEF NoMore, SendToSink, SendToLog, LogToAllLogfiles, AfterLogfiles,
        LogToSinks, LogToOneSink, LogToSinksEnds, WildCall, threadVars,
        InDispatch
  <2>2. ~(InitFields(t) \/ InitFlag(t) \/ Stream(t) \/ FlushIgnored(t)
          \/ FlushActioned(t) \/ LogTrace(t) \/ RecordCrashReason(t)
          \/ FlushAll(t) \/ Fail(t))
    BY DEF InitFields, InitFlag, Stream, FlushIgnored, FlushActioned, LogTrace,
        RecordCrashReason, FlushAll, Fail, InDispatch
  <2>3. ~(RewindShared(t) \/ Relock(t) \/ CountMessage(t) \/ WaitForSink(t)
          \/ WaitForSinks(t) \/ WaitForOneSink(t) \/ WaitForSinksEnds(t)
          \/ SetFlushed(t))
    BY DEF RewindShared, Relock, CountMessage, WaitForSink, WaitForSinks,
        WaitForOneSink, WaitForSinksEnds, SetFlushed, InDispatch
  <2>4. ~(Construct(t) \/ Register(t) \/ Unregister(t) \/ InitGoogleLogging(t))
    BY DEF Construct, Register, Unregister, InitGoogleLogging, Begin, InDispatch
  <2> QED
    BY <2>1, <2>2, <2>3, <2>4 DEF ThreadNext, Step
<1> QED
  BY <1>1, <1>2 DEF Gone

\* Whatever has an entry somewhere is not dispatched again.
LEMMA GoneStep ==
  ASSUME Inv, CallInv, DiskInv, SharedInv, GoneInv, MessageAssumption,
         DestinationAssumption, NEW t \in Thread, ThreadNext(t)
  PROVE  GoneInv'
<1> USE DEF Inv, TypeOK, DestinationTypeOK
<1> DEFINE G == {m \in MsgId : Gone(m)}
           Within(seq, H) == \A k \in 1..Len(seq) : seq[k].id \in H
<1>1. /\ \A m \in G : m \in G'
      /\ pc[t] \in InDispatch => EntryOf(t) \in Entry /\ EntryOf(t).id \in G'
  <2>1. \A m \in G : m \in G'
    BY StaysGone
  <2>2. pc[t] \in InDispatch =>
          EntryOf(t) \in Entry /\ Id(t) \in G' /\ EntryOf(t).id = Id(t)
    BY DispatchedIsGone DEF EntryOf
  <2> HIDE DEF G
  <2> QED
    BY <2>1, <2>2
<1>2. ASSUME NEW seq \in Seq(Entry)
      PROVE  AllGone(seq) <=> Within(seq, G)
  <2>1. \A k \in 1..Len(seq) : seq[k].id \in MsgId
    <3>1. \A k \in 1..Len(seq) : seq[k] \in Entry
      BY ElementOfSeq
    <3> QED
      BY <3>1 DEF Entry
  <2> QED
    BY <2>1 DEF AllGone
<1> HIDE DEF G
<1>3. ASSUME NEW seq \in Seq(Entry), Within(seq, G), NEW r,
             r = seq \/ (r = Append(seq, EntryOf(t)) /\ pc[t] \in InDispatch)
      PROVE  Within(r, G')
  <2>1. CASE r = seq
    BY <1>1, <1>3, <2>1
  <2>2. CASE r = Append(seq, EntryOf(t)) /\ pc[t] \in InDispatch
    <3>1. /\ Len(r) = Len(seq) + 1 /\ r[Len(seq) + 1] = EntryOf(t)
          /\ \A k \in 1..Len(seq) : r[k] = seq[k]
      BY <1>1, <2>2, AppendProperties
    <3>2. \A k \in 1..Len(r) : k \in 1..Len(seq) \/ k = Len(seq) + 1
      BY <3>1
    <3> QED
      BY <1>1, <1>3, <2>2, <3>1, <3>2
  <2> QED
    BY <1>3, <2>1, <2>2
<1>4. ASSUME NEW i \in Severity PROVE Within(file'[i], G')
  <2>1. LogToAllLogfiles(t) => pc[t] \in InDispatch
    BY DEF LogToAllLogfiles, InDispatch
  <2>2. file'[i] = file[i]
          \/ (file'[i] = Append(file[i], EntryOf(t)) /\ pc[t] \in InDispatch)
    BY <2>1, FileAppend
  <2>3. file[i] \in Seq(Entry) /\ Within(file[i], G)
    BY <1>2 DEF GoneInv
  <2> HIDE DEF Within
  <2> QED
    BY <1>3, <2>2, <2>3
<1>5. pc[t] \notin InDispatch => UNCHANGED <<received, stderr>>
  BY DestinationsKept
<1>6. ASSUME NEW s \in Sink PROVE Within(received'[s], G')
  <2>1. received[s] \in Seq(Entry) /\ Within(received[s], G)
    BY <1>2 DEF GoneInv
  <2>2. received'[s] = received[s] \/
          (received'[s] = Append(received[s], EntryOf(t)) /\ pc[t] \in InDispatch)
    BY <1>5, Appends
  <2> HIDE DEF Within
  <2> QED
    BY <1>3, <2>1, <2>2
<1>7. Within(stderr', G')
  <2>1. stderr \in Seq(Entry) /\ Within(stderr, G)
    BY <1>2 DEF GoneInv
  <2>2. stderr' = stderr
          \/ (stderr' = Append(stderr, EntryOf(t)) /\ pc[t] \in InDispatch)
    BY <1>5, Appends
  <2> HIDE DEF Within
  <2> QED
    BY <1>3, <2>1, <2>2
<1> QED
  BY <1>4, <1>6, <1>7 DEF GoneInv, AllGone, G
-----------------------------------------------------------------------------
(* Where the copies of a message are while it is dispatched.               *)

\* One more copy, or none at all.
LEMMA EndsAppend ==
  ASSUME NEW seq \in Seq(Entry), NEW m, NEW n, Ends(seq, m, n),
         NEW e \in Entry, e.id = m.id, e.sev = m.sev
  PROVE  Ends(Append(seq, e), m, n + 1)
<1> DEFINE r == Append(seq, e)
<1>1. /\ Len(r) = Len(seq) + 1 /\ r[Len(seq) + 1] = e
      /\ \A k \in 1..Len(seq) : r[k] = seq[k]
  BY AppendProperties
<1>2. Len(seq) \in Nat /\ n \in 0..Len(seq)
  BY DEF Ends
<1> HIDE DEF r
<1>3. ASSUME NEW k \in 1..Len(r)
      PROVE  IF k > Len(r) - (n + 1) THEN r[k].id = m.id /\ r[k].sev = m.sev
             ELSE r[k].id # m.id
  <2>1. CASE k = Len(seq) + 1
    BY <1>1, <1>2, <2>1
  <2>2. CASE k # Len(seq) + 1
    <3>1. k \in 1..Len(seq) /\ (k > Len(r) - (n + 1) <=> k > Len(seq) - n)
      BY <1>1, <1>2, <2>2
    <3> QED
      BY <1>1, <3>1 DEF Ends
  <2> QED
    BY <2>1, <2>2
<1>4. n + 1 \in 0..Len(r)
  BY <1>1, <1>2
<1> QED
  BY <1>3, <1>4 DEF Ends, r

\* A message that has no entry has no copies.
LEMMA EndsNone ==
  ASSUME NEW seq \in Seq(Entry), NEW m,
         \A k \in 1..Len(seq) : seq[k].id # m.id
  PROVE  Ends(seq, m, 0)
<1>1. Len(seq) \in Nat
  OBVIOUS
<1> QED
  BY <1>1 DEF Ends

\* What a dispatch passes on is the thread's message, which stays the same.
LEMMA MessageKept ==
  ASSUME Inv, CallInv, NEW t \in Thread, ThreadNext(t), pc[t] \in InDispatch
  PROVE  /\ EntryOf(t) \in Entry /\ EntryOf(t).id = Msg(t).id
         /\ EntryOf(t).sev = Msg(t).sev /\ Me(t).sev = call[t].sev
         /\ Msg(t)' = Msg(t) /\ UNCHANGED <<call, ops>>
<1>1. EntryOf(t) \in Entry /\ Id(t)' = Id(t)
  BY DispatchedIsGone
<1>2. Me(t).sev = call[t].sev
  BY DEF CallInv, InDispatch
<1>3. UNCHANGED <<call, ops>>
  <2>1. ~Construct(t) /\ ~Register(t) /\ ~Unregister(t) /\ ~InitGoogleLogging(t)
    BY DEF Construct, Register, Unregister, InitGoogleLogging, Begin, InDispatch
  <2>2. Step(t)
    BY <2>1 DEF ThreadNext
  <2>3. UNCHANGED ops
    BY <2>2 DEF Step, InitFields, InitFlag, Stream, FlushIgnored,
        FlushActioned, WildCall, LogTrace, SendToSink, SendToLog,
        LogToAllLogfiles, AfterLogfiles, LogToSinks, LogToOneSink,
        LogToSinksEnds, RecordCrashReason, FlushAll, Fail, RewindShared,
        Relock, CountMessage, WaitForSink, WaitForSinks, WaitForOneSink,
        WaitForSinksEnds, SetFlushed, FlushReturns, threadVars
  <2> QED
    BY <2>1, <2>3, SlotKept
<1> QED
  BY <1>1, <1>2, <1>3 DEF EntryOf, Msg

\* Another thread's step leaves the copies of a message in flight alone.
LEMMA OthersFlight ==
  ASSUME Inv, MessageAssumption, NEW t \in Thread, ThreadNext(t),
         NEW u \in Thread, u # t, pc[u] \in InDispatch,
         NEW own \in SUBSET Sink, NEW toFiles \in BOOLEAN,
         Sends(u, own, toFiles)
  PROVE  Sends(u, own, toFiles)'
<1>1. UNCHANGED <<file, received, stderr>>
  BY OneInDispatch, DestinationsKept
<1>2. /\ pc'[u] = pc[u] /\ ops'[u] = ops[u] /\ call'[u] = call[u]
      /\ idx'[u] = idx[u]
  BY OthersKept DEF Inv
<1>3. Msg(u)' = Msg(u)
  BY <1>2 DEF Msg
<1>4. \A i \in Severity : FileCopies(u, i, toFiles)' = FileCopies(u, i, toFiles)
  BY <1>2 DEF FileCopies, Reached
<1>5. StderrCopies(u, toFiles)' = StderrCopies(u, toFiles)
  BY <1>2 DEF StderrCopies
<1>6. \A s \in Sink : SinkCopies(u, s, own)' = SinkCopies(u, s, own)
  <2>1. CASE pc[u] = "send"
    <3>1. UNCHANGED sinks_
      BY <2>1, RegistryWhileSending
    <3> QED
      BY <1>2, <3>1 DEF SinkCopies, SentTo
  <2>2. CASE pc[u] # "send"
    BY <1>2, <2>2 DEF SinkCopies
  <2> QED
    BY <2>1, <2>2
<1> QED
  BY <1>1, <1>2, <1>3, <1>4, <1>5, <1>6 DEF Sends, Ends

\* The own step of a thread that dispatches: what each destination then holds
\* of its message, the copy that this step makes included.
LEMMA FlightOwn ==
  ASSUME Inv, CallInv, FilesInv, DestinationAssumption, NEW t \in Thread,
         ThreadNext(t), pc[t] \in InDispatch, pc'[t] \in InDispatch,
         NEW own \in SUBSET Sink, NEW toFiles \in BOOLEAN,
         Sends(t, own, toFiles)
  PROVE  \E now \in SUBSET Sink, files2 \in BOOLEAN : Sends(t, now, files2)'
<1> USE DEF Inv, TypeOK, ControlTypeOK, DestinationTypeOK
<1>0. /\ EntryOf(t) \in Entry /\ EntryOf(t).id = Msg(t).id
      /\ EntryOf(t).sev = Msg(t).sev /\ Msg(t)' = Msg(t)
      /\ Me(t).sev = call[t].sev /\ UNCHANGED <<call, ops>>
      /\ call[t].sev \in Severity
  <2>1. call[t].sev \in Severity
    BY DEF ThreadTypeOK, CallType
  <2> QED
    BY <2>1, MessageKept
<1>1. /\ \A i \in Severity : Ends(file[i], Msg(t), FileCopies(t, i, toFiles))
      /\ \A s \in Sink : Ends(received[s], Msg(t), SinkCopies(t, s, own))
      /\ Ends(stderr, Msg(t), StderrCopies(t, toFiles))
      /\ toFiles => ~LogToStderr
      /\ pc[t] \in {"LogToAllLogfiles", "MaybeLogToStderr"} => toFiles
      /\ pc[t] \in SinkMethods => own = {}
  BY DEF Sends
<1>2. CASE SendToSink(t)
  <2>1. /\ pc[t] = "SendToSinkAndLog" /\ pc'[t] = "SendToLog"
        /\ UNCHANGED <<file, stderr>>
    BY <1>2 DEF SendToSink, InDispatch, Send, destinations, files
  <2>2. own = {} /\ \A s \in Sink : Ends(received[s], Msg(t), 0)
    BY <1>1, <2>1 DEF SinkMethods, SinkCopies
  <2>3. \A i \in Severity : Ends(file[i], Msg(t), 0)
    BY <1>1, <2>1 DEF FileCopies, Reached
  <2>4. Ends(stderr, Msg(t), 0)
    BY <1>1, <2>1 DEF StderrCopies
  <2>5. \E now \in SUBSET Sink : \A s \in Sink :
          Ends(received'[s], Msg(t), IF s \in now THEN 1 ELSE 0)
    <3>1. CASE Me(t).target \in Sink
      <4>1. received' = [received EXCEPT ![Me(t).target] = Append(@, EntryOf(t))]
        BY <1>2, <3>1 DEF SendToSink, Send
      <4>2. ASSUME NEW s \in Sink
            PROVE  Ends(received'[s], Msg(t),
                        IF s \in {Me(t).target} THEN 1 ELSE 0)
        <5>1. CASE s = Me(t).target
          <6>1. received'[s] = Append(received[s], EntryOf(t))
                /\ received[s] \in Seq(Entry) /\ Ends(received[s], Msg(t), 0)
            BY <2>2, <4>1, <5>1
          <6>2. Ends(received'[s], Msg(t), 0 + 1)
            BY <1>0, <6>1, EndsAppend
          <6> QED
            BY <5>1, <6>2
        <5>2. CASE s # Me(t).target
          BY <2>2, <4>1, <5>2
        <5> QED
          BY <5>1, <5>2
      <4> QED
        BY ZenonT(60), <3>1, <4>2
    <3>2. CASE Me(t).target \notin Sink
      <4>1. received' = received
        BY <1>2, <3>2 DEF SendToSink, destinations
      <4> QED
        BY <2>2, <4>1
    <3> QED
      BY <3>1, <3>2
  <2>6. PICK now \in SUBSET Sink : \A s \in Sink :
          Ends(received'[s], Msg(t), IF s \in now THEN 1 ELSE 0)
    BY <2>5
  <2>7. /\ \A i \in Severity : FileCopies(t, i, FALSE)' = 0
        /\ \A s \in Sink : SinkCopies(t, s, now)' = IF s \in now THEN 1 ELSE 0
        /\ StderrCopies(t, FALSE)' = 0
    BY <2>1 DEF FileCopies, Reached, SinkCopies, StderrCopies
  <2>8. Sends(t, now, FALSE)'
    BY <1>0, <2>1, <2>3, <2>4, <2>6, <2>7 DEF Sends, SinkMethods
  <2> QED
    BY <2>8
<1>3. CASE SendToLog(t)
  <2>1. /\ pc[t] = "SendToLog" /\ UNCHANGED received
    BY <1>3 DEF SendToLog
  <2>2. /\ \A i \in Severity : Ends(file[i], Msg(t), 0)
        /\ Ends(stderr, Msg(t), 0)
        /\ \A s \in Sink : Ends(received[s], Msg(t), IF s \in own THEN 1 ELSE 0)
    BY <1>1, <2>1 DEF FileCopies, Reached, StderrCopies, SinkCopies
  <2>3. CASE StderrOnly
    <3>1. /\ stderr' = Append(stderr, EntryOf(t)) /\ UNCHANGED file
          /\ pc'[t] = "LogToSinks"
      BY <1>3, <2>3 DEF SendToLog, WriteToStderr
    <3>2. Ends(stderr', Msg(t), 0 + 1)
      BY <1>0, <2>2, <3>1, EndsAppend
    <3>3. /\ \A i \in Severity : FileCopies(t, i, FALSE)' = 0
          /\ \A s \in Sink : SinkCopies(t, s, own)' = IF s \in own THEN 1 ELSE 0
          /\ StderrCopies(t, FALSE)' = 0 + 1
      BY <3>1 DEF FileCopies, SinkCopies, StderrCopies
    <3>4. Ends(stderr', Msg(t), StderrCopies(t, FALSE)')
      BY <3>2, <3>3
    <3>5. Sends(t, own, FALSE)'
      BY <1>0, <2>1, <2>2, <3>1, <3>3, <3>4 DEF Sends, SinkMethods
    <3> QED
      BY <3>5
  <2>4. CASE ~StderrOnly
    <3>1. /\ UNCHANGED files /\ pc'[t] = "LogToAllLogfiles"
          /\ idx'[t] = call[t].sev /\ ~LogToStderr
      BY <1>0, <1>3, <2>4 DEF SendToLog, StderrOnly
    <3>2. /\ \A i \in Severity : FileCopies(t, i, TRUE)' = 0
          /\ \A s \in Sink : SinkCopies(t, s, own)' = IF s \in own THEN 1 ELSE 0
          /\ StderrCopies(t, TRUE)' = 0
      BY SMTT(60), <1>0, <3>1 DEF FileCopies, Reached, SinkCopies, StderrCopies, Severity
    <3>3. Sends(t, own, TRUE)'
      BY <1>0, <2>1, <2>2, <3>1, <3>2 DEF Sends, SinkMethods, files
    <3> QED
      BY <3>3
  <2> QED
    BY <2>3, <2>4
<1>4. CASE LogToAllLogfiles(t)
  <2>1. /\ pc[t] = "LogToAllLogfiles" /\ UNCHANGED <<received, stderr>>
        /\ file' = [file EXCEPT ![idx[t]] = Append(@, EntryOf(t))]
        /\ toFiles = TRUE /\ idx[t] \in Severity /\ idx[t] <= call[t].sev
    BY <1>0, <1>1, <1>4
       DEF LogToAllLogfiles, MaybeLogToLogfile, InProgressInv, FilesInv
  <2>2. \/ idx[t] > 0 /\ idx'[t] = idx[t] - 1 /\ pc'[t] = "LogToAllLogfiles"
        \/ idx[t] = 0 /\ pc'[t] = "MaybeLogToStderr"
    BY <1>4, <2>1 DEF LogToAllLogfiles, Severity
  <2>3. ASSUME NEW i \in Severity
        PROVE  Ends(file'[i], Msg(t), FileCopies(t, i, TRUE)')
    <3>0. idx[t] \in Int /\ i \in Int /\ i >= 0 /\ file[i] \in Seq(Entry)
      BY <2>1 DEF Severity
    <3>1. CASE i = idx[t]
      <4>1. FileCopies(t, i, TRUE) = 0
        BY <2>1, <3>0, <3>1 DEF FileCopies, Reached
      <4>2. FileCopies(t, i, TRUE)' = 0 + 1
        BY <1>0, <2>1, <2>2, <3>0, <3>1 DEF FileCopies, Reached
      <4>3. Ends(Append(file[i], EntryOf(t)), Msg(t), 0 + 1)
        BY <1>0, <1>1, <2>1, <3>0, <4>1, EndsAppend
      <4> QED
        BY <2>1, <3>1, <4>2, <4>3
    <3>2. CASE i # idx[t]
      <4>1. FileCopies(t, i, TRUE)' = FileCopies(t, i, TRUE)
        BY <1>0, <2>1, <2>2, <3>0, <3>2 DEF FileCopies, Reached
      <4>2. file'[i] = file[i]
        BY <2>1, <3>2
      <4> QED
        BY <1>1, <2>1, <4>1, <4>2
    <3> QED
      BY <3>1, <3>2
  <2>4. /\ \A s \in Sink : SinkCopies(t, s, own)' = SinkCopies(t, s, own)
        /\ StderrCopies(t, TRUE)' = StderrCopies(t, TRUE)
    BY <2>1, <2>2 DEF SinkCopies, StderrCopies
  <2>5. Sends(t, own, TRUE)'
    BY <1>0, <1>1, <2>1, <2>2, <2>3, <2>4 DEF Sends, SinkMethods
  <2> QED
    BY <2>5
<1>5. CASE AfterLogfiles(t)
  <2>1. /\ pc[t] = "MaybeLogToStderr" /\ pc'[t] = "LogToSinks"
        /\ UNCHANGED <<file, received>> /\ toFiles = TRUE
    BY <1>1, <1>5
       DEF AfterLogfiles, MaybeLogToStderr, WriteToStderr, files
  <2>2. /\ \A s \in Sink : SinkCopies(t, s, own)' = SinkCopies(t, s, own)
        /\ \A i \in Severity : FileCopies(t, i, TRUE)' = FileCopies(t, i, TRUE)
    BY <1>0, <2>1 DEF SinkCopies, FileCopies, Reached
  <2>3. StderrCopies(t, TRUE) = 0
    BY <2>1 DEF StderrCopies
  <2>4. Ends(stderr', Msg(t), StderrCopies(t, TRUE)')
    <3>1. CASE call[t].sev >= StderrThreshold
      <4>1. stderr' = Append(stderr, EntryOf(t))
        BY <1>0, <1>5, <3>1 DEF AfterLogfiles, MaybeLogToStderr, WriteToStderr,
            EntryOf
      <4>2. StderrCopies(t, TRUE)' = 0 + 1
        BY <1>0, <2>1, <3>1 DEF StderrCopies
      <4>3. Ends(Append(stderr, EntryOf(t)), Msg(t), 0 + 1)
        BY <1>0, <1>1, <2>1, <2>3, EndsAppend
      <4> QED
        BY <4>1, <4>2, <4>3
    <3>2. CASE ~(call[t].sev >= StderrThreshold)
      <4>1. stderr' = stderr
        BY <1>0, <1>5, <3>2 DEF AfterLogfiles, MaybeLogToStderr, WriteToStderr,
            EntryOf, files
      <4>2. StderrCopies(t, TRUE)' = 0
        BY <1>0, <2>1, <3>2 DEF StderrCopies
      <4> QED
        BY <1>1, <2>1, <2>3, <4>1, <4>2
    <3> QED
      BY <3>1, <3>2
  <2>5. Sends(t, own, TRUE)'
    BY <1>0, <1>1, <2>1, <2>2, <2>4 DEF Sends, SinkMethods
  <2> QED
    BY <2>5
<1>6. CASE LogToSinks(t)
  <2>1. /\ pc[t] = "LogToSinks" /\ pc'[t] = "send" /\ idx'[t] = Len(sinks_)
        /\ UNCHANGED <<file, received, stderr, sinks_>>
    BY <1>6 DEF LogToSinks, ReaderLock, files
  <2>2. ASSUME NEW s \in Sink
        PROVE  SinkCopies(t, s, own)' = SinkCopies(t, s, own)
    <3>1. Len(sinks_) \in Nat
      OBVIOUS
    <3>2. SentTo(t, s)' = {}
      BY <2>1, <3>1 DEF SentTo
    <3> QED
      BY <2>1, <3>2, FS_EmptySet DEF SinkCopies
  <2>3. /\ \A i \in Severity :
              FileCopies(t, i, toFiles)' = FileCopies(t, i, toFiles)
        /\ StderrCopies(t, toFiles)' = StderrCopies(t, toFiles)
    BY <1>0, <2>1 DEF FileCopies, Reached, StderrCopies
  <2>4. Sends(t, own, toFiles)'
    BY <1>0, <1>1, <2>1, <2>2, <2>3 DEF Sends, SinkMethods
  <2> QED
    BY <2>4
<1>7. CASE LogToOneSink(t)
  <2>1. /\ pc[t] = "send" /\ pc'[t] = "send" /\ idx[t] > 0
        /\ idx'[t] = idx[t] - 1 /\ UNCHANGED <<file, stderr, sinks_>>
        /\ received' = [received EXCEPT ![sinks_[idx[t]]] =
                           Append(@, EntryOf(t))]
    BY <1>7 DEF LogToOneSink, Send, files
  <2>2. idx[t] \in 1..Len(sinks_) /\ Len(sinks_) \in Nat
    BY <2>1 DEF SinkLoopInv, HoldsSinks
  <2>3. /\ \A i \in Severity :
              FileCopies(t, i, toFiles)' = FileCopies(t, i, toFiles)
        /\ StderrCopies(t, toFiles)' = StderrCopies(t, toFiles)
    BY <1>0, <2>1 DEF FileCopies, Reached, StderrCopies
  <2>4. ASSUME NEW s \in Sink
        PROVE  Ends(received'[s], Msg(t), SinkCopies(t, s, own)')
    <3>0. received[s] \in Seq(Entry)
      OBVIOUS
    <3>1. CASE sinks_[idx[t]] = s
      <4>1. /\ SentTo(t, s)' = SentTo(t, s) \cup {idx[t]}
            /\ idx[t] \notin SentTo(t, s)
        BY <2>1, <2>2, <3>1 DEF SentTo
      <4>2. IsFiniteSet(SentTo(t, s))
        <5>1. IsFiniteSet(1..Len(sinks_)) /\ SentTo(t, s) \subseteq 1..Len(sinks_)
          BY <2>2, FS_Interval DEF SentTo
        <5> QED
          BY <5>1, FS_Subset
      <4>3. Cardinality(SentTo(t, s)') = Cardinality(SentTo(t, s)) + 1
            /\ Cardinality(SentTo(t, s)) \in Nat
        BY <4>1, <4>2, AddOne, FS_CardinalityType
      <4>4. SinkCopies(t, s, own)' = SinkCopies(t, s, own) + 1
        BY <2>1, <4>3 DEF SinkCopies
      <4>5. Ends(Append(received[s], EntryOf(t)), Msg(t),
                 SinkCopies(t, s, own) + 1)
        BY <1>0, <1>1, <3>0, EndsAppend
      <4> QED
        BY <2>1, <3>1, <4>4, <4>5
    <3>2. CASE sinks_[idx[t]] # s
      <4>1. SentTo(t, s)' = SentTo(t, s)
        BY <2>1, <2>2, <3>2 DEF SentTo
      <4>2. SinkCopies(t, s, own)' = SinkCopies(t, s, own)
        BY <2>1, <4>1 DEF SinkCopies
      <4>3. received'[s] = received[s]
        BY <2>1, <3>2
      <4> QED
        BY <1>1, <4>2, <4>3
    <3> QED
      BY <3>1, <3>2
  <2>5. Sends(t, own, toFiles)'
    BY <1>0, <1>1, <2>1, <2>3, <2>4 DEF Sends, SinkMethods
  <2> QED
    BY <2>5
<1>8. CASE WildCall(t)
  BY <1>8 DEF WildCall, InDispatch
<1> QED
  <2>1. ~(Construct(t) \/ Register(t) \/ Unregister(t) \/ InitGoogleLogging(t)
          \/ InitFields(t) \/ InitFlag(t) \/ Stream(t) \/ FlushIgnored(t)
          \/ FlushActioned(t) \/ LogTrace(t) \/ RecordCrashReason(t)
          \/ FlushAll(t) \/ Fail(t))
    BY DEF Construct, Register, Unregister, InitGoogleLogging, Begin,
        InitFields, InitFlag, Stream, FlushIgnored, FlushActioned, LogTrace,
        RecordCrashReason, FlushAll, Fail, InDispatch
  <2>2. ~(RewindShared(t) \/ Relock(t) \/ CountMessage(t) \/ WaitForSink(t)
          \/ WaitForSinks(t) \/ WaitForOneSink(t) \/ WaitForSinksEnds(t)
          \/ SetFlushed(t))
    BY DEF RewindShared, Relock, CountMessage, WaitForSink, WaitForSinks,
        WaitForOneSink, WaitForSinksEnds, SetFlushed, InDispatch
  <2>3. ~LogToSinksEnds(t)
    BY DEF LogToSinksEnds, InDispatch
  <2> QED
    BY <1>2, <1>3, <1>4, <1>5, <1>6, <1>7, <1>8, <2>1, <2>2, <2>3
       DEF ThreadNext, Step

\* A message that is about to be dispatched has no entry anywhere.
LEMMA FlightBegins ==
  ASSUME Inv, GoneInv, NEW t \in Thread, ThreadNext(t), LogTrace(t),
         pc'[t] \in InDispatch
  PROVE  Sends(t, {}, FALSE)'
<1> USE DEF Inv, TypeOK, ControlTypeOK, DestinationTypeOK
<1>1. UNCHANGED <<file, received, stderr, ops, call>>
  BY DEF LogTrace, destinations, files, threadVars
<1>2. pc[t] = "LogTrace"
      /\ pc'[t] \in {"SendToSink", "SendToSinkAndLog", "SendToLog"}
  BY DEF LogTrace, SinkMethods, InDispatch
<1>3. ASSUME NEW seq \in Seq(Entry), AllGone(seq)
      PROVE  Ends(seq, Msg(t), 0)
  <2>1. ops[t] \in Nat /\ ~NoMore(t)
    BY <1>2 DEF ThreadTypeOK, NoMore
  <2>2. ~Gone(Id(t))
    BY <2>1 DEF Gone
  <2>3. \A k \in 1..Len(seq) : seq[k].id # Id(t)
    BY <1>3, <2>2 DEF AllGone
  <2> QED
    BY <2>3, EndsNone DEF Msg
<1>4. /\ \A i \in Severity : Ends(file[i], Msg(t), 0)
      /\ \A s \in Sink : Ends(received[s], Msg(t), 0)
      /\ Ends(stderr, Msg(t), 0)
  BY <1>3 DEF GoneInv
<1>5. /\ \A i \in Severity : FileCopies(t, i, FALSE)' = 0
      /\ \A s \in Sink : SinkCopies(t, s, {})' = 0
      /\ StderrCopies(t, FALSE)' = 0 /\ Msg(t)' = Msg(t)
  BY <1>1, <1>2 DEF FileCopies, SinkCopies, StderrCopies, Msg
<1> QED
  BY <1>1, <1>2, <1>4, <1>5 DEF Sends

\* At every step of a dispatch the copies so far are the last entries.
LEMMA FlightStep ==
  ASSUME Inv, CallInv, FilesInv, GoneInv, FlightInv, MessageAssumption,
         DestinationAssumption, NEW t \in Thread, ThreadNext(t)
  PROVE  FlightInv'
<1> SUFFICES ASSUME NEW u \in Thread, pc'[u] \in InDispatch
             PROVE  \E own \in SUBSET Sink, toFiles \in BOOLEAN :
                      Sends(u, own, toFiles)'
  BY DEF FlightInv
<1>1. CASE u # t
  <2>1. pc[u] \in InDispatch
    BY <1>1, OthersKept DEF Inv
  <2>2. PICK own \in SUBSET Sink, toFiles \in BOOLEAN : Sends(u, own, toFiles)
    BY <2>1 DEF FlightInv
  <2> QED
    BY <1>1, <2>1, <2>2, OthersFlight
<1>2. CASE u = t
  <2>1. CASE pc[t] \in InDispatch
    <3>1. PICK own \in SUBSET Sink, toFiles \in BOOLEAN : Sends(t, own, toFiles)
      BY <2>1 DEF FlightInv
    <3> QED
      BY <1>2, <2>1, <3>1, FlightOwn
  <2>2. CASE pc[t] \notin InDispatch
    <3>1. LogTrace(t)
      BY <1>2, <2>2, EntersAndLeaves DEF Inv
    <3>2. Sends(t, {}, FALSE)'
      BY <1>2, <3>1, FlightBegins
    <3> QED
      BY <1>2, <3>2
  <2> QED
    BY <2>1, <2>2
<1> QED
  BY <1>1, <1>2
-----------------------------------------------------------------------------
(* The invariant.                                                          *)

\* At the start nothing has been written.
LEMMA InitSerial ==
  ASSUME Init, MessageAssumption
  PROVE  SerialInv
<1> USE DEF Init, DestinationInit
<1>1. OpsInv
  <2>1. 0 <= MaxOps
    BY MessageAssumption DEF MessageAssumption
  <2>2. \A t \in Thread : ops[t] = 0 /\ pc[t] = "idle"
    OBVIOUS
  <2> HIDE DEF Init
  <2> QED
    BY <2>1, <2>2 DEF OpsInv
<1>2. SharedInv
  BY MessageAssumption
     DEF SharedInv, BeforeFailure, ToLogs, Fresh, Slot, MessageAssumption
<1>3. GoneInv
  BY DEF GoneInv, AllGone
<1>4. FlightInv
  BY DEF FlightInv, InDispatch
<1> QED
  BY <1>1, <1>2, <1>3, <1>4 DEF SerialInv

\* A step that changes nothing keeps it.
LEMMA StutterSerial ==
  ASSUME SerialInv, UNCHANGED vars
  PROVE  SerialInv'
<1> USE DEF vars, threadVars, dataVars, crashVars, globals, waits,
            destinations, files
<1>1. OpsInv' /\ SharedInv'
  BY DEF SerialInv, OpsInv, SharedInv
<1>2. GoneInv'
  BY ZenonT(60) DEF SerialInv, GoneInv, AllGone, Gone, NoMore
<1>3. FlightInv'
  <2>1. ASSUME NEW t \in Thread, NEW own, NEW toFiles
        PROVE  /\ \A i : FileCopies(t, i, toFiles)' = FileCopies(t, i, toFiles)
               /\ \A s : SinkCopies(t, s, own)' = SinkCopies(t, s, own)
               /\ StderrCopies(t, toFiles)' = StderrCopies(t, toFiles)
               /\ Msg(t)' = Msg(t)
    BY DEF FileCopies, SinkCopies, StderrCopies, Reached, SentTo, Msg
  <2>2. ASSUME NEW t \in Thread, NEW own, NEW toFiles, Sends(t, own, toFiles)
        PROVE  Sends(t, own, toFiles)'
    BY <2>1, <2>2 DEF Sends
  <2> QED
    BY <2>2 DEF SerialInv, FlightInv
<1> QED
  BY <1>1, <1>2, <1>3 DEF SerialInv

\* ... and every step of a thread does.
LEMMA StepSerial ==
  ASSUME Inv, DeliveryInv, SerialInv, [Next]_vars, DispatchedOnce,
         MessageAssumption, DestinationAssumption
  PROVE  SerialInv'
<1>1. ASSUME NEW t \in Thread, ThreadNext(t) PROVE SerialInv'
  <2> USE <1>1 DEF DeliveryInv, SerialInv
  <2>1. OpsInv' /\ SharedInv'
    BY OpsStep, SharedStep
  <2>2. GoneInv' /\ FlightInv'
    BY GoneStep, FlightStep
  <2> QED
    BY <2>1, <2>2
<1> QED
  BY <1>1, NextCases, StutterSerial

\* The invariant holds of any threads, calls and severities, if no message is
\* dispatched twice (LogMessage.cc:129-283).
THEOREM SerialInvariance ==
  ASSUME DispatchedOnce
  PROVE  Spec => []SerialInv
<1>1. Init => SerialInv
  BY InitSerial, MessageAssumption
<1>2. Inv /\ DeliveryInv /\ SerialInv /\ [Next]_vars => SerialInv'
  BY StepSerial, MessageAssumption, DestinationAssumption
<1> QED
  BY <1>1, <1>2, Invariance, DeliveryInvariance, PTL DEF Spec
-----------------------------------------------------------------------------
(* What is seen of the destinations.                                       *)

\* A sequence without the entries of the messages in F.
Without(seq, F) ==
  [k \in {j \in 1..Len(seq) : seq[j].id \notin F} |->
     [id |-> seq[k].id, sev |-> seq[k].sev]]

\* What is seen is what is there without the messages in flight.
LEMMA SeenIs ==
  /\ SeenFile = [i \in Severity |-> Without(file[i], InFlight)]
  /\ SeenFile' = [i \in Severity |-> Without(file'[i], InFlight')]
  /\ SeenReceived = [s \in Sink |-> Without(received[s], InFlight)]
  /\ SeenReceived' = [s \in Sink |-> Without(received'[s], InFlight')]
  /\ SeenStderr = Without(stderr, InFlight)
  /\ SeenStderr' = Without(stderr', InFlight')
BY DEF SeenFile, SeenReceived, SeenStderr, Seen, Settled, Without

\* What is left out makes no difference.
LEMMA WithoutSame ==
  ASSUME NEW seq \in Seq(Entry), NEW F, NEW r \in Seq(Entry), NEW G,
         Len(seq) <= Len(r),
         \A k \in 1..Len(seq) :
           r[k] = seq[k] /\ (seq[k].id \in F <=> seq[k].id \in G),
         \A k \in 1..Len(r) : k > Len(seq) => r[k].id \in G
  PROVE  Without(r, G) = Without(seq, F)
<1>1. Len(seq) \in Nat /\ Len(r) \in Nat
  OBVIOUS
<1>2. {j \in 1..Len(r) : r[j].id \notin G} = {j \in 1..Len(seq) : seq[j].id \notin F}
  <2>1. ASSUME NEW j \in 1..Len(r), r[j].id \notin G
        PROVE  j \in 1..Len(seq) /\ seq[j].id \notin F
    <3>1. j \in 1..Len(seq)
      BY <1>1, <2>1
    <3> QED
      BY <2>1, <3>1
  <2>2. ASSUME NEW j \in 1..Len(seq), seq[j].id \notin F
        PROVE  j \in 1..Len(r) /\ r[j].id \notin G
    BY <1>1, <2>2
  <2> QED
    BY <2>1, <2>2
<1>3. \A k \in {j \in 1..Len(seq) : seq[j].id \notin F} : r[k] = seq[k]
  OBVIOUS
<1> QED
  BY <1>2, <1>3 DEF Without

\* Seen with the message whose copies are at its end a sequence is the rest of
\* it with these copies appended.
LEMMA WithoutAdd ==
  ASSUME NEW seq \in Seq(Entry), NEW m \in [id : MsgId, sev : Severity], NEW n,
         Ends(seq, m, n)
  PROVE  /\ Without(seq, {}) = Serial!Add(Without(seq, {m.id}), m, n)
         /\ IdsOf(Without(seq, {})) =
              IdsOf(Without(seq, {m.id})) \cup (IF n > 0 THEN {m.id} ELSE {})
         /\ m.id \notin IdsOf(Without(seq, {m.id}))
         /\ n = 0 => Without(seq, {}) = Without(seq, {m.id})
<1> DEFINE R == [id : MsgId, sev : Severity]
           a == Len(seq) - n
           s == Without(seq, {m.id})
           r == Without(seq, {})
           c == [k \in 1..n |-> m]
<1>1. Len(seq) \in Nat /\ n \in Nat /\ a \in Nat /\ a + n = Len(seq)
  BY DEF Ends
<1>2. ASSUME NEW k \in 1..Len(seq)
      PROVE  [id |-> seq[k].id, sev |-> seq[k].sev] \in R
  <2>1. seq[k] \in Entry
    BY ElementOfSeq
  <2> QED
    BY <2>1 DEF Entry
<1>3. /\ \A k \in 1..a : k \in 1..Len(seq) /\ seq[k].id # m.id
      /\ \A k \in 1..Len(seq) : k \notin 1..a =>
           seq[k].id = m.id /\ seq[k].sev = m.sev
  BY <1>1 DEF Ends
<1>4. s = [k \in 1..a |-> [id |-> seq[k].id, sev |-> seq[k].sev]]
  <2>1. {j \in 1..Len(seq) : seq[j].id \notin {m.id}} = 1..a
    BY <1>3
  <2> QED
    BY <2>1 DEF Without
<1>5. r = [k \in 1..Len(seq) |-> [id |-> seq[k].id, sev |-> seq[k].sev]]
  <2>1. {j \in 1..Len(seq) : seq[j].id \notin {}} = 1..Len(seq)
    OBVIOUS
  <2> QED
    BY <2>1 DEF Without
<1> HIDE DEF s, r
<1>6. s \in Seq(R) /\ Len(s) = a
  BY <1>1, <1>2, <1>3, <1>4
<1>7. r \in Seq(R) /\ Len(r) = Len(seq)
  BY <1>1, <1>2, <1>5
<1>8. c \in Seq(R) /\ Len(c) = n
  BY <1>1
<1>9. /\ s \o c \in Seq(R) /\ Len(s \o c) = a + n
      /\ \A k \in 1..(a + n) :
           (s \o c)[k] = IF k <= a THEN s[k] ELSE c[k - a]
  <2> HIDE DEF R, a, c
  <2> QED
    BY <1>6, <1>8, ConcatProperties
<1>10. \A k \in 1..Len(seq) : r[k] = (s \o c)[k]
  <2> SUFFICES ASSUME NEW k \in 1..Len(seq)
               PROVE  r[k] = (s \o c)[k]
    OBVIOUS
  <2>1. CASE k <= a
    <3>1. k \in 1..a /\ k \in 1..(a + n)
      BY <1>1, <2>1
    <3>2. (s \o c)[k] = s[k]
      BY <1>9, <2>1, <3>1
    <3> QED
      BY <1>4, <1>5, <3>1, <3>2
  <2>2. CASE ~(k <= a)
    <3>1. k - a \in 1..n /\ k \in 1..(a + n) /\ k \notin 1..a
      BY <1>1, <2>2
    <3>2. (s \o c)[k] = m
      BY <1>9, <2>2, <3>1
    <3>3. r[k] = [id |-> m.id, sev |-> m.sev]
      BY <1>3, <1>5, <3>1
    <3> QED
      BY <3>2, <3>3
  <2> QED
    BY <2>1, <2>2
<1>11. r = s \o c
  <2> DEFINE q == s \o c
  <2>1. q \in Seq(R) /\ Len(q) = Len(seq)
    BY <1>1, <1>9
  <2>2. \A k \in 1..Len(q) : r[k] = q[k]
    BY <1>10, <2>1
  <2> HIDE DEF R, a, c, q
  <2>3. r = q
    BY <1>7, <2>1, <2>2, SeqEqual
  <2> QED
    BY <2>3 DEF q
<1>12. IdsOf(s) = {seq[k].id : k \in 1..a}
  BY <1>4 DEF IdsOf
<1>13. IdsOf(r) = {seq[k].id : k \in 1..Len(seq)}
  BY <1>5 DEF IdsOf
<1>14. m.id \notin IdsOf(s)
  BY <1>3, <1>12
<1>15. IdsOf(r) = IdsOf(s) \cup (IF n > 0 THEN {m.id} ELSE {})
  <2>1. CASE n = 0
    <3>1. 1..a = 1..Len(seq)
      BY <1>1, <2>1
    <3> QED
      BY <1>12, <1>13, <2>1, <3>1
  <2>2. CASE n > 0
    <3>1. Len(seq) \in 1..Len(seq) /\ Len(seq) \notin 1..a
      BY <1>1, <2>2
    <3> QED
      BY <1>3, <1>12, <1>13, <2>2, <3>1
  <2> QED
    BY <1>1, <2>1, <2>2
<1>16. n = 0 => r = s
  <2>1. n = 0 => 1..a = 1..Len(seq)
    BY <1>1
  <2> QED
    BY <1>4, <1>5, <2>1
<1> QED
  BY <1>11, <1>14, <1>15, <1>16 DEF s, r, Serial!Add

\* How often a sink is registered.
LEMMA RegisteredType ==
  ASSUME sinks_ \in Seq(Sink), NEW s
  PROVE  /\ IsFiniteSet({k \in 1..Len(sinks_) : sinks_[k] = s})
         /\ Registrations(s) \in Nat
<1>1. /\ IsFiniteSet(1..Len(sinks_))
      /\ {k \in 1..Len(sinks_) : sinks_[k] = s} \subseteq 1..Len(sinks_)
  BY FS_Interval
<1>2. IsFiniteSet({k \in 1..Len(sinks_) : sinks_[k] = s})
  BY <1>1, FS_Subset
<1> QED
  BY <1>2, FS_CardinalityType DEF Registrations

\* AddLogSink registers its sink once more, and no other.
LEMMA AddRegisters ==
  ASSUME sinks_ \in Seq(Sink), NEW s \in Sink, AddLogSink(s), NEW x \in Sink
  PROVE  Registrations(x)' = Registrations(x) + (IF x = s THEN 1 ELSE 0)
<1> DEFINE n == Len(sinks_)
           A == {k \in 1..n : sinks_[k] = x}
           B == {k \in 1..Len(sinks_') : sinks_'[k] = x}
<1>1. /\ n \in Nat /\ Len(sinks_') = n + 1 /\ sinks_'[n + 1] = s
      /\ \A k \in 1..n : sinks_'[k] = sinks_[k]
  BY AppendProperties DEF AddLogSink
<1>2. IsFiniteSet(A) /\ Cardinality(A) \in Nat
  BY RegisteredType DEF Registrations
<1>3. CASE x = s
  <2>1. B = A \cup {n + 1} /\ n + 1 \notin A
    BY <1>1, <1>3
  <2>2. Cardinality(B) = Cardinality(A) + 1
    <3> HIDE DEF A, B
    <3> QED
      BY <1>2, <2>1, AddOne
  <2> QED
    BY <1>3, <2>2 DEF Registrations
<1>4. CASE x # s
  <2>1. B = A
    BY <1>1, <1>4
  <2>2. Registrations(x)' = Cardinality(B) /\ Registrations(x) = Cardinality(A)
    BY DEF Registrations
  <2> HIDE DEF A, B
  <2> QED
    BY <1>2, <1>4, <2>1, <2>2
<1> QED
  BY <1>3, <1>4

\* RemoveLogSink unregisters its sink once, wherever it is in the vector, and
\* no other, although the last sink is moved.
LEMMA RemoveUnregisters ==
  ASSUME sinks_ \in Seq(Sink), NEW s \in Sink, RemoveLogSink(s)
  PROVE  \/ UNCHANGED sinks_
         \/ /\ Registrations(s) > 0
            /\ \A x \in Sink :
                 Registrations(x)' = Registrations(x) - (IF x = s THEN 1 ELSE 0)
<1> DEFINE n == Len(sinks_)
<1> SUFFICES ASSUME NEW i \in 1..n, sinks_[i] = s,
                    \A j \in (i + 1)..n : sinks_[j] # s,
                    sinks_' = SubSeq([sinks_ EXCEPT ![i] = sinks_[n]], 1, n - 1)
             PROVE  /\ Registrations(s) > 0
                    /\ \A x \in Sink : Registrations(x)' =
                         Registrations(x) - (IF x = s THEN 1 ELSE 0)
  BY DEF RemoveLogSink
<1> DEFINE e == [sinks_ EXCEPT ![i] = sinks_[n]]
<1>1. n \in Nat /\ n >= 1 /\ sinks_[n] \in Sink
  BY ElementOfSeq
<1>2. /\ e \in Seq(Sink) /\ Len(e) = n
      /\ e[i] = sinks_[n] /\ \A j \in 1..n : j # i => e[j] = sinks_[j]
  BY <1>1, ExceptSeq
<1>3. /\ Len(sinks_') = n - 1
      /\ \A j \in 1..(n - 1) : sinks_'[j] = e[j]
  <2> HIDE DEF e
  <2> QED
    BY <1>1, <1>2, SubSeqProperties DEF e
<1> HIDE DEF e
<1>4. /\ \A j \in 1..(n - 1) : j # i => sinks_'[j] = sinks_[j]
      /\ i # n => i \in 1..(n - 1) /\ sinks_'[i] = sinks_[n] /\ sinks_[n] # s
  <2>1. \A j \in 1..(n - 1) : j \in 1..n
    BY <1>1
  <2>2. i # n => i \in 1..(n - 1) /\ n \in (i + 1)..n
    BY <1>1
  <2> QED
    BY <1>2, <1>3, <2>1, <2>2
<1>5. ASSUME NEW x \in Sink
      PROVE  Registrations(x)' = Registrations(x) - (IF x = s THEN 1 ELSE 0)
  <2> DEFINE A == {k \in 1..n : sinks_[k] = x}
             B == {k \in 1..Len(sinks_') : sinks_'[k] = x}
  <2>0. IsFiniteSet(A) /\ Cardinality(A) \in Nat
    BY RegisteredType DEF Registrations
  <2>1. \A k : k \in 1..Len(sinks_') <=> k \in 1..n /\ k # n
    BY <1>1, <1>3
  <2>2. CASE x = s
    <3>1. B = A \ {i} /\ i \in A
      <4>1. CASE i = n
        BY <1>3, <1>4, <2>1, <2>2, <4>1
      <4>2. CASE i # n
        BY <1>3, <1>4, <2>1, <2>2, <4>2
      <4> QED
        BY <4>1, <4>2
    <3>2. Cardinality(B) = Cardinality(A) - 1
      <4> HIDE DEF A, B
      <4> QED
        BY <2>0, <3>1, RemoveOne
    <3> QED
      BY <2>2, <3>2 DEF Registrations
  <2>3. CASE x # s /\ (i = n \/ sinks_[n] # x)
    <3>1. B = A
      <4>1. ASSUME NEW k \in B PROVE k \in A
        <5>1. k # i => sinks_[k] = x
          BY <1>3, <1>4, <2>1
        <5>2. k = i => FALSE
          BY <1>4, <2>1, <2>3, <1>3
        <5> QED
          BY <2>1, <5>1, <5>2
      <4>2. ASSUME NEW k \in A PROVE k \in B
        <5>1. k # n /\ k # i
          BY <2>3
        <5> QED
          BY <1>3, <1>4, <2>1, <5>1
      <4> QED
        BY <4>1, <4>2
    <3>2. /\ Registrations(x)' = Cardinality(B)
          /\ Registrations(x) = Cardinality(A)
      BY DEF Registrations
    <3> HIDE DEF A, B
    <3> QED
      BY <2>0, <2>3, <3>1, <3>2
  <2>4. CASE x # s /\ i # n /\ sinks_[n] = x
    <3>1. n \in A /\ i \notin A /\ B = (A \ {n}) \cup {i}
      <4>1. n \in A /\ i \notin A
        BY <1>1, <2>4
      <4>2. ASSUME NEW k \in B PROVE k \in (A \ {n}) \cup {i}
        BY <1>3, <1>4, <2>1
      <4>3. ASSUME NEW k \in (A \ {n}) \cup {i} PROVE k \in B
        BY <1>3, <1>4, <2>1, <2>4
      <4> QED
        BY <4>1, <4>2, <4>3
    <3>0. /\ Registrations(x)' = Cardinality(B)
          /\ Registrations(x) = Cardinality(A)
      BY DEF Registrations
    <3> HIDE DEF A, B
    <3>2. IsFiniteSet(A \ {n}) /\ Cardinality(A \ {n}) = Cardinality(A) - 1
      BY <2>0, <3>1, RemoveOne
    <3>3. Cardinality(B) = Cardinality(A \ {n}) + 1
      BY <3>1, <3>2, AddOne
    <3>4. Cardinality(B) = Cardinality(A)
      BY <2>0, <3>2, <3>3
    <3> QED
      BY <2>0, <2>4, <3>0, <3>4
  <2> QED
    BY <2>2, <2>3, <2>4
<1>6. Registrations(s) > 0
  <2> DEFINE A == {k \in 1..n : sinks_[k] = s}
  <2>1. IsFiniteSet(A) /\ i \in A /\ Registrations(s) = Cardinality(A)
    BY RegisteredType DEF Registrations
  <2> HIDE DEF A
  <2>2. IsFiniteSet(A \ {i}) /\ Cardinality(A \ {i}) = Cardinality(A) - 1
    BY <2>1, RemoveOne
  <2>3. Cardinality(A \ {i}) \in Nat /\ Cardinality(A) \in Nat
    BY <2>1, <2>2, FS_CardinalityType
  <2> QED
    BY <2>1, <2>2, <2>3
<1> QED
  BY <1>5, <1>6
-----------------------------------------------------------------------------
(* Every step is one of SerialLog, or none.                                *)

\* When nothing that is seen changes it is no step.
LEMMA SerialStutter ==
  ASSUME \A i \in Severity :
           Without(file'[i], InFlight') = Without(file[i], InFlight),
         \A s \in Sink :
           Without(received'[s], InFlight') = Without(received[s], InFlight),
         Without(stderr', InFlight') = Without(stderr, InFlight)
  PROVE  /\ UNCHANGED <<SeenFile, SeenReceived, SeenStderr>>
         /\ UNCHANGED sinks_ => UNCHANGED Serial!vars
<1>1. UNCHANGED <<SeenFile, SeenReceived, SeenStderr>>
  BY SeenIs
<1>2. ASSUME UNCHANGED sinks_ PROVE \A s : Registrations(s)' = Registrations(s)
  BY <1>2 DEF Registrations
<1> QED
  BY <1>1, <1>2 DEF Serial!vars

\* Which message is in flight, before and after a thread's step.
LEMMA FlightChanges ==
  ASSUME Inv, MessageAssumption, NEW t \in Thread, ThreadNext(t)
  PROVE  IF pc[t] \in InDispatch
         THEN /\ InFlight = {Id(t)}
              /\ InFlight' = IF pc'[t] \in InDispatch THEN {Id(t)'} ELSE {}
         ELSE IF pc'[t] \in InDispatch
              THEN InFlight = {} /\ InFlight' = {Id(t)'}
              ELSE InFlight' = InFlight
<1>1. ASSUME NEW u \in Thread, u # t
      PROVE  pc'[u] = pc[u] /\ Id(u)' = Id(u)
  BY <1>1, OthersKept DEF Inv
<1>2. CASE pc[t] \in InDispatch
  <2>1. \A u \in Thread : u # t => pc[u] \notin InDispatch
    BY <1>2, OneInDispatch
  <2>2. InFlight = {Id(t)}
    BY <1>2, <2>1 DEF InFlight
  <2>3. InFlight' = IF pc'[t] \in InDispatch THEN {Id(t)'} ELSE {}
    BY <1>1, <2>1 DEF InFlight
  <2> QED
    BY <1>2, <2>2, <2>3
<1>3. CASE pc[t] \notin InDispatch /\ pc'[t] \in InDispatch
  <2>1. LogTrace(t)
    BY <1>3, EntersAndLeaves DEF Inv
  <2>2. \A u \in Thread : pc[u] \notin InDispatch
    BY <1>3, <2>1, OneInDispatch
  <2>3. InFlight = {}
    BY <2>2 DEF InFlight
  <2>4. InFlight' = {Id(t)'}
    BY <1>1, <1>3, <2>2 DEF InFlight
  <2> QED
    BY <1>3, <2>3, <2>4
<1>4. CASE pc[t] \notin InDispatch /\ pc'[t] \notin InDispatch
  <2>1. {u \in Thread : pc'[u] \in InDispatch} =
          {u \in Thread : pc[u] \in InDispatch}
    BY <1>1, <1>4
  <2>2. \A u \in Thread : pc[u] \in InDispatch => Id(u)' = Id(u)
    BY <1>1, <1>4
  <2> QED
    BY <1>4, <2>1, <2>2 DEF InFlight
<1> QED
  BY <1>2, <1>3, <1>4

\* What a thread that dispatches appends is of the message in flight.
LEMMA OnlyInFlight ==
  ASSUME Inv, DiskInv, DestinationAssumption, NEW t \in Thread, ThreadNext(t),
         pc[t] \in InDispatch, NEW F, F = {Id(t)}
  PROVE  /\ \A i \in Severity : Without(file'[i], F) = Without(file[i], F)
         /\ \A s \in Sink : Without(received'[s], F) = Without(received[s], F)
         /\ Without(stderr', F) = Without(stderr, F)
<1>1. EntryOf(t) \in Entry /\ EntryOf(t).id \in F
  BY DispatchedIsGone DEF EntryOf
<1>2. ASSUME NEW seq \in Seq(Entry), NEW r,
             r = seq \/ r = Append(seq, EntryOf(t))
      PROVE  Without(r, F) = Without(seq, F)
  <2>1. CASE r = seq
    BY <2>1
  <2>2. CASE r = Append(seq, EntryOf(t))
    <3>1. /\ r \in Seq(Entry) /\ Len(r) = Len(seq) + 1 /\ Len(seq) \in Nat
          /\ r[Len(seq) + 1] = EntryOf(t)
          /\ \A k \in 1..Len(seq) : r[k] = seq[k]
      BY <1>1, <2>2, AppendProperties
    <3>2. \A k \in 1..Len(r) : k > Len(seq) => r[k].id \in F
      BY <1>1, <3>1
    <3>3. Len(seq) <= Len(r)
      BY <3>1
    <3> QED
      BY <3>1, <3>2, <3>3, WithoutSame
  <2> QED
    BY <1>2, <2>1, <2>2
<1>3. /\ \A i \in Severity : file[i] \in Seq(Entry)
      /\ \A s \in Sink : received[s] \in Seq(Entry)
      /\ stderr \in Seq(Entry)
  BY DEF Inv, TypeOK, DestinationTypeOK
<1>4. \A i \in Severity :
        file'[i] = file[i] \/ file'[i] = Append(file[i], EntryOf(t))
  BY FileAppend
<1> QED
  BY <1>2, <1>3, <1>4, Appends

\* A message that is about to be dispatched is nowhere yet.
LEMMA NothingYet ==
  ASSUME Inv, GoneInv, NEW t \in Thread, pc[t] = "LogTrace"
  PROVE  /\ \A i \in Severity :
              Without(file[i], {Id(t)}) = Without(file[i], {})
         /\ \A s \in Sink :
              Without(received[s], {Id(t)}) = Without(received[s], {})
         /\ Without(stderr, {Id(t)}) = Without(stderr, {})
<1> USE DEF Inv, TypeOK, DestinationTypeOK
<1>1. ~Gone(Id(t))
  BY DEF ThreadTypeOK, Gone, NoMore
<1>2. ASSUME NEW seq \in Seq(Entry), AllGone(seq)
      PROVE  Without(seq, {Id(t)}) = Without(seq, {})
  <2>1. \A k \in 1..Len(seq) : seq[k].id # Id(t)
    BY <1>1, <1>2 DEF AllGone
  <2>2. /\ Len(seq) <= Len(seq)
        /\ \A k \in 1..Len(seq) : ~(k > Len(seq))
    OBVIOUS
  <2> DEFINE F == {}
             G == {Id(t)}
  <2>3. \A k \in 1..Len(seq) : seq[k].id \in F <=> seq[k].id \in G
    BY <2>1
  <2> HIDE DEF F, G
  <2>4. Without(seq, G) = Without(seq, F)
    <3>1. \A k \in 1..Len(seq) : k > Len(seq) => seq[k].id \in G
      BY <2>2
    <3>2. \A k \in 1..Len(seq) :
            seq[k] = seq[k] /\ (seq[k].id \in F <=> seq[k].id \in G)
      BY <2>3
    <3> QED
      BY <2>2, <3>1, <3>2, WithoutSame
  <2> QED
    BY <2>4 DEF F, G
<1> QED
  BY <1>2 DEF GoneInv

\* Where a message has been delivered to all its destinations, it is as if all
\* of them had got it at once, and for the first time; or it had none.
LEMMA DeliverStep ==
  ASSUME TypeOK', NEW m \in [id : Thread \X (1..MaxOps), sev : Severity],
         InFlight = {m.id}, InFlight' = {}, UNCHANGED sinks_,
         NEW own \in SUBSET Sink, NEW log \in BOOLEAN, NEW toFiles \in BOOLEAN,
         toFiles => ~LogToStderr,
         \A i \in Severity :
           /\ Without(file'[i], {m.id}) = Without(file[i], {m.id})
           /\ Ends(file'[i], m, IF log /\ toFiles /\ i <= m.sev THEN 1 ELSE 0),
         \A s \in Sink :
           /\ Without(received'[s], {m.id}) = Without(received[s], {m.id})
           /\ Ends(received'[s], m, (IF log THEN Registrations(s) ELSE 0)
                                    + (IF s \in own THEN 1 ELSE 0)),
         Without(stderr', {m.id}) = Without(stderr, {m.id}),
         Ends(stderr', m, IF log /\ (~toFiles \/ m.sev >= StderrThreshold)
                          THEN 1 ELSE 0)
  PROVE  [Serial!Next]_Serial!vars
<1> DEFINE filed(i) == IF log /\ toFiles /\ i <= m.sev THEN 1 ELSE 0
           sinks(s) == (IF log THEN Registrations(s) ELSE 0)
                         + (IF s \in own THEN 1 ELSE 0)
           err == IF log /\ (~toFiles \/ m.sev >= StderrThreshold)
                  THEN 1 ELSE 0
           old == IdsOf(SeenStderr)
                    \cup (UNION {IdsOf(SeenFile[i]) : i \in Severity})
                    \cup (UNION {IdsOf(SeenReceived[s]) : s \in Sink})
           Adds(a, b, n) ==
             /\ b = Serial!Add(a, m, n)
             /\ IdsOf(b) = IdsOf(a) \cup (IF n = 0 THEN {} ELSE {m.id})
             /\ m.id \notin IdsOf(a)
             /\ n = 0 => b = a
<1>1. m \in [id : MsgId, sev : Severity]
  BY DEF MsgId
<1>2. ASSUME NEW seq, NEW r \in Seq(Entry), NEW n, Ends(r, m, n),
             Without(r, {m.id}) = Without(seq, {m.id})
      PROVE  Adds(Without(seq, InFlight), Without(r, InFlight'), n)
  <2>1. /\ Without(r, {}) = Serial!Add(Without(r, {m.id}), m, n)
        /\ IdsOf(Without(r, {})) =
             IdsOf(Without(r, {m.id})) \cup (IF n > 0 THEN {m.id} ELSE {})
        /\ m.id \notin IdsOf(Without(r, {m.id}))
        /\ n = 0 => Without(r, {}) = Without(r, {m.id})
    BY <1>1, <1>2, WithoutAdd
  <2>2. n > 0 <=> n # 0
    BY <1>2 DEF Ends
  <2>3. /\ Without(r, InFlight') = Without(r, {})
        /\ Without(seq, InFlight) = Without(r, {m.id})
    BY <1>2
  <2> QED
    BY <2>1, <2>2, <2>3
<1>3. /\ \A i \in Severity : file'[i] \in Seq(Entry)
      /\ \A s \in Sink : received'[s] \in Seq(Entry)
      /\ stderr' \in Seq(Entry)
  BY DEF TypeOK, DestinationTypeOK
<1> HIDE DEF Adds, filed, sinks, err
<1>4. \A i \in Severity : Adds(SeenFile[i], SeenFile'[i], filed(i))
  BY <1>2, <1>3, SeenIs DEF filed
<1>5. \A s \in Sink : Adds(SeenReceived[s], SeenReceived'[s], sinks(s))
  BY <1>2, <1>3, SeenIs DEF sinks
<1>6. Adds(SeenStderr, SeenStderr', err)
  BY <1>2, <1>3, SeenIs DEF err
<1>7. \A s : Registrations(s)' = Registrations(s)
  BY DEF Registrations
<1>0. /\ \A x : x \in old <=>
                  \/ x \in IdsOf(SeenStderr)
                  \/ \E i \in Severity : x \in IdsOf(SeenFile[i])
                  \/ \E s \in Sink : x \in IdsOf(SeenReceived[s])
      /\ \A x : x \in old' <=>
                  \/ x \in IdsOf(SeenStderr')
                  \/ \E i \in Severity : x \in IdsOf(SeenFile'[i])
                  \/ \E s \in Sink : x \in IdsOf(SeenReceived'[s])
  OBVIOUS
<1> HIDE DEF old
<1>8. m.id \notin old
  BY <1>0, <1>4, <1>5, <1>6 DEF Adds
<1>9. CASE /\ \A i \in Severity : filed(i) = 0
           /\ \A s \in Sink : sinks(s) = 0
           /\ err = 0
  <2>1. UNCHANGED <<SeenFile, SeenReceived, SeenStderr>>
    BY <1>4, <1>5, <1>6, <1>9 DEF Adds, SeenFile, SeenReceived
  <2> QED
    BY <1>7, <2>1 DEF Serial!vars
<1>10. CASE ~(/\ \A i \in Severity : filed(i) = 0
              /\ \A s \in Sink : sinks(s) = 0
              /\ err = 0)
  <2>1. old' = old \cup {m.id}
    <3>1. ASSUME NEW x \in old' PROVE x \in old \cup {m.id}
      <4>1. ASSUME NEW a, NEW b, NEW n, Adds(a, b, n), x \in IdsOf(b)
            PROVE  x \in IdsOf(a) \cup {m.id}
        BY <4>1 DEF Adds
      <4> QED
        BY <1>0, <1>4, <1>5, <1>6, <3>1, <4>1
    <3>2. ASSUME NEW x \in old PROVE x \in old'
      BY SMTT(60), <1>0, <1>4, <1>5, <1>6, <3>2 DEF Adds
    <3>3. m.id \in old'
      BY ZenonT(60), <1>0, <1>4, <1>5, <1>6, <1>10 DEF Adds
    <3> QED
      BY <3>1, <3>2, <3>3
  <2>2. Serial!Deliver(m, own, log, toFiles)
    <3>1. SeenFile' = [i \in Severity |-> Serial!Add(SeenFile[i], m, filed(i))]
      BY <1>4 DEF Adds, SeenFile
    <3>2. SeenStderr' = Serial!Add(SeenStderr, m, err)
      BY <1>6 DEF Adds
    <3>3. SeenReceived' =
            [s \in Sink |-> Serial!Add(SeenReceived[s], m, sinks(s))]
      BY <1>5 DEF Adds, SeenReceived
    <3>4. [s \in Sink |-> Registrations(s)]' = [s \in Sink |-> Registrations(s)]
      BY <1>7
    <3>5. \A s \in Sink : [x \in Sink |-> Registrations(x)][s] = Registrations(s)
      OBVIOUS
    <3> QED
      BY <3>1, <3>2, <3>3, <3>4, <3>5
         DEF Serial!Deliver, Serial!Severity, Severity, filed, sinks, err
  <2>3. m \in Serial!Message
    BY DEF Serial!Message, Serial!Severity, Severity
  <2> QED
    BY <1>8, <2>1, <2>2, <2>3 DEF Serial!Next, old
<1> QED
  BY <1>9, <1>10

\* The dispatch of a message is one delivery, at the step that ends it.
LEMMA LeavingStep ==
  ASSUME Inv, TypeOK', CallInv, DiskInv, OpsInv, FlightInv, MessageAssumption,
         DestinationAssumption, NEW t \in Thread, ThreadNext(t),
         pc[t] \in InDispatch, pc'[t] \notin InDispatch
  PROVE  [Serial!Next]_Serial!vars
<1> USE DEF Inv, TypeOK, ControlTypeOK, DestinationTypeOK
<1> DEFINE m == Msg(t)
<1>1. PICK own \in SUBSET Sink, toFiles \in BOOLEAN : Sends(t, own, toFiles)
  BY DEF FlightInv
<1>2. /\ m.id = Id(t) /\ m.sev = call[t].sev /\ call[t].sev \in Severity
      /\ m \in [id : Thread \X (1..MaxOps), sev : Severity]
  <2>1. ops[t] \in 1..MaxOps
    <3>1. pc[t] # "idle"
      BY DEF InDispatch
    <3>2. ops[t] \in Nat /\ ops[t] <= MaxOps /\ ops[t] > 0
      BY <3>1 DEF OpsInv, InProgressInv, ThreadTypeOK
    <3> QED
      BY <3>2, MessageAssumption DEF MessageAssumption
  <2>2. call[t].sev \in Severity
    BY DEF ThreadTypeOK, CallType
  <2> QED
    BY <2>1, <2>2 DEF Msg
<1>3. InFlight = {m.id} /\ InFlight' = {}
  BY <1>2, FlightChanges
<1>4. /\ \A i \in Severity :
           Without(file'[i], {m.id}) = Without(file[i], {m.id})
      /\ \A s \in Sink :
           Without(received'[s], {m.id}) = Without(received[s], {m.id})
      /\ Without(stderr', {m.id}) = Without(stderr, {m.id})
  BY <1>2, OnlyInFlight
<1>5. /\ toFiles => ~LogToStderr
      /\ pc[t] \in SinkMethods => own = {}
      /\ \A i \in Severity : Ends(file[i], m, FileCopies(t, i, toFiles))
      /\ \A s \in Sink : Ends(received[s], m, SinkCopies(t, s, own))
      /\ Ends(stderr, m, StderrCopies(t, toFiles))
  BY <1>1 DEF Sends
<1>6. CASE SendToSink(t) /\ pc[t] = "SendToSink"
  <2>1. /\ \A i \in Severity : Ends(file[i], m, 0)
        /\ \A s \in Sink : Ends(received[s], m, 0)
        /\ Ends(stderr, m, 0)
    BY <1>5, <1>6
       DEF FileCopies, Reached, SinkCopies, StderrCopies, SinkMethods
  <2>2. UNCHANGED <<file, stderr, sinks_>>
    BY <1>6 DEF SendToSink, Send, destinations, files
  <2>3. CASE Me(t).target \in Sink
    <3> DEFINE now == {Me(t).target}
    <3>1. received' = [received EXCEPT ![Me(t).target] = Append(@, EntryOf(t))]
      BY <1>6, <2>3 DEF SendToSink, Send
    <3>2. ASSUME NEW s \in Sink
          PROVE  Ends(received'[s], m, 0 + (IF s \in now THEN 1 ELSE 0))
      <4>1. CASE s = Me(t).target
        <5>1. received'[s] = Append(received[s], EntryOf(t))
              /\ received[s] \in Seq(Entry) /\ Ends(received[s], m, 0)
          BY <2>1, <3>1, <4>1
        <5>2. Ends(received'[s], m, 0 + 1)
          BY <5>1, EndsAppend, MessageKept
        <5> QED
          BY <4>1, <5>2
      <4>2. CASE s # Me(t).target
        <5>1. Ends(received'[s], m, 0) /\ 0 + 0 = 0
          BY <2>1, <3>1, <4>2
        <5> QED
          BY <4>2, <5>1
      <4> QED
        BY <4>1, <4>2
    <3>3. now \in SUBSET Sink
      BY <2>3
    <3> HIDE DEF m, now
    <3> QED
      BY ZenonT(60), <1>2, <1>3, <1>4, <2>1, <2>2, <3>2, <3>3, DeliverStep
  <2>4. CASE Me(t).target \notin Sink
    <3>1. UNCHANGED received
      BY <1>6, <2>4 DEF SendToSink, destinations
    <3> DEFINE now == {}
    <3>2. /\ \A s \in Sink :
               Ends(received'[s], m, 0 + (IF s \in now THEN 1 ELSE 0))
          /\ now \in SUBSET Sink
      BY <2>1, <3>1
    <3> HIDE DEF m, now
    <3> QED
      BY ZenonT(60), <1>2, <1>3, <1>4, <2>1, <2>2, <3>2, DeliverStep
  <2> QED
    BY <2>3, <2>4
<1>7. CASE LogToSinksEnds(t)
  <2>1. /\ pc[t] = "send" /\ idx[t] = 0
        /\ UNCHANGED <<file, stderr, sinks_, received>>
    BY <1>7 DEF LogToSinksEnds, ReaderUnlock, files
  <2>2. \A i \in Severity :
          Ends(file'[i], m, IF toFiles /\ i <= m.sev THEN 1 ELSE 0)
    BY <1>2, <1>5, <2>1 DEF FileCopies, Reached
  <2>3. Ends(stderr', m, IF ~toFiles \/ m.sev >= StderrThreshold THEN 1 ELSE 0)
    BY <1>2, <1>5, <2>1 DEF StderrCopies
  <2>4. ASSUME NEW s \in Sink
        PROVE  Ends(received'[s], m,
                    Registrations(s) + (IF s \in own THEN 1 ELSE 0))
    <3>1. SentTo(t, s) = {k \in 1..Len(sinks_) : sinks_[k] = s}
      BY <2>1 DEF SentTo
    <3> QED
      BY <1>5, <2>1, <3>1 DEF SinkCopies, Registrations
  <2> HIDE DEF m
  <2> QED
    BY ZenonT(60), <1>2, <1>3, <1>4, <1>5, <2>1, <2>2, <2>3, <2>4, DeliverStep
<1> QED
  BY <1>6, <1>7, EntersAndLeaves

\* Until then nothing is seen of it.
LEMMA DispatchingStep ==
  ASSUME Inv, DiskInv, GoneInv, MessageAssumption, DestinationAssumption,
         NEW t \in Thread, ThreadNext(t), pc'[t] \in InDispatch
  PROVE  UNCHANGED Serial!vars
<1>1. CASE pc[t] \in InDispatch
  <2>1. InFlight = {Id(t)} /\ InFlight' = {Id(t)}
    BY <1>1, FlightChanges, DispatchedIsGone
  <2>2. UNCHANGED sinks_
    BY <1>1, RegistryKept DEF Inv, InDispatch
  <2>3. /\ \A i \in Severity :
             Without(file'[i], InFlight) = Without(file[i], InFlight)
        /\ \A s \in Sink :
             Without(received'[s], InFlight) = Without(received[s], InFlight)
        /\ Without(stderr', InFlight) = Without(stderr, InFlight)
    BY <1>1, <2>1, OnlyInFlight
  <2> QED
    BY <2>1, <2>2, <2>3, SerialStutter
<1>2. CASE pc[t] \notin InDispatch
  <2>1. LogTrace(t)
    BY <1>2, EntersAndLeaves DEF Inv
  <2>2. /\ UNCHANGED <<file, received, stderr, sinks_, ops>>
        /\ pc[t] = "LogTrace"
    BY <2>1 DEF LogTrace, destinations, files, threadVars
  <2>3. InFlight = {} /\ InFlight' = {Id(t)}
    BY <1>2, <2>2, FlightChanges
  <2> QED
    BY <2>2, <2>3, NothingYet, SerialStutter
<1> QED
  BY <1>1, <1>2

\* Outside of the dispatches the sinks are registered and unregistered.
LEMMA RegistryStep ==
  ASSUME Inv, MessageAssumption, NEW t \in Thread, ThreadNext(t),
         pc[t] \notin InDispatch, pc'[t] \notin InDispatch
  PROVE  [Serial!Next]_Serial!vars
<1> DEFINE registered == [s \in Sink |-> Registrations(s)]
<1>1. UNCHANGED <<file, received, stderr>> /\ InFlight' = InFlight
  BY DestinationsKept, FlightChanges
<1>2. /\ UNCHANGED <<SeenFile, SeenReceived, SeenStderr>>
      /\ UNCHANGED sinks_ => UNCHANGED Serial!vars
  BY <1>1, SerialStutter
<1>3. CASE UNCHANGED sinks_
  BY <1>2, <1>3
<1>4. CASE ~UNCHANGED sinks_
  <2>1. PICK s \in Sink : AddLogSink(s) \/ RemoveLogSink(s)
    BY <1>4, RegistryKept, MessageAssumption DEF Inv, MessageAssumption
  <2>2. sinks_ \in Seq(Sink) /\ Registrations(s) \in Nat
    BY RegisteredType DEF Inv, TypeOK, DestinationTypeOK
  <2>3. CASE AddLogSink(s)
    <3>1. \A x \in Sink :
            Registrations(x)' = Registrations(x) + (IF x = s THEN 1 ELSE 0)
      BY <2>2, <2>3, AddRegisters
    <3>2. registered' = [registered EXCEPT ![s] = @ + 1]
      <4>1. ASSUME NEW x \in Sink
            PROVE  Registrations(x)' = IF x = s THEN Registrations(x) + 1
                                       ELSE Registrations(x)
        <5>1. Registrations(x) \in Nat
          BY <2>2, RegisteredType
        <5> QED
          BY <3>1, <5>1
      <4> QED
        BY <4>1
    <3>3. Serial!Register(s)
      BY <1>2, <3>2 DEF Serial!Register
    <3> QED
      BY <3>3 DEF Serial!Next
  <2>4. CASE RemoveLogSink(s)
    <3>1. /\ Registrations(s) > 0
          /\ \A x \in Sink :
               Registrations(x)' = Registrations(x) - (IF x = s THEN 1 ELSE 0)
      BY <1>4, <2>2, <2>4, RemoveUnregisters
    <3>2. registered' = [registered EXCEPT ![s] = @ - 1]
      <4>1. ASSUME NEW x \in Sink
            PROVE  Registrations(x)' = IF x = s THEN Registrations(x) - 1
                                       ELSE Registrations(x)
        <5>1. Registrations(x) \in Nat
          BY <2>2, RegisteredType
        <5> QED
          BY <3>1, <5>1
      <4> QED
        BY <4>1
    <3>3. Serial!Unregister(s)
      BY <1>2, <3>1, <3>2 DEF Serial!Unregister
    <3> QED
      BY <3>3 DEF Serial!Next
  <2> QED
    BY <2>1, <2>3, <2>4
<1> QED
  BY <1>3, <1>4

\* At the start nothing is delivered and nothing registered.
LEMMA InitImplements ==
  ASSUME Init
  PROVE  Serial!Init
<1>1. /\ file = [i \in Severity |-> <<>>] /\ stderr = <<>>
      /\ received = [s \in Sink |-> <<>>] /\ sinks_ = <<>>
  BY DEF Init, DestinationInit
<1>2. Seen(<<>>) = <<>> /\ IdsOf(<<>>) = {}
  BY DEF Seen, Settled, IdsOf
<1>3. /\ SeenFile = [i \in Severity |-> <<>>] /\ SeenStderr = <<>>
      /\ SeenReceived = [s \in Sink |-> <<>>]
  BY <1>1, <1>2 DEF SeenFile, SeenStderr, SeenReceived
<1>4. \A s : Registrations(s) = 0
  <2>1. \A s : {k \in 1..Len(sinks_) : sinks_[k] = s} = {}
    BY <1>1
  <2> QED
    BY <2>1, FS_EmptySet DEF Registrations
<1> QED
  BY <1>2, <1>3, <1>4 DEF Serial!Init, Serial!Severity, Severity

\* Every step of the program is a delivery, a registration, or nothing.
LEMMA StepImplements ==
  ASSUME Inv, TypeOK', DeliveryInv, SerialInv, [Next]_vars, MessageAssumption,
         DestinationAssumption
  PROVE  [Serial!Next]_Serial!vars
<1>1. ASSUME NEW t \in Thread, ThreadNext(t)
      PROVE  [Serial!Next]_Serial!vars
  <2> USE DEF DeliveryInv, SerialInv
  <2>1. CASE pc'[t] \in InDispatch
    BY <1>1, <2>1, DispatchingStep
  <2>2. CASE pc[t] \in InDispatch /\ pc'[t] \notin InDispatch
    BY <1>1, <2>2, LeavingStep
  <2>3. CASE pc[t] \notin InDispatch /\ pc'[t] \notin InDispatch
    BY <1>1, <2>3, RegistryStep
  <2> QED
    BY <2>1, <2>2, <2>3
<1>2. ASSUME UNCHANGED vars PROVE UNCHANGED Serial!vars
  <2>1. UNCHANGED <<file, received, stderr, sinks_, pc, ops>>
    BY <1>2 DEF vars, destinations, files, threadVars
  <2>2. InFlight' = InFlight
    BY <2>1 DEF InFlight
  <2> QED
    BY <2>1, <2>2, SerialStutter
<1> QED
  BY <1>1, <1>2, NextCases

\* The messages of any threads are delivered one at a time, each to all its
\* destinations and at most once, if none is dispatched twice
\* (LogMessage.cc:129-283): LogMessage implements SerialLog.
THEOREM ImplementsSerial ==
  ASSUME DispatchedOnce
  PROVE  Spec => DeliversSerially
<1>1. Init => Serial!Init
  BY InitImplements
<1>2. Inv /\ TypeOK' /\ DeliveryInv /\ SerialInv /\ [Next]_vars
        => [Serial!Next]_Serial!vars
  BY StepImplements, MessageAssumption, DestinationAssumption
<1>3. Inv => TypeOK
  BY DEF Inv
<1> QED
  BY <1>1, <1>2, <1>3, Invariance, DeliveryInvariance, SerialInvariance, PTL
     DEF Spec, DeliversSerially, Serial!Spec
=============================================================================
