----------------------------- MODULE LogMessage -----------------------------
(***************************************************************************)
(* The life of a LogMessage (LogMessage.cc): construction, streaming, and  *)
(* Flush, which dispatches the message to the destinations with log_mutex  *)
(* held and then waits for the sinks without it; and the FATAL path, which *)
(* gives log_mutex up in the middle of the dispatch and aborts.            *)
(*                                                                         *)
(* Every thread runs the same code, one program counter per thread; a step *)
(* is what the thread does between two points where the others can see or  *)
(* disturb it.  Threads also register and unregister sinks and, once,      *)
(* initialise the library.  MaxOps bounds the operations of a thread,      *)
(* MaxFlush the calls of Flush on one message, the destructor's included.  *)
(***************************************************************************)
EXTENDS LogDestination

CONSTANTS Call,         \* the logging statements of the program
          MaxOps,       \* how many operations a thread performs
          MaxFlush,     \* how often Flush is called on a message
          SinkOps,      \* the sinks that threads register and unregister
          MinLogLevel,       \* FLAGS_minloglevel
          LogToStderr,       \* FLAGS_logtostderr
          UnitTestFail,      \* InstallUnitTestFailureFunction was called:
                             \* Fail() returns
          StartsInitialized, \* InitGoogleLogging is called before the threads
          NoThread,     \* the owner of a free lock
          NoTarget,     \* a NULL sink, vector or string
          Out,          \* a vector or a string of the calling thread
          Exclusive,    \* fatal_msg_data_exclusive_ and its buffer
          Shared        \* fatal_msg_data_shared_ and its buffer

SinkMethods == {"SendToSink", "SendToSinkAndLog"}
OutMethods == {"SaveOrSendToLog", "WriteToStringAndLog"}
SendMethod == {"SendToLog"} \cup SinkMethods \cup OutMethods
Target == Sink \cup {NoTarget, Out}

\* The arguments of a constructor: which send method, and for the methods
\* that have one the sink, the vector or the string.
CallType ==
  {c \in [sev : Severity, method : SendMethod, target : Target] :
     /\ c.method = "SendToLog" => c.target = NoTarget
     /\ c.method \in SinkMethods => c.target # Out
     /\ c.method \in OutMethods => c.target \notin Sink}

ASSUME MessageAssumption ==
          /\ Call \subseteq CallType
          /\ MaxOps \in Nat
          /\ MaxFlush \in Nat \ {0}
          /\ SinkOps \subseteq Sink
          /\ MinLogLevel \in Int
          /\ LogToStderr \in BOOLEAN
          /\ UnitTestFail \in BOOLEAN
          /\ StartsInitialized \in BOOLEAN
          /\ NoThread \notin Thread
          /\ {NoTarget, Out} \cap Sink = {} /\ NoTarget # Out
          /\ {Exclusive, Shared} \cap Thread = {} /\ Exclusive # Shared

\* A LogMessageData: one of the thread's own, allocated for a message below
\* FATAL, or one of the two static ones.
Slot == Thread \cup {Exclusive, Shared}

VARIABLES
  pc,           \* where each thread is
  ops,          \* how many operations it has begun; the last one is its message
  call,         \* the arguments of the constructor
  slot,         \* data_
  flushes,      \* the calls of Flush to come: explicit ones and the destructor's
  idx,          \* the index of the loop the thread is in
  after,        \* where WaitForSink returns to
  data,         \* the contents of each LogMessageData
  buf,          \* the characters of its buffer
  put,          \* the put position of its stream
  fatal_msg_exclusive, \* the exclusive data is still free
  logMutex,     \* who holds log_mutex
  num_messages_,
  extracted,    \* what each thread's own vector or string was given
  crash_reason, \* RecordCrashReason was called; it points into Exclusive
  fatal_message,
  initialized,  \* IsGoogleLoggingInitialized()
  status,       \* "running", "aborted", or "undefined" after a wild call
  built,        \* history: how many messages of each severity were constructed
  owed,         \* history: sinks sent the thread's message and not waited for
  excused       \* history: those of them that have been unregistered since

threadVars == <<ops, call, slot, flushes>>
dataVars == <<data, buf, put>>
crashVars == <<crash_reason, fatal_message, status>>
globals == <<fatal_msg_exclusive, num_messages_, initialized, built>>
waits == <<owed, excused>>
quiet == <<threadVars, dataVars, crashVars, globals>>
vars == <<destinations, pc, idx, after, logMutex, extracted, quiet, waits>>

InDispatch == {"SendToSink", "SendToSinkAndLog", "SendToLog",
               "LogToAllLogfiles", "MaybeLogToStderr", "LogToSinks", "send"}
HoldsLog == InDispatch \cup {"RecordCrashReason", "FlushAll", "Count"}
HoldsSinks == {"send", "WaitTillSent"}
PC == HoldsLog \cup {"idle", "Init", "InitFlag", "stream", "Flush",
        "LogTrace", "WaitForSink", "WaitForSinks", "WaitTillSent", "Fail", "seekp",
        "Relock", "Flushed"}

Data == [sev : Severity, method : SendMethod, target : Target, num : Nat,
         flushed : BOOLEAN, first : BOOLEAN]

ControlTypeOK ==
  /\ pc \in [Thread -> PC]
  /\ idx \in [Thread -> Nat]
  /\ after \in [Thread -> {"Fail", "Flushed"}]
  /\ logMutex \in Thread \cup {NoThread}

ThreadTypeOK ==
  /\ ops \in [Thread -> Nat]
  /\ call \in [Thread -> CallType]
  /\ slot \in [Thread -> Slot]
  /\ flushes \in [Thread -> 0..MaxFlush]

DataTypeOK ==
  /\ data \in [Slot -> Data]
  /\ buf \in [Slot -> Text]
  /\ put \in [Slot -> Nat]

GlobalTypeOK ==
  /\ fatal_msg_exclusive \in BOOLEAN
  /\ num_messages_ \in [Severity -> Nat]
  /\ extracted \in [Thread -> Seq(Entry)]
  /\ crash_reason \in BOOLEAN
  /\ fatal_message \in Text
  /\ initialized \in BOOLEAN
  /\ status \in {"running", "aborted", "undefined"}
  /\ built \in [Severity -> Nat]
  /\ owed \in [Thread -> SUBSET Sink]
  /\ excused \in [Thread -> SUBSET Sink]

TypeOK ==
  DestinationTypeOK /\ ControlTypeOK /\ ThreadTypeOK /\ DataTypeOK
  /\ GlobalTypeOK
-----------------------------------------------------------------------------
Me(t) == data[slot[t]]
Id(t) == <<t, ops[t]>>

\* What a dispatch passes on: data_ as it is now, which for the shared data
\* need not be what this thread put there.
EntryOf(t) == [id |-> Id(t), sev |-> Me(t).sev,
               text |-> SubSeq(buf[slot[t]], 1, Me(t).num)]

NoCall == [sev |-> 0, method |-> "SendToLog", target |-> NoTarget]
Fresh == [sev |-> 0, method |-> "SendToLog", target |-> NoTarget, num |-> 0,
          flushed |-> FALSE, first |-> FALSE]

\* The stream overwrites or extends its buffer at the put position.
Put(b, p, c) == SubSeq(b, 1, p) \o <<c>> \o SubSeq(b, p + 2, Len(b))

Goto(t, l) == pc' = [pc EXCEPT ![t] = l]
At(t, l) == status = "running" /\ pc[t] = l

Init ==
  /\ DestinationInit
  /\ pc = [t \in Thread |-> "idle"]
  /\ ops = [t \in Thread |-> 0]
  /\ call = [t \in Thread |-> NoCall]
  /\ slot = [t \in Thread |-> t]
  /\ flushes = [t \in Thread |-> 0]
  /\ idx = [t \in Thread |-> 0]
  /\ after = [t \in Thread |-> "Flushed"]
  /\ data = [s \in Slot |-> Fresh]
  /\ buf = [s \in Slot |-> <<>>]
  /\ put = [s \in Slot |-> 0]
  /\ fatal_msg_exclusive = TRUE
  /\ logMutex = NoThread
  /\ num_messages_ = [i \in Severity |-> 0]
  /\ extracted = [t \in Thread |-> <<>>]
  /\ crash_reason = FALSE
  /\ fatal_message = <<>>
  /\ initialized = StartsInitialized
  /\ status = "running"
  /\ built = [i \in Severity |-> 0]
  /\ owed = [t \in Thread |-> {}]
  /\ excused = [t \in Thread |-> {}]
-----------------------------------------------------------------------------
(* Construction and streaming.                                             *)

\* Mutant: the flag that says that the exclusive data is taken is ignored.
AlwaysExclusive == Exclusive

FatalSlot == IF fatal_msg_exclusive THEN Exclusive ELSE Shared

\* The constructor up to the end of Init's critical section: pick data_.
\* k is how often Flush will be called, the destructor's call included.
Construct(t) ==
  \E c \in Call, k \in 1..MaxFlush :
    LET s == IF c.sev # FATAL THEN t ELSE FatalSlot IN
    /\ At(t, "idle") /\ ops[t] < MaxOps
    /\ ops' = [ops EXCEPT ![t] = @ + 1]
    /\ call' = [call EXCEPT ![t] = c]
    /\ flushes' = [flushes EXCEPT ![t] = k]
    /\ slot' = [slot EXCEPT ![t] = s]
    /\ data' = IF s = t THEN [data EXCEPT ![s] = Fresh]
               ELSE [data EXCEPT ![s].first = (s = Exclusive)]
    /\ buf' = IF s = t THEN [buf EXCEPT ![s] = <<>>] ELSE buf
    /\ put' = IF s = t THEN [put EXCEPT ![s] = 0] ELSE put
    /\ fatal_msg_exclusive' = (fatal_msg_exclusive /\ s # Exclusive)
    /\ built' = [built EXCEPT ![c.sev] = @ + 1]
    /\ owed' = [owed EXCEPT ![t] = {}]
    /\ excused' = [excused EXCEPT ![t] = {}]
    /\ Goto(t, "Init")
    /\ UNCHANGED <<destinations, idx, after, logMutex, extracted, crashVars,
                   num_messages_, initialized>>

\* The rest of Init, outside the lock: the severity and the send method, the
\* time, and only then has_been_flushed_.
InitFields(t) ==
  /\ At(t, "Init")
  /\ data' = [data EXCEPT ![slot[t]] = [@ EXCEPT !.sev = call[t].sev,
                                                !.method = call[t].method]]
  /\ Goto(t, "InitFlag")
  /\ UNCHANGED <<destinations, threadVars, idx, after, buf, put, logMutex,
                 extracted, crashVars, globals, waits>>

InitFlag(t) ==
  /\ At(t, "InitFlag")
  /\ data' = [data EXCEPT ![slot[t]].flushed = FALSE]
  /\ Goto(t, "stream")
  /\ UNCHANGED <<destinations, threadVars, idx, after, buf, put, logMutex,
                 extracted, crashVars, globals, waits>>

\* The constructor's body sets the union; then the statement's << run.
Stream(t) ==
  LET s == slot[t] IN
  /\ At(t, "stream")
  /\ data' = IF call[t].method = "SendToLog" THEN data
             ELSE [data EXCEPT ![s].target = call[t].target]
  /\ buf' = [buf EXCEPT ![s] = Put(@, put[s], Id(t))]
  /\ put' = [put EXCEPT ![s] = @ + 1]
  /\ Goto(t, "Flush")
  /\ UNCHANGED <<destinations, threadVars, idx, after, logMutex, extracted,
                 crashVars, globals, waits>>
-----------------------------------------------------------------------------
(* Flush and the dispatch under log_mutex.                                 *)

\* The end of a call of Flush: of an explicit one, or of the destructor's.
FlushReturns(t) ==
  /\ flushes' = [flushes EXCEPT ![t] = @ - 1]
  /\ Goto(t, IF flushes[t] > 1 THEN "Flush" ELSE "idle")
  /\ UNCHANGED <<destinations, ops, call, slot, idx, after, buf, put,
                 logMutex, extracted, crashVars, globals, waits>>

\* Flush has nothing to do: flushed before, or below the minimum level.
FlushIgnored(t) ==
  /\ At(t, "Flush")
  /\ Me(t).flushed \/ Me(t).sev < MinLogLevel
  /\ FlushReturns(t)
  /\ UNCHANGED data

\* Mutants: num_chars_to_log_ is not set; has_been_flushed_ is not looked at.
FlushStaleLength(t) ==
  /\ At(t, "Flush")
  /\ ~Me(t).flushed /\ Me(t).sev >= MinLogLevel
  /\ Goto(t, "LogTrace")
  /\ UNCHANGED <<destinations, quiet, idx, after, logMutex, extracted, waits>>
FlushEveryTime(t) ==
  /\ At(t, "Flush")
  /\ Me(t).sev >= MinLogLevel
  /\ data' = [data EXCEPT ![slot[t]].num = put[slot[t]]]
  /\ Goto(t, "LogTrace")
  /\ UNCHANGED <<destinations, threadVars, idx, after, buf, put, logMutex,
                 extracted, crashVars, globals, waits>>

FlushActioned(t) ==
  /\ At(t, "Flush")
  /\ ~Me(t).flushed /\ Me(t).sev >= MinLogLevel
  /\ data' = [data EXCEPT ![slot[t]].num = put[slot[t]]]
  /\ Goto(t, "LogTrace")
  /\ UNCHANGED <<destinations, threadVars, idx, after, buf, put, logMutex,
                 extracted, crashVars, globals, waits>>

\* SendToSink on a vector, or string methods on a sink: the union holds what
\* another message on the same data put there, and the program is undefined.
WildTarget(t) ==
  \/ Me(t).method \in SinkMethods /\ Me(t).target = Out
  \/ Me(t).method \in OutMethods /\ Me(t).target \in Sink

WildCall(t) ==
  /\ \/ At(t, "LogTrace") /\ logMutex = NoThread
     \/ At(t, "WaitForSink") /\ Me(t).method \in SinkMethods
  /\ WildTarget(t)
  /\ status' = "undefined"
  /\ UNCHANGED <<destinations, pc, threadVars, idx, after, dataVars, logMutex,
                 extracted, crash_reason, fatal_message, globals, waits>>

\* Mutant: log_mutex is taken without waiting for it to be free.
LogTraceUnlocked(t) ==
  /\ At(t, "LogTrace")
  /\ ~WildTarget(t)
  /\ logMutex' = t
  /\ Goto(t, IF Me(t).method \in SinkMethods THEN Me(t).method ELSE "SendToLog")
  /\ UNCHANGED <<destinations, quiet, idx, after, extracted, waits>>

\* LogTraceWithMutexLock takes log_mutex and calls send_method_; the methods
\* for a client's vector or string store into it first.  With a vector the
\* message goes nowhere else.
LogTrace(t) ==
  LET m == Me(t).method
      stores == m \in OutMethods /\ Me(t).target = Out IN
  /\ At(t, "LogTrace") /\ logMutex = NoThread
  /\ ~WildTarget(t)
  /\ logMutex' = t
  /\ extracted' = IF stores
                  THEN [extracted EXCEPT ![t] = Append(@, EntryOf(t))]
                  ELSE extracted
  /\ Goto(t, IF stores /\ m = "SaveOrSendToLog" THEN "Count"
             ELSE IF m \in SinkMethods THEN m
             ELSE "SendToLog")
  /\ UNCHANGED <<destinations, quiet, idx, after, waits>>

\* SendToSink, alone or as the first half of SendToSinkAndLog.
SendToSink(t) ==
  LET s == Me(t).target IN
  /\ At(t, "SendToSink") \/ At(t, "SendToSinkAndLog")
  /\ IF s \in Sink
     THEN Send(s, EntryOf(t)) /\ owed' = [owed EXCEPT ![t] = @ \cup {s}]
     ELSE UNCHANGED <<destinations, owed>>
  /\ Goto(t, IF pc[t] = "SendToSink" THEN "Count" ELSE "SendToLog")
  /\ UNCHANGED <<quiet, idx, after, logMutex, extracted, excused>>

\* Not to the log files: only to stderr and the sinks.
StderrOnly == LogToStderr \/ ~initialized

\* Mutant: the branch for stderr falls through to the log files.
SendToLogFallsThrough(t) ==
  /\ At(t, "SendToLog")
  /\ IF StderrOnly THEN WriteToStderr(EntryOf(t)) ELSE UNCHANGED files
  /\ idx' = [idx EXCEPT ![t] = Me(t).sev]
  /\ Goto(t, "LogToAllLogfiles")
  /\ UNCHANGED <<sinkVars, quiet, after, logMutex, extracted, waits>>

SendToLog(t) ==
  /\ At(t, "SendToLog")
  /\ IF StderrOnly
     THEN /\ WriteToStderr(EntryOf(t))
          /\ Goto(t, "LogToSinks")
          /\ UNCHANGED idx
     ELSE /\ idx' = [idx EXCEPT ![t] = Me(t).sev]
          /\ Goto(t, "LogToAllLogfiles")
          /\ UNCHANGED files
  /\ UNCHANGED <<sinkVars, quiet, after, logMutex, extracted, waits>>

\* Mutant: the loop goes on below severity 0.
LogBelowInfo(t) ==
  /\ At(t, "LogToAllLogfiles")
  /\ MaybeLogToLogfile(idx[t], EntryOf(t))
  /\ idx' = [idx EXCEPT ![t] = @ - 1]
  /\ UNCHANGED <<pc, sinkVars, quiet, after, logMutex, extracted, waits>>

\* One severity of the loop, from the message's own down to 0.
LogToAllLogfiles(t) ==
  /\ At(t, "LogToAllLogfiles")
  /\ MaybeLogToLogfile(idx[t], EntryOf(t))
  /\ IF idx[t] > 0
     THEN idx' = [idx EXCEPT ![t] = @ - 1] /\ UNCHANGED pc
     ELSE Goto(t, "MaybeLogToStderr") /\ UNCHANGED idx
  /\ UNCHANGED <<sinkVars, quiet, after, logMutex, extracted, waits>>

AfterLogfiles(t) ==
  /\ At(t, "MaybeLogToStderr")
  /\ MaybeLogToStderr(EntryOf(t))
  /\ Goto(t, "LogToSinks")
  /\ UNCHANGED <<sinkVars, quiet, idx, after, logMutex, extracted, waits>>

\* Mutant: the loop starts one sink too low.
LogToSinksButLast(t) ==
  /\ At(t, "LogToSinks")
  /\ ReaderLock(t)
  /\ idx' = [idx EXCEPT ![t] = IF sinks_ = <<>> THEN 0 ELSE Len(sinks_) - 1]
  /\ Goto(t, "send")
  /\ UNCHANGED <<quiet, after, logMutex, extracted, waits>>

LogToSinks(t) ==
  /\ At(t, "LogToSinks")
  /\ ReaderLock(t)
  /\ idx' = [idx EXCEPT ![t] = Len(sinks_)]
  /\ Goto(t, "send")
  /\ UNCHANGED <<quiet, after, logMutex, extracted, waits>>

\* One sink of the loop, from the last to the first.
LogToOneSink(t) ==
  /\ At(t, "send") /\ idx[t] > 0
  /\ Send(sinks_[idx[t]], EntryOf(t))
  /\ owed' = [owed EXCEPT ![t] = @ \cup {sinks_[idx[t]]}]
  /\ idx' = [idx EXCEPT ![t] = @ - 1]
  /\ UNCHANGED <<pc, quiet, after, logMutex, extracted, excused>>

\* The loop ends, the lock is released; SendToLog looks for a FATAL message.
LogToSinksEnds(t) ==
  /\ At(t, "send") /\ idx[t] = 0
  /\ ReaderUnlock(t)
  /\ Goto(t, IF Me(t).sev # FATAL THEN "Count"
             ELSE IF Me(t).first THEN "RecordCrashReason" ELSE "FlushAll")
  /\ UNCHANGED <<quiet, idx, after, logMutex, extracted, waits>>
-----------------------------------------------------------------------------
(* The FATAL path.                                                         *)

RecordCrashReason(t) ==
  /\ At(t, "RecordCrashReason")
  /\ crash_reason' = TRUE
  /\ fatal_message' = EntryOf(t).text
  /\ Goto(t, "FlushAll")
  /\ UNCHANGED <<destinations, threadVars, idx, after, dataVars, logMutex,
                 extracted, status, globals, waits>>

\* Mutant: the lock is not released before the program fails.
FlushAllLocked(t) ==
  /\ At(t, "FlushAll")
  /\ IF LogToStderr THEN UNCHANGED files ELSE FlushAllLogfiles
  /\ after' = [after EXCEPT ![t] = "Fail"]
  /\ Goto(t, "WaitForSink")
  /\ UNCHANGED <<sinkVars, quiet, idx, logMutex, extracted, waits>>

\* Flush the log files, release log_mutex for signal handlers, then wait.
FlushAll(t) ==
  /\ At(t, "FlushAll")
  /\ IF LogToStderr THEN UNCHANGED files ELSE FlushAllLogfiles
  /\ logMutex' = NoThread
  /\ after' = [after EXCEPT ![t] = "Fail"]
  /\ Goto(t, "WaitForSink")
  /\ UNCHANGED <<sinkVars, quiet, idx, extracted, waits>>

\* abort() unless a unit test installed another failure function.
Fail(t) ==
  /\ At(t, "Fail")
  /\ IF UnitTestFail THEN Goto(t, "seekp") /\ UNCHANGED status
     ELSE status' = "aborted" /\ UNCHANGED pc
  /\ UNCHANGED <<destinations, threadVars, idx, after, dataVars, logMutex,
                 extracted, crash_reason, fatal_message, globals, waits>>

\* Only the unit tests come here: rewind the shared stream, lock again.
RewindShared(t) ==
  /\ At(t, "seekp")
  /\ put' = [put EXCEPT ![Shared] = 0]
  /\ Goto(t, "Relock")
  /\ UNCHANGED <<destinations, threadVars, idx, after, data, buf, logMutex,
                 extracted, crashVars, globals, waits>>

\* Mutant: the lock is not taken again.
NoRelock(t) ==
  /\ At(t, "Relock")
  /\ Goto(t, "Count")
  /\ UNCHANGED <<destinations, quiet, idx, after, logMutex, extracted, waits>>

Relock(t) ==
  /\ At(t, "Relock") /\ logMutex = NoThread
  /\ logMutex' = t
  /\ Goto(t, "Count")
  /\ UNCHANGED <<destinations, quiet, idx, after, extracted, waits>>
-----------------------------------------------------------------------------
(* The end of Flush.                                                       *)

\* ++num_messages_, and the end of LogTraceWithMutexLock.
CountMessage(t) ==
  /\ At(t, "Count")
  /\ num_messages_' = [num_messages_ EXCEPT ![Me(t).sev] = @ + 1]
  /\ logMutex' = NoThread
  /\ after' = [after EXCEPT ![t] = "Flushed"]
  /\ Goto(t, "WaitForSink")
  /\ UNCHANGED <<destinations, threadVars, idx, dataVars, extracted,
                 crashVars, fatal_msg_exclusive, initialized, built, waits>>

Waited(t, s) ==
  /\ owed' = [owed EXCEPT ![t] = @ \ {s}]
  /\ excused' = [excused EXCEPT ![t] = @ \ {s}]

\* Mutant: the message's own sink is forgotten.
SkipOwnSink(t) ==
  /\ At(t, "WaitForSink")
  /\ Goto(t, "WaitForSinks")
  /\ UNCHANGED <<destinations, quiet, idx, after, logMutex, extracted, waits>>

\* WaitTillSent of the message's own sink.
WaitForSink(t) ==
  /\ At(t, "WaitForSink")
  /\ ~(Me(t).method \in SinkMethods /\ WildTarget(t))
  /\ IF Me(t).method \in SinkMethods /\ Me(t).target \in Sink
     THEN Waited(t, Me(t).target) ELSE UNCHANGED waits
  /\ Goto(t, "WaitForSinks")
  /\ UNCHANGED <<destinations, quiet, idx, after, logMutex, extracted>>

WaitForSinks(t) ==
  /\ At(t, "WaitForSinks")
  /\ ReaderLock(t)
  /\ idx' = [idx EXCEPT ![t] = Len(sinks_)]
  /\ Goto(t, "WaitTillSent")
  /\ UNCHANGED <<quiet, after, logMutex, extracted, waits>>

\* Mutant: the loop waits for the same sink again.
WaitForSameSink(t) ==
  /\ At(t, "WaitTillSent") /\ idx[t] > 0
  /\ Waited(t, sinks_[idx[t]])
  /\ UNCHANGED <<destinations, pc, quiet, idx, after, logMutex, extracted>>

\* WaitTillSent of one registered sink; here it returns at once.
WaitForOneSink(t) ==
  /\ At(t, "WaitTillSent") /\ idx[t] > 0
  /\ Waited(t, sinks_[idx[t]])
  /\ idx' = [idx EXCEPT ![t] = @ - 1]
  /\ UNCHANGED <<destinations, pc, quiet, after, logMutex, extracted>>

WaitForSinksEnds(t) ==
  /\ At(t, "WaitTillSent") /\ idx[t] = 0
  /\ ReaderUnlock(t)
  /\ Goto(t, after[t])
  /\ UNCHANGED <<quiet, idx, after, logMutex, extracted, waits>>

SetFlushed(t) ==
  /\ At(t, "Flushed")
  /\ data' = [data EXCEPT ![slot[t]].flushed = TRUE]
  /\ FlushReturns(t)
-----------------------------------------------------------------------------
(* What else a thread does between its messages.                           *)

Begin(t) ==
  /\ At(t, "idle") /\ ops[t] < MaxOps
  /\ ops' = [ops EXCEPT ![t] = @ + 1]
  /\ UNCHANGED <<pc, call, slot, flushes, idx, after, dataVars, logMutex,
                 extracted, crashVars, fatal_msg_exclusive, num_messages_,
                 built, owed>>

Register(t) ==
  \E s \in SinkOps :
    Begin(t) /\ AddLogSink(s) /\ UNCHANGED <<excused, initialized>>

Unregister(t) ==
  \E s \in SinkOps :
    /\ Begin(t)
    /\ RemoveLogSink(s)
    /\ excused' = [u \in Thread |-> excused[u] \cup ({s} \cap owed[u])]
    /\ UNCHANGED initialized

InitGoogleLogging(t) ==
  /\ Begin(t)
  /\ ~initialized
  /\ initialized' = TRUE
  /\ UNCHANGED <<destinations, excused>>

Step(t) ==
  \/ InitFields(t) \/ InitFlag(t) \/ Stream(t)
  \/ FlushIgnored(t) \/ FlushActioned(t)
  \/ WildCall(t) \/ LogTrace(t) \/ SendToSink(t) \/ SendToLog(t)
  \/ LogToAllLogfiles(t) \/ AfterLogfiles(t) \/ LogToSinks(t)
  \/ LogToOneSink(t) \/ LogToSinksEnds(t) \/ RecordCrashReason(t)
  \/ FlushAll(t) \/ Fail(t) \/ RewindShared(t) \/ Relock(t)
  \/ CountMessage(t) \/ WaitForSink(t) \/ WaitForSinks(t)
  \/ WaitForOneSink(t) \/ WaitForSinksEnds(t) \/ SetFlushed(t)

\* The program ends: aborted, or every thread has done all it does.
Quiescent == \A t \in Thread : pc[t] = "idle"
Ended == status # "running" \/ (Quiescent /\ \A t \in Thread : ops[t] = MaxOps)
Stop == Ended /\ UNCHANGED vars

Next ==
  \/ \E t \in Thread : \/ Construct(t) \/ Step(t)
                       \/ Register(t) \/ Unregister(t) \/ InitGoogleLogging(t)
  \/ Stop

Spec == Init /\ [][Next]_vars

\* While threads are inside LogMessages that can go on, one of them does; none
\* has to begin a message.
FairSpec == Spec /\ WF_vars(\E t \in Thread : Step(t))
=============================================================================
