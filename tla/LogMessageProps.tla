-------------------------- MODULE LogMessageProps --------------------------
(***************************************************************************)
(* What is expected of LogMessage: the properties that TLC checks, the     *)
(* invariant that LogMessageProofs proves them from, and the refinement of *)
(* SerialLog.                                                              *)
(***************************************************************************)
EXTENDS LogMessage, FiniteSets

\* log_mutex "allows only one thread to log at a time" (LogMessage.cc:31): a
\* thread is between the lock and the unlock of a dispatch exactly when it
\* owns the lock, the FATAL path's unlock and relock included.
LogMutexInv == \A t \in Thread : (logMutex = t) <=> (pc[t] \in HoldsLog)

\* No two threads dispatch at once.
MutualExclusion ==
  \A t, u \in Thread : pc[t] \in HoldsLog /\ pc[u] \in HoldsLog => t = u

\* A loop over sinks_ never runs off the vector, although the loop gives
\* RemoveLogSink every chance to shrink it: sink_mutex_ is held shared.
SinkLoopInv ==
  \A t \in Thread :
    /\ (t \in sinkReaders) <=> (pc[t] \in HoldsSinks)
    /\ pc[t] \in HoldsSinks => idx[t] <= Len(sinks_)

\* While any thread loops over sinks_ nobody changes it: a sink whose
\* RemoveLogSink has returned is in use by nobody's loop, and can be deleted.
SinksStable ==
  [][(\E t \in Thread : pc[t] \in HoldsSinks) => UNCHANGED sinks_]_vars

\* The sinks wait with log_mutex released, so that what they wait for may log
\* (LogSink.h:39-45), and a FATAL message fails with it released, so that
\* signal handlers may (LogMessage.cc:269-273).
WaitsUnlocked ==
  \A t \in Thread :
    pc[t] \in {"WaitForSink", "WaitTillSent", "Fail"} => logMutex # t

\* The messages of a log file of higher severity are those of the one below
\* it that are severe enough, in the same order: whenever nobody dispatches,
\* the n-th of those in the lower file is the n-th message of the higher one.
Severe(seq, i, n) == {k \in 1..n : seq[k].sev >= i}
Rank(seq, i, n) == Cardinality(Severe(seq, i, n))
Matches(higher, lower, i) ==
  \A n \in 1..Len(lower) : lower[n].sev >= i =>
    /\ Rank(lower, i, n) \in 1..Len(higher)
    /\ higher[Rank(lower, i, n)].id = lower[n].id
FilesAgree ==
  logMutex = NoThread =>
    \A i \in 1..FATAL :
      /\ Len(file[i]) = Rank(file[i - 1], i, Len(file[i - 1]))
      /\ Matches(file[i], file[i - 1], i)

\* A message passes on the text its own statement streamed, and nothing of
\* another statement's, wherever it goes.  Only the shared FATAL data, which
\* all but the first FATAL message use, is exempt.
IntactIn(seq) ==
  \A k \in 1..Len(seq) : seq[k].sev < FATAL => seq[k].text = <<seq[k].id>>
TextIntact ==
  /\ \A i \in Severity : IntactIn(file[i])
  /\ \A s \in Sink : IntactIn(received[s])
  /\ IntactIn(stderr)
  /\ \A t \in Thread : IntactIn(extracted[t])

\* "We want to preserve the data from the first call" of LOG(FATAL)
\* (LogMessage.cc:38-41): whatever later FATAL messages do, the text that the
\* recorded crash reason points to, and the copy that was taken of it, are
\* those of the one message that was given the exclusive data.
FirstFatalPreserved ==
  crash_reason =>
    /\ fatal_message = buf[Exclusive]
    /\ Len(buf[Exclusive]) = 1
    /\ \A t \in Thread :
         slot[t] = Exclusive /\ pc[t] # "idle" => buf[Exclusive] = <<Id(t)>>

\* Before a FATAL message fails, each log file that no Write has failed for
\* has been flushed up to it: it and everything logged before it is on disk.
\* A file whose Write may have returned early (Logger.cc:205, 221, 292, 332,
\* 337-341), is exempt: that one the FATAL path does not flush.
FatalIsOnDisk ==
  \A t \in Thread : pc[t] = "Fail" =>
    \A i \in Severity \ failed : \A k \in 1..Len(file[i]) :
      file[i][k].id = Id(t) => forced[i] >= k

\* At rest num_messages counts every message below FATAL that is not below
\* the minimum level, once however often Flush was called, and no other.
CountsMessages ==
  Quiescent /\ status = "running" =>
    \A i \in 0..(FATAL - 1) :
      num_messages_[i] = IF i < MinLogLevel THEN 0 ELSE built[i]

\* WaitTillSent "will be called after each send() returns, but before that
\* LogMessage exits or crashes" (LogSink.h:35-36): of every sink that was sent
\* the message, unless the sink was unregistered in between.  A message on the
\* shared FATAL data, whose method others may change, is exempt.
WaitedUnlessRemoved ==
  \A t \in Thread :
    pc[t] \in {"idle", "Fail", "Flushed"} /\ slot[t] # Shared
      => owed[t] \subseteq excused[t]

\* The messages of different threads never block each other for good: every
\* LogMessage that has been constructed ends, so that the threads, which begin
\* finitely many, come to rest, or the program has ended.
MessageEnds == <>[](Quiescent \/ status # "running")
-----------------------------------------------------------------------------
(* What makes the invariants inductive.                                    *)

\* A thread that is not idle is in an operation of its own, with a call of
\* Flush to come; the loop over the log files stays within the severities.
InProgressInv ==
  \A t \in Thread :
    /\ pc[t] # "idle" => ops[t] > 0 /\ flushes[t] > 0
    /\ pc[t] = "LogToAllLogfiles" => idx[t] \in Severity

\* A stream never points, and a Flush never reaches, beyond what was written.
StreamInv ==
  \A s \in Slot : put[s] <= Len(buf[s]) /\ data[s].num <= Len(buf[s])

\* Who may write which LogMessageData: its own thread, and for the exclusive
\* one the thread that took it, which writes its text into it once.
OwnerInv ==
  /\ \A t \in Thread : slot[t] \in {t, Exclusive, Shared}
  /\ \A t, u \in Thread : slot[t] = Exclusive /\ slot[u] = Exclusive => t = u
  /\ \A s \in Slot : data[s].first => s = Exclusive
  /\ \A t \in Thread : pc[t] = "RecordCrashReason" => slot[t] = Exclusive

\* How the exclusive buffer is filled: empty until the thread that took it
\* has streamed its message, and holding that one message ever after.
ExclusiveInv ==
  /\ \/ buf[Exclusive] = <<>> /\ put[Exclusive] = 0
     \/ Len(buf[Exclusive]) = 1 /\ put[Exclusive] = 1
  /\ fatal_msg_exclusive =>
       /\ buf[Exclusive] = <<>>
       /\ \A t \in Thread : slot[t] # Exclusive
  /\ \A t \in Thread : slot[t] = Exclusive =>
       /\ pc[t] \in {"Init", "InitFlag", "stream"} => buf[Exclusive] = <<>>
       /\ pc[t] \notin {"idle", "Init", "InitFlag", "stream"} =>
            buf[Exclusive] = <<Id(t)>>
       /\ pc[t] \notin {"idle", "Init", "InitFlag", "stream", "Flush"} =>
            data[Exclusive].num = 1
  /\ crash_reason =>
       Len(buf[Exclusive]) = 1 /\ fatal_message = buf[Exclusive]

\* The inductive invariant.
Inv ==
  TypeOK /\ LogMutexInv /\ SinkLoopInv /\ InProgressInv /\ StreamInv
  /\ OwnerInv /\ ExclusiveInv

\* A message below FATAL has data of its own; what the constructor was called
\* with is in data_ once Init has run, not yet flushed; a message that is
\* dispatched is not below the minimum level, and only a FATAL one fails.
FatalPath == {"RecordCrashReason", "FlushAll", "Fail", "seekp", "Relock"}
Waiting == {"WaitForSink", "WaitForSinks", "WaitTillSent"}
CallInv ==
  \A t \in Thread : pc[t] # "idle" =>
    /\ (slot[t] = t) <=> (call[t].sev # FATAL)
    /\ pc[t] # "Init" => Me(t).sev = call[t].sev
    /\ pc[t] = "stream" /\ slot[t] # Shared => ~Me(t).flushed
    /\ pc[t] \notin {"Init", "InitFlag", "stream", "Flush"} =>
         Me(t).sev >= MinLogLevel
    /\ pc[t] \in FatalPath \/ (pc[t] \in Waiting /\ after[t] = "Fail")
         => call[t].sev = FATAL
    /\ pc[t] \in SinkMethods /\ slot[t] # Shared => Me(t).method = pc[t]

\* What a FATAL message that has flushed the files has written is on disk, but
\* for files whose Writes failed.
FlushedFatal(t) ==
  pc[t] = "Fail" \/ (pc[t] \in Waiting /\ after[t] = "Fail")
DiskInv ==
  /\ \A i \in Severity : forced[i] <= Len(file[i])
  /\ LogToStderr =>
       /\ \A i \in Severity : file[i] = <<>>
       /\ \A t \in Thread : pc[t] # "LogToAllLogfiles"
  /\ \A t \in Thread : FlushedFatal(t) =>
       \A i \in Severity \ failed : \A k \in 1..Len(file[i]) :
         file[i][k].id = Id(t) => k <= forced[i]

\* A message's own buffer is empty until it has been streamed, and then holds
\* its text and nothing else.
BufferInv ==
  \A t \in Thread : slot[t] = t =>
    /\ pc[t] \in {"Init", "InitFlag", "stream"} =>
         buf[t] = <<>> /\ put[t] = 0
    /\ pc[t] \notin {"idle", "Init", "InitFlag", "stream"} =>
         buf[t] = <<Id(t)>> /\ put[t] = 1
    /\ pc[t] \notin {"idle", "Init", "InitFlag", "stream", "Flush"} =>
         data[t].num = 1

\* The threads whose message has yet to be counted.
Pending(t) ==
  \/ pc[t] \in HoldsLog \cup {"Init", "InitFlag", "stream", "LogTrace"}
  \/ pc[t] = "Flush" /\ ~Me(t).flushed
Uncounted(i) == {t \in Thread : call[t].sev = i /\ Pending(t)}
CountInv ==
  \A i \in 0..(FATAL - 1) :
    IF i < MinLogLevel THEN num_messages_[i] = 0
    ELSE /\ IsFiniteSet(Uncounted(i))
         /\ built[i] = num_messages_[i] + Cardinality(Uncounted(i))

\* Of the sinks that were sent a message those that have not been waited for
\* still will be: the message's own, and the registered ones, of which the
\* loop has yet to reach those up to its index.
OwnSink(t) ==
  IF pc[t] \in HoldsLog \cup {"WaitForSink"} /\ Me(t).method \in SinkMethods
  THEN {Me(t).target} ELSE {}
StillToCome(t) ==
  IF pc[t] = "WaitTillSent" THEN 1..idx[t]
  ELSE IF pc[t] \in HoldsLog \cup {"WaitForSink", "WaitForSinks"}
       THEN 1..Len(sinks_) ELSE {}
WaitInv ==
  \A t \in Thread : slot[t] # Shared =>
    owed[t] \subseteq
      excused[t] \cup OwnSink(t) \cup {sinks_[k] : k \in StillToCome(t)}

\* In the middle of LogToAllLogfiles the file that was written last is one
\* message ahead of the one below it.
Ahead(i) ==
  {t \in Thread :
     pc[t] = "LogToAllLogfiles" /\ idx[t] = i - 1 /\ Me(t).sev >= i}
FilesInv ==
  /\ \A t \in Thread : pc[t] = "LogToAllLogfiles" => idx[t] <= Me(t).sev
  /\ \A i \in 1..FATAL :
       LET n == Rank(file[i - 1], i, Len(file[i - 1])) IN
       /\ Matches(file[i], file[i - 1], i)
       /\ Ahead(i) = {} => Len(file[i]) = n
       /\ \A t \in Ahead(i) :
            Len(file[i]) = n + 1 /\ file[i][n + 1].id = Id(t)

\* The second inductive invariant, which rests on the first.
DeliveryInv ==
  CallInv /\ DiskInv /\ BufferInv /\ TextIntact /\ CountInv /\ WaitInv
  /\ FilesInv
-----------------------------------------------------------------------------
(* The dispatch of a message is atomic: seen without the message that the  *)
(* owner of log_mutex is delivering, the destinations are a SerialLog.     *)

InFlight == {Id(t) : t \in {u \in Thread : pc[u] \in InDispatch}}
\* What is in flight is at the end, so that the rest is a sequence again.
Settled(seq) == {k \in 1..Len(seq) : seq[k].id \notin InFlight}
Seen(seq) == [k \in Settled(seq) |-> [id |-> seq[k].id, sev |-> seq[k].sev]]
IdsOf(seq) == {seq[k].id : k \in DOMAIN seq}
SeenFile == [i \in Severity |-> Seen(file[i])]
SeenReceived == [s \in Sink |-> Seen(received[s])]
SeenStderr == Seen(stderr)
Registrations(s) == Cardinality({k \in 1..Len(sinks_) : sinks_[k] = s})

Serial == INSTANCE SerialLog WITH
  MsgId <- Thread \X (1..MaxOps),
  file <- SeenFile,
  stderr <- SeenStderr,
  received <- SeenReceived,
  registered <- [s \in Sink |-> Registrations(s)],
  delivered <- IdsOf(SeenStderr)
                 \cup (UNION {IdsOf(SeenFile[i]) : i \in Severity})
                 \cup (UNION {IdsOf(SeenReceived[s]) : s \in Sink})

\* Every behaviour of the pipeline delivers messages one at a time, each to
\* all its destinations and at most once.
DeliversSerially == Serial!Spec
=============================================================================
