# A verification of william_log

`src/` is a small C++ logging library in the style of glog, in the namespace
`google`. This directory holds TLA+ modules that model it, TLC configurations
that check them on small instances, and theorems that TLAPS proves for all.

## The system

| Part | State it keeps | Operations | Interacts through |
|---|---|---|---|
| `LogMessage` (LogMessage.cc/.h) | one `LogMessageData` per message; two static ones for FATAL (exclusive, shared); `log_mutex`, `fatal_msg_lock`; `num_messages_`; the crash information | constructors, `stream()`, `Flush`, destructor, `num_messages` | calls the destinations with `log_mutex` held and `WaitTillSent` without |
| `LogDestination` (LogDestination.cc/.h) | one `LogFileObject` per severity, created on demand; `sinks_` under `sink_mutex_` | `LogToAllLogfiles`, `MaybeLogToStderr`, `MaybeLogToEmail`, `AddLogSink`, `RemoveLogSink`, `LogToSinks`, `WaitForSinks` | called by `LogMessage`; calls `Write`, `send`, `WaitTillSent` |
| `LogFileObject` (Logger.cc/.h) | the open `FILE*`, its name, its length, the bytes and the time since the last flush, the rollover counter; `stop_writing` for all files | `Write`, `Flush`, `SetBasename`, `SetExtension`, `LogSize` | stdio, the disk, the clock, `PidHasChanged` |
| `LogSink` (LogSink.h/.cc) | the client's | `send`, `WaitTillSent`, `ToString` | called back by `LogDestination`; may own threads that log |
| `utilities` (utilities.cc/.h) | the failure function, the program name (initialised or not), the pid, the published crash reason | `InitGoogleLoggingUtilities`, `Crash`, `Install...FailureFunction`, `SetCrashReason`, `PidHasChanged` | called by all |
| `vlog_is_on` (vlog_is_on.cc/.h) | the list of modules and levels under `vmodule_lock`; a cached pointer at every VLOG statement | `VLOG_IS_ON`, `InitVLOG3__`, `SetVLOGLevel`, `SafeFNMatch_` | flags; the sites read levels without a lock |
| `raw_logging` (raw_logging.cc/.h) | a counter per severity, the crash record of the first RAW_LOG(FATAL) | `RawLog__` | writes to stderr in one call, no locks |
| macros (logging.h, logging.cc) | static counters of `LOG_EVERY_N`, `LOG_FIRST_N`, `LOG_IF_EVERY_N` | LOG, CHECK, DCHECK, LOG_TO_SINK, LOG_STRING ... | construct `LogMessage`s |
| `symbolize`, `demangle`, `stacktrace` | none | pc to function name; mangled to plain name; the frame walk | called for the stack trace of a failure |

What is hard: any number of threads dispatch at once; the first FATAL message
is chosen in the constructor and all later ones share one buffer; the FATAL
path releases the global lock half way; sinks come and go while others loop
over them, and are called under one lock and waited for under another; files
fail to open, fill the disk, are rolled over, survive a fork; VLOG sites cache
pointers into a list that others extend; the raw statements and the
occasional ones count and elect in static variables without a lock; the symbol
tables are read through buffers smaller than they are, by reads that may fall
short; the demangler backtracks over a buffer that may be full. `PROJECT.json`
lists each of these under "hazards" at its line.

What makes the parts correct:

* messages are dispatched one at a time, each to every destination it is meant
  for, once, with the text its own statement streamed; all log files agree;
* a sink in use is not taken away; everything that was sent is waited for;
  nobody waits with a lock that the waited-for needs;
* the data of the first FATAL message survives, and is on disk before the
  program aborts unless a file failed; the lock the FATAL path gives up is
  retaken correctly;
* a log file is a subsequence of what was written to it, complete unless the
  disk failed, longer than its limit by part of its last message at most, and
  flushed often enough;
* the level that controls a VLOG site is the one the flags and calls ask for;
* what the unlocked counters get wrong is bounded by what really overlapped;
* a stack trace names the callers, in their order, as the symbol tables do, and
  ends; a mangled name is printed as the parts it was made of.

## The plan

In this order; what is done is described below.

1. `LogDestination`, `LogMessage`, `LogMessageProps`, `SerialLog`,
   `MCLogMessage`, with `LogMessageProofs` and `DeliveryProofs` (done): the
   pipeline, its abstract specification, its invariants and the refinement with
   their proofs.
2. `LogFile`, `LogFileProps`, `MCLogFile`, with `LogFileProofs` and
   `LogFileContentProofs` (done): the log files of a process and of its forks,
   on a disk that fills and directories that refuse.
3. `VLog`, `VLogProps`, `MCVLog`, with `VLogProofs` (done): the list of
   modules, the sites and their races, the pattern matcher.
4. `Statements`, `MCStatements`, with `StatementsProofs` (done): RAW_LOG with
   its bounded buffer and the election of the first crash; the static counters
   of the occasional macros.
5. `WaitingSink`, `MCWaitingSink`, with `WaitingSinkProofs` (done): the sink of
   waitTillSent_unittest.cc with its writer thread, composed with the two locks
   of the pipeline.
6. `Symbolize`, `StackTrace`, `StackTraceProps`, `MCStackTrace`, with
   `StackTraceProofs` (done): the reads and the scans, the frame walk, the trace
   of a failing program.
7. `Demangle`, `DemangleProps`, `MCDemangle` (done): the parser with its save
   and restore, against a reference.
8. `Buffer` (not done): the 30000-character stream buffer and the trailing
   newline.
9. Proofs of `LogsTheRightOnes` (done, in `StatementsProofs`) and of
   `NothingLeft` (done, in `WaitingSinkProofs`), stated and modelled without the
   sorting and filtering operators whose recursion a proof cannot unfold.
   `Demangle` runs a recursive operator over terms and stays with TLC.

## The pipeline

### Modules

`LogDestination` holds the destinations as variables and every operation on
them as an action: `file[i]` is what `Write` of severity i was called with,
`forced[i]` how much of it the last forced flush covers, `stderr`, the vector
`sinks_`, the threads that hold `sink_mutex_` shared, and `received[s]`, what
`send` of sink s was called with. What a `Write` does to the disk belongs to
`LogFile`; here a `Write` to a severity in `MayFail` may fail, for any of the
reasons for which `LogFileObject::Write` returns without a flush (a base name of
"", a creation that is skipped or fails, `stop_writing`, a full disk), and
`failed` remembers which have. An exclusive section of `sink_mutex_` is one step
guarded by the absence of readers: it touches only `sinks_` and blocks nobody
else.

`LogMessage` extends it with the threads. Each has a program counter `pc[t]`
named after the function that the thread is about to execute, and its message:
`call` (the constructor's arguments), `slot` (`data_`), `flushes` (the calls of
`Flush` to come, explicit or the destructor's) and `idx` (the loop variable of
the loops over severities and sinks). `data`, `buf` and `put` are a
`LogMessageData`, its buffer and the put position of its stream, one per thread
and the two static ones, so that FATAL messages that share data really
interfere. A message's text is one token, its identity `<<thread, number>>`:
enough to tell whose text was delivered and how often. A step is what a thread
does between two points at which others can see it or get in between: taking
or releasing a lock, one iteration of a loop, one unlocked access to shared
data. `LogMessage::Init` is three: what it does under `fatal_msg_lock`
(`Construct`), the fields that it sets without it (`InitFields`) and, when the
time has been asked for, `has_been_flushed_` (`InitFlag`), as another FATAL
message on the same data may look at it in between. What the code leaves
undefined is undefined here: a FATAL message whose union another thread has
overwritten makes a wild call, which sets `status` to "undefined".

Constants: `Call` are the logging statements of the program (severity, send
method, target), `MinLogLevel`, `LogToStderr`, `LogBufLevel`, `StderrThreshold`
the flags, `MayFail` the severities whose files may fail, `UnitTestFail` whether
`Fail()` returns, `StartsInitialized` whether `InitGoogleLogging` was called
before the threads. `FATAL` is a constant too:
no property depends on there being four severities.

`LogMessageProps` states what is expected. `SerialLog` is the abstract
specification: one atomic `Deliver` per message. `DeliversSerially` is the
refinement, by hiding what the owner of `log_mutex` has delivered so far.

### Runs

| Run | Question | Instance |
|---|---|---|
| `mc_ordinary` | interleavings of ordinary messages with sinks that come and go: order, text, waiting, counting | 2 threads with 2 operations, 4 severities of which the lowest is below `MinLogLevel`, all send methods, a sink, up to 2 Flush calls |
| `mc_serial` | refinement of `SerialLog`, FATAL messages and the abort, across InitGoogleLogging | 2 threads with 2 operations, one of which may be InitGoogleLogging, 2 severities, the file of one of which may fail at any Write, a sink, up to 2 Flush calls |
| `mc_progress` | FATAL messages that return, as under the unit tests: every one ends | 2 threads with 2 operations, FATAL messages to a sink or to a vector, a sink that comes and goes, `--logtostderr` |

Why these bounds are enough: every lock is contended with two threads; the
shared FATAL data needs the exclusive one to be taken first, and two messages
that use it at once need three FATAL messages, hence two threads with two each;
a sink list of one sink is emptied and refilled during a dispatch, and the same
sink may be registered twice, which covers the swap with the last element; two
severities give one file below another, four a chain and one that the minimum
level drops. A failing Write in one file and none in the other is enough to see
that the one does not spoil the other: `FatalIsOnDisk` exempts only the file
that failed, and FATAL's own file may be it. `MaxOps` bounds the operations of a
thread and `MaxFlush` the calls of Flush on a message. What more threads could
do to the first FATAL message and to the locks is the subject of the proofs,
which hold for any number of them.

Threads are symmetric in `mc_ordinary` (nothing tells threads apart, and the
identities of messages are permuted with them); the runs of refinement and
liveness use no symmetry.

Fairness (`FairSpec`): as long as some thread inside a message can take a step,
one of them does; no thread is made to begin a message. Any scheduler grants
that much. It is enough, and fairness to each thread would prove no more of
this pipeline: a lock is waited for without polling and a thread performs
finitely many operations, so that only a loop that never ends or threads that
block one another for ever could violate `MessageEnds`.

### Proofs

`LogMessageProofs` proves, for any threads, sinks, severities, flags and
bounds that satisfy `DestinationAssumption` and `MessageAssumption`:

| Theorem | Statement |
|---|---|
| `Invariance` | `Spec => []Inv` |
| `TypeCorrect` | `Spec => []TypeOK` |
| `OneLogsAtATime` | `Spec => []MutualExclusion` |
| `WaitsHoldNoLogMutex` | `Spec => []WaitsUnlocked` |
| `SinksKeptStable` | `Spec => SinksStable` |
| `FirstFatalKept` | `Spec => []FirstFatalPreserved` |

`Inv` is the conjunction of `TypeOK`, `LogMutexInv` (a thread owns `log_mutex`
exactly at the program counters inside the dispatch), `SinkLoopInv` (a thread
holds `sink_mutex_` shared exactly inside its loops, whose index is within the
vector), `InProgressInv` and `StreamInv` (what type correctness itself needs:
indices within bounds, put positions within buffers), `OwnerInv` (who uses
which data) and `ExclusiveInv` (the stages of the exclusive buffer).
`FirstFatalPreserved` alone is not inductive: that no later message touches the
exclusive buffer follows from `OwnerInv`, at most one thread ever has it, and
that its owner does not touch it again from `ExclusiveInv`, which says at
which program counters it is still empty. Each conjunct has a lemma of its own
with one step per action.

`SinkLoopInv` is proved as a conjunct of `Inv`, not run by itself.

`DeliveryProofs` proves, from the same assumptions, what becomes of a message:

| Theorem | Statement |
|---|---|
| `DeliveryInvariance` | `Spec => []DeliveryInv` |
| `TextKept` | `Spec => []TextIntact` |
| `FatalFlushed` | `Spec => []FatalIsOnDisk` |
| `CountedOnce` | `Spec => []CountsMessages` |
| `SinksWaitedFor` | `Spec => []WaitedUnlessRemoved` |
| `LogFilesAgree` | `Spec => []FilesAgree` |

`DeliveryInv` is inductive relative to `Inv`. Its parts: `CallInv` (what the
constructor was called with is in `data_` once `Init` has run; only a FATAL
message shares data and only one gets on the path that fails), `DiskInv` (a
message that has flushed the files keeps all its entries below `forced`,
whatever others append meanwhile, in every file of which no Write has failed),
`BufferInv` (a buffer of a thread's own holds its own text; with it
`TextIntact` is inductive), `CountInv` (built messages are those counted and
those still on their way, a finite set), `WaitInv` (the sinks still owed a
`WaitTillSent` are those the loop has yet to reach) and `FilesInv` (in the
middle of `LogToAllLogfiles` the file written last is one message ahead of the
one below it). `FilesAgree` compares the files by rank: the n-th message of the
lower file that is severe enough is the n-th of the higher one.
`WaitedUnlessRemoved` exempts messages on the shared FATAL data: another FATAL
message may change their method between the dispatch and the wait.

Behind these, `DeliveryProofs` proves the refinement:

| Theorem | Statement |
|---|---|
| `SerialInvariance` | `DispatchedOnce => (Spec => []SerialInv)` |
| `ImplementsSerial` | `DispatchedOnce => (Spec => DeliversSerially)` |

`DispatchedOnce` says of the constants that either a message is flushed by its
destructor alone (`MaxFlush = 1`) or every FATAL message of the program ends it.
The second is what the library does by itself: only a unit test's failure
function lets a program go on. Without either, `SerialLog` is not implemented:
a later FATAL message on the shared data resets `has_been_flushed_`
(LogMessage.cc:141), so that an earlier one that calls `Flush` again is sent
again. `mc_serial` flushes up to twice, aborts on FATAL, and satisfies it.

`SerialInv` says which messages are not going to be dispatched any more
(`Gone`), that every entry anywhere is of such a message or of the one in
flight, that a FATAL message on shared data does not get past its failure
(`SharedInv`), and, for the thread that dispatches, that the last entries of
each destination are its message's and how many of them there are at each
program counter (`FlightInv`: one in the files the loop has passed, one per
registration that the sink loop has passed). The mapping hides the message in
flight. A step outside of a dispatch then changes nothing that is seen, or
registers or unregisters one sink (`RegistryStep`; that the swap with the last
element removes exactly one registration is `RemoveUnregisters`); a step that
begins or continues a dispatch changes nothing that is seen, as only copies of
the hidden message are appended (`DispatchingStep`); the step that leaves the
dispatch uncovers them all, which is `Deliver`, or nothing if the message went
nowhere (`LeavingStep`, `DeliverStep`).

Only model-checked: the liveness property `MessageEnds` (out of TLAPS's reach,
as is everything about ENABLED).

`FatalFlushed` and `FatalFlushReachesDisk` (below, of `LogFile`) are two halves
of one promise: the pipeline forces the files of which no Write failed, and the
forced Write of such a file leaves nothing in a buffer. Of a file that did fail
the pipeline says nothing, and the forced Write still leaves nothing in the
buffer, but while writing is stopped.

### Seen while modelling, without a run of their own

A later FATAL message may abort the program before the first one has stored the
crash information (LogMessage.cc:248). Under the unit tests' failure function a
later FATAL message resets `has_been_flushed_` of an earlier one that shares
its data, whose second `Flush` then sends it again (LogMessage.cc:141).
All FATAL messages but the first share one `LogMessageData` without a lock
(LogMessage.cc:124): one thread sets `send_method_` to SendToSink while the
union (LogMessage.h:127) holds another's vector pointer, on which `send` is then
called; this is the step that sets `status` to "undefined".
A sink that is unregistered between `LogToSinks` and `WaitForSinks` was sent the
message and its `WaitTillSent` is never called (LogMessage.cc:184-186,
LogDestination.cc:191-198), against "will be called after each send() returns"
(LogSink.h:35-36); `WaitedUnlessRemoved` excuses exactly these sinks.

### Not modelled

The prefix and all formatting; the time stamps; `--log_backtrace_at`; the
warning that is printed once before InitGoogleLogging; email (nothing lowers
its severity of 99999); the stack trace is a module of its own. `CHECK` and its
kin only format and build a FATAL message. The other unit tests (of logging,
vlog_is_on and file_capture) are read as documentation of intent. Errors of
pthread calls abort the program and are left out. `SetExitOnDFatal` does not
exist here: the flag `exit_on_dfatal` is constant.

## The log files

### Modules

`LogFile` models `LogFileObject`. `obj[p][o]` is the object of severity o in the
memory of process p: `selected` and `base` (`base_filename_*`), `ext`, `file`
(the index in `disk` of the open file, 0 for NULL), `buffer` (what stdio has not
written out), `bytes`, `length`, `attempt` and `next` as in Logger.h. `disk` is
the sequence of files with their names and lines, in the order of their
creation. `Write` holds `lock_` from beginning to end and so is one step; it is
split by how it ends: ignored, skipped because it is not yet time to try again,
no file could be created, written to the open file, written to a new one. The
parts of `Write` (`Roll`, `Created`, `Failed`, `Output`) are operators on a
record of the object, the disk and whether anything was lost. The environment
ticks the clock, refuses files, fills and frees the disk and forks. A message
has one of the lengths `MessageLen`, a header `HeaderLen`, and lengths, the
buffer of stdio (`StdioBuffer`) and the limit (`MaxLength`, for MaxLogSize() MB)
have one unit; `LengthModulus` stands for 2^32. A message's time stamp may lie
one second behind the clock, which is how messages overtake each other; the
flush of the FATAL path is dated 0. `stop_writing` is per process and, as in the
code, shared by its objects.

`LogFileProps` states what is expected; `MCLogFile` has the directories of the
instances.

### Runs

| Run | Question | Instance |
|---|---|---|
| `mc_files` | order, loss, size and retry through rollovers, renames and failures | one process, one object, two directories, messages of lengths 1 and 3, a limit of 3, a full disk that does not stop the writing |
| `mc_fork` | what a fork and the failure of one file do to another file and to its flushes | two processes, two objects that share `stop_writing` and the pid, messages of length 1, a disk that fills and is freed |

Two objects are enough for what one does to another through `stop_writing` and
the pid; in `mc_fork` a header fills the buffer of stdio, so that the first
message behind it meets a full disk while later ones stay in the buffer until
they are flushed, and no message goes over the limit of 6 (rollovers are the
matter of `mc_files`). In `mc_files` a limit of 3 behind a header of 1 rolls
over twice within the bound on messages, and a message of length 3 goes over it
by more than one of length 1 does; `Frequency` 3 instead of 32 lets creation
fail, be skipped and be retried. `SizeBound` takes off a file's last line
before it compares: the limit is looked at before a message is written
(Logger.cc:208) and the message counted after it (Logger.cc:334), so that the
last message goes over it by any part of its length. `FatalReachesDisk` has no
hypothesis on the object's state. That nothing is left in the buffer is said
whenever writing is not stopped, whatever failed before: in `mc_fork` two
events let the disk fill, which stops the writing of both files, and be freed
before a forced flush comes, and without that hypothesis the property is
violated. That nothing is lost is said if no creation failed and the disk never
was full. Safety only: `Write` has no loop to wait in.

### Proofs

`LogFileProofs` proves, from `LogFileAssumption` alone and so for any number of
processes, objects, directories and names, any limit and any frequency:

| Theorem | Statement |
|---|---|
| `FilesInvariance` | `Spec => []Inv` |
| `FilesTypeCorrect` | `Spec => []TypeOK` |
| `RetriedInTime` | `Spec => []RetryBound` |
| `ForkIsNoticed` | `Spec => ForkNoticed` |

`Inv` is `TypeOK`, `RetryInv` (at most `attempt` Writes were skipped since the
last attempt, which makes `RetryBound` inductive) and `PidInv` (the pid that a
process remembers is that of a process there has been; without it a fork could
give a child a memory that happens to know its pid already). The lemmas follow
the module: first each operator of `Write`'s parts (what `Drain`, `fwrite`,
`fclose`, `Roll`, `Created`, `Output` keep of an object and of the disk), then
`Write` by how it ends (`Wrote` says what each way leaves), then the actions.

No run checks `TypeOK` of the files; the proof does.

`LogFileContentProofs` proves what the files contain:

| Theorem | Statement |
|---|---|
| `ContentInvariance` | `Spec => [](Inv /\ ContentInv)` |
| `WrittenInOrder` | `Spec => []InOrder` |
| `KeepsMessages` | `Spec => []NothingLost` |
| `FlushedInTime` | `Spec => []BufferSpan` |
| `SizeBounded` | `Process = {Parent} /\ RoomForOne => (Spec => []SizeBound)` |
| `FatalFlushReachesDisk` | `Spec => FatalReachesDisk` |

`ContentInv` is said of a pair of an object's memory and the disk, and each part
of `Write` (`fwrite`, the drain, `fclose`, a rollover, a creation) is shown to
advance such a pair (`Advances`): lines are only added, at the end of a file or
in a new one (`Grown`); what a process alone has had stays in order on the disk,
in the buffer, and from the one to the other (`Ordered`); a message that was on
the disk or in the buffer still is, unless the part reports a loss; the buffer's
messages are of the last `LogBufSecs` (`Spanned`). `Write` is a composition of
parts (`AdvancesTwice`), and what another object or process holds is not
disturbed by lines that are not its own.

`SizeInv` counts lengths: while a process has a file open, `file_length_` is no
less than the length of all that is in it and in the buffer, and without the
last line that is below the limit. Two hypotheses are needed. `RoomForOne`: a
header is shorter than the limit, and the 32-bit length does not wrap round
before a header and a message have come on top of the limit (`MaxLength +
HeaderLen + len <= LengthModulus` for every `len`); a real limit below 4096 MB
leaves that room, and from there on the property is false (Logger.cc:208).
`Process = {Parent}`: after a fork two processes write to one file until they
have noticed, each counting its own lines only, and the file may outgrow the
limit. `mc_files`, which checks `SizeBound`, satisfies both.

`FatalFlushReachesDisk` needs in addition that an object with no name has no
file (`NamedInv`): for one that is deselected, Write returns at once
(Logger.cc:204), and nothing of it may be left in a buffer.

### Seen while modelling, without a run of their own

A forced flush is dropped while writing is stopped: one file's full disk sets
`stop_writing` for all, and until the next flush is due `Write` returns before
it comes to any flush, even if the disk has room again (Logger.cc:337-341),
against "flush all the log destinations" (LogMessage.cc:244).
`FatalReachesDisk` excuses exactly this. Only `Write` looks at the time, so the
last messages before a pause stay in the buffer longer than `--logbufsecs`
(Logger.cc:347). The flush of a FATAL message passes the time stamp 0, and a
file that it creates is dated 1970 (LogMessage.cc:264). Only fwrite's errno is
looked at: a flush that finds the disk full does not stop the writing
(Logger.cc:135). A rename keeps `file_length_`, so that the new file is rolled
over early and `LogSize` is wrong (Logger.cc:101). From `--max_log_size` 4096
on the 32-bit length wraps before the limit is reached (Logger.cc:208).
`PidHasChanged` answers true once per process, to the first file that asks: a
child's other files stay those of its parent, against "4354 is the pid of the
logging process" (Logger.cc:255). A rollover in the second of a file's creation
makes the same name again, which O_EXCL refuses: that message and the next 31
are lost, against "The only time this could matter would be when we have
trouble creating the log file" (Logger.cc:218-220).

### Not modelled

The symbolic link to the newest log, `posix_fadvise`, the wording of header and
name; the lock `lock_` itself (nothing blocks while it is held); `chmod` and
the failure of `fcntl` and `fdopen` (they end like a refused file).

## Verbose logging

### Modules

`VLog` models vlog_is_on.cc and the macro `VLOG_IS_ON`. `info` holds every
`VModuleInfo` that was ever made, `vmodule_list` the linked list as indices of
`info`, and a pointer to a level is such an index, 0 for `&FLAGS_v` and -1 for
`&kLogSiteUninitialized`. `vlocal[s]` is the static pointer of the statement s.
A thread's step is one access to what is shared without a lock: `VLOG_IS_ON`
reads the pointer, `Compare` the level, `CheckInitialized` the pointer again or
what it was (the build may do either), `InitVLOG3__` parses the flag and stores
the pointer with `vmodule_lock` held, `ReturnLevel` reads the level and gives
the lock back; `SetVLOGLevel` takes the lock and then takes a step for each
entry (`SetLevel`), as the statements read levels in between. `SafeFNMatch_`
is translated with its reads beyond the length that it is given; names and
patterns are sequences of characters because that is what its properties are
about. `answer` is what a statement returned last; `seen` is a history of the
levels that the thread's statement pointed to during the call.

`VLogProps` states what is expected, and what the header says and the code
does not do; `MCVLog` has the statements, files and flags of the instances.

### Runs

| Run | Question | Instance |
|---|---|---|
| `mc_vlog` | lists, sites and answers under every interleaving | two threads with five calls together, two statements, a flag with a wrong entry and one with a `*`, calls of SetVLOGLevel before and after it is parsed |
| `bad_site` | does a statement log only if a level allows it? | no: it may be initialised between its two reads of the pointer |
| `bad_glob` | does `foo*` match every name that begins with foo? | no: only foo itself and names of four characters |

Two threads race for one statement; five calls let one thread bind a statement,
add a module and execute the statement again while the other, late to
initialise it, stores another pointer and changes `--v`. Threads are symmetric.
That no module is lost (`ListComplete`) is proved and not run. Safety only: a
call has no loop to wait in but the lock's.

### Proofs

`VLogProofs` proves, from `VLogAssumption`, for any threads, statements, files,
flag and calls of SetVLOGLevel:

| Theorem | Statement |
|---|---|
| `VLogInvariance` | `Spec => []VLogInv` |
| `VLogTypeCorrect` | `Site # {} /\ SetPattern # {} => (Spec => []TypeOK)` |
| `NoModuleLost` | `Spec => []ListComplete` |
| `FlagOverrides` | `Spec => []FlagApplies` |
| `SilenceHasAReason` | `Spec => SilentForAReason` |
| `ExactPatternSets` | `Spec => ExactPatternReaches` |

The parts of `VLogInv` beside the types: `ListInv` (the list is a permutation of
`info`: it has as many entries and every one occurs), `LockInv` (who walks over
the list, or has found its level there, holds `vmodule_lock`), `FlagInv` (once
parsed, every entry of the flag is in the list, wherever later ones are put in
front), `LoopInv` (the part of the list that SetVLOGLevel has been through has
the level) and `SeenInv` (whatever level a statement pointed to during the call,
its value now was seen: the histories lose nothing). `VLogTypeCorrect` has the
hypotheses because before its first call a thread's arguments are chosen from
these sets. `Parsed` enumerates the entries of the flag that parse by the
increasing function on their indices; that there is one is the induction
`Enumeration`, done by taking the smallest set without one.

### Seen while modelling, without a run of their own

"*site_flag may be written by several threads, but the value will be the same"
(vlog_is_on.cc:214-215) and "controls the VLOG at the caller site forever"
(vlog_is_on.cc:206-207) do not hold if `SetVLOGLevel` adds a module between two
threads' initialisations of one statement: the later one moves it to the new
module. This is why `SilentForAReason` speaks of the levels that the statement
pointed to during the call, the earlier pointer's included. A `*` that is not
the last character is taken for the rest of a name if it stands at the right
place (vlog_is_on.cc:56): `f*x` matches any name of two characters that begins
with f.

### Not modelled

The level that `SetVLOGLevel` returns; its message through `RAW_LOG`; `errno`,
which `InitVLOG3__` saves; entries without `=`, which end the parsing (`Flag`
ends there). `ResetVModule` and `number_of_vmodule` exist for the unit test
only. A pattern has at most one `*` (`VLogAssumption`): with two, a match that
has run past the name would read some 2^64 characters on.

## Raw and occasional logging

### Modules

`Statements` models what the statements do without `log_mutex`. A thread
executes the one statement of the instance again and again: `RAW_LOG`, or an
occasional one of a `kind` and an `n`. A step is one load or one store of a
shared static variable. `Format` is the buffer as arithmetic: how much of the
prefix, the message, the newline or the notice fits, and what `vsnprintf` makes
of a size of 0. `LoadCount` and `StoreCount` are `++raw_num_messages_`,
`LoadCrashed` and `StoreCrashed` the two halves of `CompareAndSwap`,
`FillReason` and `CopyMessage` the two halves of the crash record; `g_reason`
says whether `SetCrashReason` has published it. A message below
`StderrThreshold` is suppressed (`RawLogSuppressed`) and changes nothing.
`LoadOccurrences` ... `StoreModulo` are the macros' increments and comparisons.
The condition of `LOG_IF_EVERY_N` is one operand of `&&`: the macro does not
parenthesise it (logging.h:171), so that a condition written as a bare `a || b`
is taken apart, `((n) > 0 && a) || (b && ...)`, and every call is logged for
which `a` holds; such a condition is not modelled. `counted`, `raced` and
`overlap` are histories of whether unlocked sections met.

### Runs

| Run | Question | Instance |
|---|---|---|
| `mc_statements` | what do unlocked counters still guarantee? | 2 threads with 3 executions each; lengths from below to beyond the buffer; `first` with n 0..2, `every` and `if_every` with n 0..3 |

Three executions by each of two threads exceed every n, so that a counter wraps
round; lengths 2 to 5 around a remaining buffer of 4 give a message with room
for its newline, one without, the one that exactly fills it and one that is too
long. Symmetric threads; safety only. `LongIsNoted` names the two lengths at the
boundary that lose something without a notice, one of them a character, and what
exactly each loses.
`CountsRaw`, `ReasonOfOne` and `LogsTheRightOnes` are exact for sections that
did not meet, by whichever threads; `NeverFewer` holds of those that did.

### Proofs

`StatementsProofs` proves, from `StatementsAssumption`, for any threads, buffers
and lengths:

| Theorem | Statement |
|---|---|
| `StatementsInvariance` | `Spec => []StatementsInv` |
| `StatementsTypeCorrect` | `Spec => []TypeOK` |
| `RawLinesCounted` | `Spec => []CountsRaw` |
| `FirstReasonStays` | `Spec => []ReasonOfOne` |
| `FirstAreLogged` | `Spec => []NeverFewer` |
| `LinesFit` | `RoomForNotice => (Spec => []LongIsNoted)` |
| `DueAreLogged` | `Spec => []LogsTheRightOnes` |

`StatementsInv` has besides the types `CountInv` (lines written are those
counted and those being counted, unless two threads did so at once), `OccurInv`
and `FirstInv` (`Races`: a counter and the threads that will still store into
it never exceed the calls, and what a thread has loaded is not ahead of that
either, which is why LOG_FIRST_N logs at least n of any overlapping calls) and
`ReasonInv` (unless two met in the election, at most one thread is in it and
the crash reason is its own, half-way or whole) and `HandedInv` (when the
reason is handed over nobody fills it any more). `RoomForNotice` says that the
prefix and something of the notice fit the buffer, as they do of the 3000
characters of `kLogBufSize`.

For `DueAreLogged` there is `SiteInv`: as long as no two calls met, between two
of them the counters are what the calls so far make of them (`Counted`, and
`Cycled`: the cyclic counter is the number of calls that counted, modulo n), and
what was logged is what was due of them; during a call, the same of the calls
before it, with what the call has stored already. How often a condition held
among the first k calls, a cardinality, is counted one call at a time
(`NthNext`).

### Seen while modelling, without a run of their own

`vsnprintf` that returns exactly the size of the buffer has cut a character
off, but only a larger result is taken for an overflow (raw_logging.cc:92,
102), against "returns true iff there was no overflow or error"
(raw_logging.cc:86): the message loses its last character and its newline, and
there is no notice; one character less, and it loses the newline alone.
`LongIsNoted` excuses exactly these two lengths. "Under log_mutex"
(raw_logging.cc:112) is said of `raw_num_messages_`, which is incremented
without it: counts are lost. `CompareAndSwap` (utilities.h:64-71) is not
atomic: two FATAL messages may both win, and the crash reason then has the
position of one and the text of the other.

### Not modelled

The time that a RAW_LOG line is dated with; the other flags of its first line
(raw_logging.cc:117-118), each of which acts as a threshold of 0 would; a
condition that is a bare `||`.

## A sink that waits

### Modules

`WaitingSink` extends `LogMessage` with `TestWaitingLogSink` and its writer
thread. Two threads of the pipeline get a program of their own: the `client`
constructs the sink, logs, destroys it and joins the writer (`test`), the
`writer` takes what `send` queued, logs it with two LOG()s and keeps it
(`run`). The queue is what `send` has pushed (`pushed`) without the first
`popped`, which the writer has taken. The client's step out of
`WaitTillSent` is `LogMessage`'s, guarded by the loop of `Wait()`; `Poll` is a
loop that sleeps and looks again. Any other thread logs or registers a sink.

### Runs

| Run | Question | Instance |
|---|---|---|
| `mc_waiting` | does a sink whose writer logs itself block the thread that waits for it? | client with 2 messages by either route, writer, a third thread with 1 operation |

One message leaves the queue empty while another is being sent, hence two; the
third thread contends for `log_mutex` and changes `sinks_` while the client
waits. Fairness (`WaitingSpec`): weak fairness of every thread's steps inside a
message, of the writer's and of the client's: each is a thread that the
scheduler runs, and its polling loops wake up again. No fairness of the third
thread's choice to log.

### Proofs

`WaitingSinkProofs` proves for any further threads, calls and sinks:

| Theorem | Statement |
|---|---|
| `LogInvariance` | `WaitingSpec => []Inv` |
| `RemovedIsUnused` | `WaitingSpec => []DestroyedUnused` |
| `NothingIsLeft` | `WaitingSpec => []NothingLeft` |

Every step of the composition is one of `LogMessage`'s or the client's own
registration and removal, so the pipeline's `Inv` carries over. `SinkInv` adds
that the test's sink is registered at most once and not after its removal,
which with `SinkLoopInv` (a thread that walks over the registry keeps it as it
is) gives that no one is about to call a sink that is destroyed.

`NothingIsLeft` rests on five invariants, inductive together with `Inv`.
`OrdinaryInv`: the test's messages are all INFO, on data of the thread's own,
and go to stderr and the registered sinks or, the client's, to its own sink
alone. `QueueInv` is where the two threads meet: the queue holds one message at
most, and while it holds one the client has sent it (`~SinkDue`) and has still
to come past the sink's `WaitTillSent` (`WaitDue`), which lets it go on only
when the queue is empty; so every message is pushed once, by whichever route,
and the n-th statement's is the n-th. That the client meets the sink in the
loop over the registry needs the sink to be registered while the client logs,
at one place (`SinkInv`), and the registry to stand still while the client
walks over it (`SinkLoopInv`). `WriterInv` counts what the writer has taken,
logged and kept against where it is in `Run()`; it leaves only when it was told
to and the queue is empty. `StderrInv`: each message of the writer's is on
stderr once, but for the one that is still to be written (`StderrDue`). The
proof uses the test's settings (`SettingsAssumption`: `FLAGS_logtostderr`,
which the test sets, and INFO neither fatal nor filtered out). TLC found the
five invariants to hold on the instance of `mc_waiting` before they were
proved. Only model-checked: `TestEnds`, which is liveness.

### Seen while modelling, without a run of their own

`Wait()` returns when the queue is empty, which is when the writer has taken the
last message and before it has logged it (waitTillSent_unittest.cc:80-90,
126-139), so that `WaitTillSent` does not wait for the sink's logic "to
complete", as LogSink.h:44-45 says with a pointer to this test; the test itself
joins the writer before it compares. `WaitForSinks` holds
`sink_mutex_` shared while the writer, whom it waits for, takes it shared too:
with a lock that lets waiting writers go first, an `AddLogSink` in between
would block all three for ever. mutex.h:102 asks for the default kind, which on
glibc prefers readers.

## Stack traces

### Modules

`Symbolize` models symbolize.cc. A step is one system call or the work between
two. `maps`, `File` are the contents of /proc/self/maps and of the object
files, as functions of offsets; `rd` is a `ReadPersistent` in progress, whose
every `read` returns any part of what is left, or fails. `bol`, `eol`, `eod`
are the `LineReader`'s pointers; `section` is the table that is searched (the
kind, the header, the index, the header of its strings). `answer` is what
`Symbolize` returns. `StackTrace` adds the walk over the saved frame pointers
(`NextStackFrame` with its checks, `sp`, `skip_count`, `result`) and the
printing of each frame. `StackTraceProps` defines what the answer should be
from the maps, tables and names directly, without buffers, reads or scans.

### Runs

| Run | Question | Instance |
|---|---|---|
| `mc_trace` | does a trace name the callers as the tables do, and end? | 11 contents of /proc/self/maps, 8 object files, 27 stacks, buffers of 3 headers, 2 symbols and 4 characters, one failing call |

The buffers are smaller than the tables and the lines, as in the code, so every
table and the list of lines is read in more than one piece and each piece in any
parts; the files include one that is stripped, one that is no ELF, one that ends
an odd byte behind a table and three that are cut short in the headers, in a
table and in the names; the stacks include every kind of frame pointer that the
walk rejects. Three conditions on the files are kept apart. `Whole`: what the
file refers to lies within it. `EvenEnd`: no buffer that is read over the end of
a table meets the end of the file within an entry; only `AbortsForAReason` needs
it. `Tidy`: no bytes behind a table look like a symbol. Without them the
properties are false. Of a stripped file `NamesTheCaller` says only that what is
named is the dynamic table's, not that anything is named, as the header says
(below). Fairness: weak fairness of the one thread; a
`read` that is asked for something returns something, or fails.

### Proofs

`StackTraceProofs` proves, from `SymbolizeAssumption` and `StackAssumption`, for
any maps, object files and stacks, any sizes of the buffers and of an entry, and
any way in which the reads are cut and fail:

| Theorem | Statement |
|---|---|
| `TraceTypeOK` | `Spec => []TypeOK` |
| `LinesAreWhole` | `Spec => []LinesInOrder` |
| `CallersAreFound` | `Spec => []CallersInOrder` |
| `CallersAreNamed` | `Spec => []NamesTheCaller` |
| `AbortsHaveAReason` | `Spec => []AbortsForAReason` |

The assumptions say what the data are: lines of some length, one behind the
other; tables and names as functions of their offsets, with whatever entries
anywhere (`ObjectFile`); a stack on which each frame's pointer was saved in the
next one, within the bounds that the walk checks, and on which the outermost
frame's is rejected by one of the checks or leads to a return address of 0
(`Stack`); a callback that writes no more than the buffer has room for. Whether
a file was cut short is not assumed but a hypothesis of the properties.

`TraceInv` is inductive. `ReaderInv`, of a call of `Symbolize`, has the types;
`ReadInv` (a read that has ended gave all that it was asked for, or met the end
of the file, or failed and was counted); `PlaceInv`; and `LineInv`: the lines
returned so far are those of the file, and what is in the buffer behind them is
the beginning of the next one, without its line feed once it has been asked for
more. `FrameInv`: `Passed` of the calls are behind the walk, skipped or found,
and it stands at the frame of the next one. `CallInv`: `pc` is one below the
next address that is to be printed.

Names need `TraceSearchInv`, which adds three parts. `MapInv`: no line before
the present one holds the pc, and all of them fit the buffer; an open file is
that of the first that does. `SearchInv`: unless something failed or is cut
short, the section headers before the index are of another kind (`Scanned`),
`section.hdr` is the file's first table of its kind, no symbol before the index
covers the pc (`NoneBefore`), the dynamic table is searched only if the other
one is there and has no such symbol (`Missed`), a read in progress was asked for
as much as it should be (`Asked`); what is returned is `Expected`, and the call
is not at an assertion. `PrintInv`: the same of the lines printed already. The
step that is hard is a buffer that reaches over the end of a table: what is
matched there is no symbol of a tidy file, or is one of the table searched
before (`BehindTable`); and that reads of whole files end in whole entries, for
`Ragged` not to happen: of the headers always (`Whole`), of the symbols if the
files have an even end (`Even`, `EvenRead`), which is a hypothesis of
`AbortsHaveAReason` and not of `CallersAreNamed`. TLC agrees on the
instance of `mc_trace` that `FrameInv`, `CallInv`, `MapInv` and `PrintInv` are
invariants; `SearchInv` quantifies over all numbers and is proved only.

Only model-checked: `TraceEnds`, which is liveness.

### Seen while modelling, without a run of their own

A scan of a table that was cut short reads zero bytes at the same place for ever
(symbolize.cc:205). A read that fails aborts the program through an assertion in
the middle of its trace (symbolize.cc:196, 285), and so does a read over the end
of a table that meets the end of a whole file within an entry
(symbolize.cc:284-285): `AbortsForAReason` excuses both. A binary without a
regular symbol table is not named at all, as the search ends before it comes to
the dynamic table (symbolize.cc:330-333), against symbolize.h:46-47, where a
stripped binary's functions are looked up there. What the scan of the symbols
finds behind the end of the table, of which it reads whole buffers, it takes for
symbols (symbolize.cc:275-284). The address of a shared object's symbols is
taken relative to the start of its executable map, whatever that map's offset in
the file (symbolize.cc:324).

### Not modelled

`GetSectionHeaderByName`, which has no caller; the closing of descriptors, which
destructors do on every path; the versions for other systems (dladdr);
unwinding that is not strict; the i386 check of the last two pages; the
formatting of the line.

## The demangler

### Modules

`Demangle` writes every parsing function as a rule of the same name: a term made
of `&&`, `||`, "restore the copy", `Optional`, `OneOrMore`, `ZeroOrMore` and the
functions that look at a character or write. `Run` evaluates a term on a State
in C++'s order of evaluation, so the backtracking, its order and what it
forgets to restore are those of the code. A State has the cursor, the output
with its size, what a copy saves, and histories: `leaks`, which functions failed
without restoring. Where the code would leave its input the evaluation stops
and `verdict` says how. `Demangle(mangled, size)` is the entry point.
`DemangleProps` builds names from identifiers, types, arguments, operators and
scopes together with the text they are to be printed as; the parser has no part
in it.

### Runs

| Run | Question | Instance |
|---|---|---|
| `mc_demangle` | is every name printed as its parts, and every failed attempt undone? | 6784 calls: the reference, the start of each longer name, every word of up to 3 of 16 letters after `_Z` and of 2 after `_ZN1f`, and buffers of the length of the text and up to 3 more |

Each call is made in one step, so a state is a call; every alternative of every
rule is taken by some name of the reference or is refused half-way by some start
of one. The same model, run on some twenty thousand names, gives the answers of
the compiled demangle.cc, without exception. Nothing is proved of it: `Run` is a
recursive operator.

### Seen while modelling, without a run of their own

`_ZNE` is accepted and nothing is written, so that the caller's buffer is left
as it was, against "On success, return true and write the demangled symbol name
to "out"" (demangle.h:77-78).
`AtLeastNumCharsRemaining` compares the pointer, not the character, with '\0'
(demangle.cc:170) and so never says no. A negative length moves the cursor back
(demangle.cc:689), only -1 being refused. `ParseNumber`, `ParseNVOffset` and
`ParseMangledName` do not restore the state when they fail, against
demangle.cc:456-462; `RestoresOnFailure` names them and their callers make up
for it. `ParseExpression` tries three, two and one operand after the same
operator, each from the start (demangle.cc:1135): the time is exponential in the
nesting.

### Not modelled

What is read after the cursor has left its input.
