--------------------------- MODULE LogDestination ---------------------------
(***************************************************************************)
(* The destinations of a log message (LogDestination.cc): one log file per *)
(* severity, stderr, and the registry of LogSinks that sink_mutex_ guards. *)
(* The module gives the operations as actions on the destinations alone;   *)
(* LogMessage composes them with the threads that call them.               *)
(*                                                                         *)
(* An entry is one call of Write, WriteToStderr or send: the identity of   *)
(* the LogMessage that made it, its severity, and the text it passed on.   *)
(***************************************************************************)
EXTENDS Integers, Sequences

CONSTANTS Thread,     \* the threads of the program
          Sink,       \* the LogSink objects
          FATAL,      \* the highest severity: NUM_SEVERITIES - 1
          LogBufLevel,       \* FLAGS_logbuflevel
          StderrThreshold,   \* FLAGS_stderrthreshold (0 under alsologtostderr)
          MayFail            \* the severities whose Writes may fail

ASSUME DestinationAssumption ==
          /\ FATAL \in Nat
          /\ LogBufLevel \in Int
          /\ StderrThreshold \in Int
          /\ MayFail \subseteq 0..FATAL

Severity == 0..FATAL
MsgId == Thread \X (Nat \ {0})
Text == Seq(MsgId)
Entry == [id : MsgId, sev : Severity, text : Text]

VARIABLES
  file,        \* file[i]: what logger_->Write of severity i was called with
  forced,      \* forced[i]: how much of file[i] the last forced flush covers
  failed,      \* history: the severities of which some Write failed
  stderr,      \* what was written to stderr
  sinks_,      \* the registered sinks, in the order of the vector
  sinkReaders, \* the threads that hold sink_mutex_ shared
  received     \* received[s]: what s->send was called with

files == <<file, forced, failed, stderr>>
sinkVars == <<sinks_, sinkReaders, received>>
destinations == <<files, sinkVars>>

DestinationTypeOK ==
  /\ file \in [Severity -> Seq(Entry)]
  /\ forced \in [Severity -> Nat]
  /\ failed \in SUBSET Severity
  /\ stderr \in Seq(Entry)
  /\ sinks_ \in Seq(Sink)
  /\ sinkReaders \in SUBSET Thread
  /\ received \in [Sink -> Seq(Entry)]

DestinationInit ==
  /\ file = [i \in Severity |-> <<>>]
  /\ forced = [i \in Severity |-> 0]
  /\ failed = {}
  /\ stderr = <<>>
  /\ sinks_ = <<>>
  /\ sinkReaders = {}
  /\ received = [s \in Sink |-> <<>>]
-----------------------------------------------------------------------------
(* Files and stderr: always called with log_mutex held.                    *)

\* Write to the severities in which fails for some of them: the file has been
\* disabled, there is none and it is not created, writing was stopped when the
\* disk was full, or it is full now.  Then nothing is flushed, and the message
\* may be lost (LogFile tells these apart).
WriteFails(which) == SUBSET (which \cap MayFail)

\* One iteration of LogToAllLogfiles: Write(should_flush, ...) to severity i.
MaybeLogToLogfile(i, e) ==
  \E fails \in WriteFails({i}) :
    /\ file' = [file EXCEPT ![i] = Append(@, e)]
    /\ forced' = [forced EXCEPT ![i] =
                    IF i > LogBufLevel /\ i \notin fails
                    THEN Len(file[i]) + 1 ELSE @]
    /\ failed' = failed \cup fails
    /\ UNCHANGED stderr

WriteToStderr(e) ==
  /\ stderr' = Append(stderr, e)
  /\ UNCHANGED <<file, forced, failed>>

MaybeLogToStderr(e) ==
  IF e.sev >= StderrThreshold THEN WriteToStderr(e) ELSE UNCHANGED files

\* Mutant: the loop that flushes the log files starts at 1.
FlushAllButInfo ==
  \E fails \in WriteFails(Severity) :
    /\ forced' = [i \in Severity |->
                    IF i = 0 \/ i \in fails THEN forced[i] ELSE Len(file[i])]
    /\ failed' = failed \cup fails
    /\ UNCHANGED <<file, stderr>>

\* Write(true, 0, "", 0) to every destination that exists: nothing is
\* appended; where the Write does not fail, everything written is flushed.
FlushAllLogfiles ==
  \E fails \in WriteFails(Severity) :
    /\ forced' = [i \in Severity |->
                    IF i \in fails THEN forced[i] ELSE Len(file[i])]
    /\ failed' = failed \cup fails
    /\ UNCHANGED <<file, stderr>>
-----------------------------------------------------------------------------
(* The sinks.  sink_mutex_ is a pthread rwlock.  Its exclusive sections    *)
(* (AddLogSink, RemoveLogSink) block no step but those that need the lock  *)
(* and touch nothing but sinks_, so each is one step that the readers      *)
(* exclude.  A reader is never held back by a writer that waits.           *)

\* Mutant: the same, with sink_mutex_ taken shared.
AddLogSinkShared(s) ==
  sinks_' = Append(sinks_, s) /\ UNCHANGED <<files, sinkReaders, received>>

AddLogSink(s) ==
  /\ sinkReaders = {}
  /\ sinks_' = Append(sinks_, s)
  /\ UNCHANGED <<files, sinkReaders, received>>

\* The last occurrence of s is overwritten by the last sink of the vector.
RemoveLogSink(s) ==
  LET n == Len(sinks_) IN
  /\ sinkReaders = {}
  /\ \/ /\ \A i \in 1..n : sinks_[i] # s
        /\ UNCHANGED sinks_
     \/ \E i \in 1..n :
          /\ sinks_[i] = s
          /\ \A j \in (i + 1)..n : sinks_[j] # s
          /\ sinks_' = SubSeq([sinks_ EXCEPT ![i] = sinks_[n]], 1, n - 1)
  /\ UNCHANGED <<files, sinkReaders, received>>

\* ReaderMutexLock l(&sink_mutex_), and its destructor.
ReaderLock(t) ==
  /\ sinkReaders' = sinkReaders \cup {t}
  /\ UNCHANGED <<files, sinks_, received>>

ReaderUnlock(t) ==
  /\ sinkReaders' = sinkReaders \ {t}
  /\ UNCHANGED <<files, sinks_, received>>

Send(s, e) ==
  /\ received' = [received EXCEPT ![s] = Append(@, e)]
  /\ UNCHANGED <<files, sinks_, sinkReaders>>
=============================================================================
