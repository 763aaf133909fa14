------------------------------ MODULE LogFile ------------------------------
(***************************************************************************)
(* The log files of a program (LogFileObject, Logger.cc): what Write does  *)
(* with a message once LogDestination has chosen a file.  Files fail to be *)
(* created, the disk fills up, a file is rolled over when it is too long,  *)
(* renamed when the client says so and abandoned in the child of a fork.   *)
(*                                                                         *)
(* Write holds lock_ throughout, so it is one step; it works on w, a       *)
(* record of the LogFileObject, the disk and whether anything was lost on  *)
(* the way, through the operators of the first part.  A message is its     *)
(* number and its length in bytes, MaxMessages bounds their number,        *)
(* MaxTime the clock and MaxEvents all that happens besides.               *)
(***************************************************************************)
EXTENDS Integers, Sequences

CONSTANTS Process, Parent, \* the processes; one forks the others
          Object,          \* the LogFileObjects, one per severity
          Dirs,            \* GetLoggingDirectories(), as default base names
          Basename,        \* what clients give to SetBasename
          Extension,       \* what clients give to SetExtension
          NoName,          \* the empty string: no base name, no extension
          Frequency,       \* kRolloverAttemptFrequency
          MaxLength,       \* MaxLogSize() in bytes
          LengthModulus,   \* how far file_length_ counts: 2^32
          HeaderLen,       \* the length of a file's header
          FlushBytes,      \* the 10^6 characters of the comment
          LogBufSecs,      \* FLAGS_logbufsecs
          StopIfFull,      \* FLAGS_stop_logging_if_full_disk
          StdioBuffer,     \* how many bytes a FILE buffers
          MessageLen,      \* the lengths that messages may have
          MaxMessages, MaxTime, MaxEvents

ASSUME LogFileAssumption ==
          /\ Parent \in Process
          /\ Dirs \in Seq(STRING) /\ Dirs # <<>>
          /\ \A i \in 1..Len(Dirs) : Dirs[i] \notin Basename \cup {NoName}
          /\ NoName \in Basename /\ NoName \in Extension
          /\ NoName \notin Object
          /\ Frequency \in Nat \ {0}
          /\ MaxLength \in Nat \ {0}
          /\ LengthModulus \in Nat \ {0}
          /\ HeaderLen \in Nat
          /\ FlushBytes \in Nat
          /\ LogBufSecs \in Nat
          /\ StopIfFull \in BOOLEAN
          /\ StdioBuffer \in Nat
          /\ MessageLen \subseteq Nat \ {0}
          /\ MaxMessages \in Nat /\ MaxTime \in Nat \ {0} /\ MaxEvents \in Nat

VARIABLES
  obj,          \* obj[p][o]: the LogFileObject o in the memory of process p
  stop_writing, \* per process
  g_main_thread_pid,
  alive,        \* the processes that run
  disk,         \* the files, in the order of their creation
  full,         \* the disk is full
  clock,
  number,       \* of the last message
  events,       \* how much happened besides messages and time
  forkedAt,     \* history: the number of the last message before the fork
  accepted,     \* history: the messages that Write was given for each object
  skipped,      \* history: the Writes since the last attempt to create a file
  troubles      \* history: why messages may be missing

vars == <<obj, stop_writing, g_main_thread_pid, alive, disk, full, clock,
          number, events, forkedAt, accepted, skipped, troubles>>

Trouble == {"refused", "exists", "full"}
Line == [n : 0..MaxMessages, by : Process, at : 0..MaxTime,  \* 0: a header
         len : Nat]
Place == Basename \cup {Dirs[i] : i \in 1..Len(Dirs)}
FileName == [base : Place, of : Object \cup {NoName}, ext : Extension,
             time : 0..MaxTime, pid : Process]
File == [name : FileName, of : Object, lines : Seq(Line), size : Nat]
LogFileObject ==
  [selected : BOOLEAN, base : Place, ext : Extension, file : Nat,
   buffer : Seq(Line), pending : Nat, bytes : Nat,
   length : 0..(LengthModulus - 1), attempt : 0..(Frequency - 1), next : Nat]

TypeOK ==
  /\ obj \in [Process -> [Object -> LogFileObject]]
  /\ \A p \in Process, o \in Object : obj[p][o].file <= Len(disk)
  /\ stop_writing \in [Process -> BOOLEAN]
  /\ g_main_thread_pid \in [Process -> Process]
  /\ alive \in SUBSET Process
  /\ disk \in Seq(File)
  /\ full \in BOOLEAN
  /\ clock \in 1..MaxTime
  /\ number \in 0..MaxMessages
  /\ events \in 0..MaxEvents
  /\ forkedAt \in 0..MaxMessages
  /\ accepted \in [Object -> SUBSET (1..MaxMessages)]
  /\ skipped \in [Process -> [Object -> Nat]]
  /\ troubles \in SUBSET Trouble

NewObject ==
  [selected |-> FALSE, base |-> NoName, ext |-> NoName, file |-> 0,
   buffer |-> <<>>, pending |-> 0, bytes |-> 0, length |-> 0,
   attempt |-> Frequency - 1, next |-> 0]

\* The clock starts at 1: 0 is the time stamp of the FATAL path's flush.
Init ==
  /\ obj = [p \in Process |-> [o \in Object |-> NewObject]]
  /\ stop_writing = [p \in Process |-> FALSE]
  /\ g_main_thread_pid = [p \in Process |-> Parent]
  /\ alive = {Parent}
  /\ disk = <<>>
  /\ full = FALSE
  /\ clock = 1
  /\ number = 0
  /\ events = 0
  /\ forkedAt = 0
  /\ accepted = [o \in Object |-> {}]
  /\ skipped = [p \in Process |-> [o \in Object |-> 0]]
  /\ troubles = {}
-----------------------------------------------------------------------------
(* stdio.  A buffer that cannot be written out is lost: fflush and fclose  *)
(* report it to nobody here, fwrite only when it is the one to write out.  *)
(* pending is how many bytes the buffer holds.                             *)

Memory(p, o) == [o |-> obj[p][o], disk |-> disk, lost |-> FALSE]

Drain(w) ==
  IF full \/ w.o.buffer = <<>>
  THEN [w EXCEPT !.o.buffer = <<>>, !.o.pending = 0,
                 !.lost = @ \/ w.o.buffer # <<>>]
  ELSE LET file == w.disk[w.o.file]
       IN  [w EXCEPT !.disk[w.o.file] =
                       [file EXCEPT !.lines = @ \o w.o.buffer,
                                    !.size = @ + w.o.pending],
                     !.o.buffer = <<>>, !.o.pending = 0]

\* lines is one line, or none.
Bytes(lines) == IF lines = <<>> THEN 0 ELSE lines[1].len

fwrite(w, lines) ==
  LET more == [w EXCEPT !.o.buffer = @ \o lines,
                        !.o.pending = @ + Bytes(lines)]
  IN  IF more.o.pending > StdioBuffer THEN Drain(more) ELSE more

fclose(w) == IF w.o.file = 0 THEN w ELSE [Drain(w) EXCEPT !.o.file = 0]

FlushUnlocked(w) ==
  LET flushed == IF w.o.file = 0 THEN w
                 ELSE [Drain(w) EXCEPT !.o.bytes = 0]
  IN  [flushed EXCEPT !.o.next = clock + LogBufSecs]
-----------------------------------------------------------------------------
(* The parts of Write.                                                     *)

AddLength(n, k) == (n + k) % LengthModulus

\* Mutant: the file is forgotten and not closed.
RollWithoutClose(w) ==
  [w EXCEPT !.o.file = 0, !.o.buffer = <<>>, !.o.pending = 0,
            !.o.length = 0, !.o.bytes = 0, !.o.attempt = Frequency - 1]
\* Too long, or not this process's any more: close the file.
Roll(w) ==
  [fclose(w) EXCEPT !.o.length = 0, !.o.bytes = 0,
                    !.o.attempt = Frequency - 1]

\* Mutant: the file may reach the limit and grow by one message more.
TooLongLate(r) == r.length > MaxLength
TooLong(r) == r.length >= MaxLength

\* The default base name ends in the severity, a selected one need not; the
\* pid is that of the process as far as g_main_thread_pid knows it.
NameOf(p, o, b, time) ==
  [base |-> b, of |-> IF obj[p][o].selected THEN NoName ELSE o,
   ext |-> obj[p][o].ext, time |-> time, pid |-> g_main_thread_pid'[p]]

\* open with O_CREAT | O_EXCL.
Exists(name, files) == \E k \in 1..Len(files) : files[k].name = name

Candidates(r) == IF r.selected THEN <<r.base>> ELSE Dirs
Tried(r) == {Candidates(r)[i] : i \in 1..Len(Candidates(r))}

\* The candidates that CreateLogfile can create a file at; the environment
\* refuses some.
Creatable(p, o, w, time, refused) ==
  {i \in 1..Len(Candidates(w.o)) :
     /\ Candidates(w.o)[i] \notin refused
     /\ ~Exists(NameOf(p, o, Candidates(w.o)[i], time), w.disk)}

Header(p) == [n |-> 0, by |-> p, at |-> clock, len |-> HeaderLen]

\* The file at base name b is created and the header is written.
Created(p, o, w, time, b) ==
  LET opened == [w EXCEPT
        !.disk = Append(@, [name |-> NameOf(p, o, b, time), of |-> o,
                            lines |-> <<>>, size |-> 0]),
        !.o.base = b, !.o.file = Len(w.disk) + 1, !.o.attempt = 0]
  IN  [fwrite(opened, <<Header(p)>>) EXCEPT
        !.o.length = AddLength(@, HeaderLen), !.o.bytes = @ + HeaderLen]

Failed(w) ==
  [w EXCEPT !.o.attempt = 0,
            !.o.base = Candidates(w.o)[Len(Candidates(w.o))]]

Commit(p, o, w, other) ==
  /\ obj' = [obj EXCEPT ![p][o] = w.o]
  /\ disk' = w.disk
  /\ troubles' = troubles \cup other \cup (IF w.lost THEN {"full"} ELSE {})
-----------------------------------------------------------------------------
(* Write, by how it ends.  lines is the message, or nothing for the flush  *)
(* of the FATAL path, Write(true, 0, "", 0).                               *)

Deselected(r) == r.selected /\ r.base = NoName

\* The object after the check for a rollover, and the pid as it leaves it.
Changed(p, o) == ~TooLong(obj[p][o]) /\ g_main_thread_pid[p] # p
\* Mutant: a fork is noticed and nothing is done about it.
BegunInherited(p, o) ==
  IF TooLong(obj[p][o]) THEN Roll(Memory(p, o)) ELSE Memory(p, o)
Begun(p, o) ==
  IF TooLong(obj[p][o]) \/ Changed(p, o) THEN Roll(Memory(p, o))
  ELSE Memory(p, o)
CheckPid(p, o) ==
  g_main_thread_pid' =
    [g_main_thread_pid EXCEPT ![p] = IF Changed(p, o) THEN p ELSE @]

Skips(r) == r.file = 0 /\ r.attempt + 1 # Frequency

WriteIgnored(p, o) ==
  /\ Deselected(obj[p][o])
  /\ UNCHANGED <<obj, stop_writing, g_main_thread_pid, disk, skipped, troubles>>

\* There is no file, and it is not yet time to try to create one again.
WriteSkipped(p, o) ==
  LET w == Begun(p, o) IN
  /\ ~Deselected(obj[p][o]) /\ Skips(w.o)
  /\ CheckPid(p, o)
  /\ Commit(p, o, [w EXCEPT !.o.attempt = @ + 1], {})
  /\ skipped' = [skipped EXCEPT ![p][o] = @ + 1]
  /\ UNCHANGED stop_writing

\* Mutant: rollover_attempt_ is not reset when a file cannot be created.
WriteUncreatedNoReset(p, o, time, refused) ==
  LET w == Begun(p, o) IN
  /\ ~Deselected(obj[p][o]) /\ w.o.file = 0 /\ ~Skips(w.o)
  /\ CheckPid(p, o)
  /\ Creatable(p, o, w, time, refused) = {}
  /\ Commit(p, o, [w EXCEPT !.o.attempt = @ + 1], {})
  /\ skipped' = [skipped EXCEPT ![p][o] = 0]
  /\ UNCHANGED stop_writing

\* No file can be created.
WriteUncreated(p, o, time, refused) ==
  LET w == Begun(p, o)
      why == IF refused = {} THEN "exists" ELSE "refused" IN
  /\ ~Deselected(obj[p][o]) /\ w.o.file = 0 /\ ~Skips(w.o)
  /\ CheckPid(p, o)
  /\ Creatable(p, o, w, time, refused) = {}
  /\ Commit(p, o, Failed(w), {why})
  /\ skipped' = [skipped EXCEPT ![p][o] = 0]
  /\ UNCHANGED stop_writing

\* Mutants: the time since the last flush is ignored; force_flush is.
DueUnforced(r, force) == r.bytes >= FlushBytes \/ clock >= r.next
DueIgnoringTime(r, force) == force \/ r.bytes >= FlushBytes
Due(r, force) == force \/ r.bytes >= FlushBytes \/ clock >= r.next

\* The message is written to the file and flushed when that is due; or the
\* disk is full, now or since an earlier message.
Output(p, o, w, force, lines) ==
  LET out == fwrite([w EXCEPT !.lost = FALSE], lines)
      counted == [out EXCEPT !.o.length = AddLength(@, Bytes(lines)),
                             !.o.bytes = @ + Bytes(lines),
                             !.lost = @ \/ w.lost]
  IN \/ /\ stop_writing[p]
        /\ stop_writing' = [stop_writing EXCEPT ![p] = clock < w.o.next]
        /\ Commit(p, o, w, {"full"})
     \/ /\ ~stop_writing[p] /\ out.lost /\ StopIfFull
        /\ stop_writing' = [stop_writing EXCEPT ![p] = TRUE]
        /\ Commit(p, o, out, {})
     \/ /\ ~stop_writing[p] /\ ~(out.lost /\ StopIfFull)
        /\ Commit(p, o, IF Due(counted.o, force) THEN FlushUnlocked(counted)
                        ELSE counted, {})
        /\ UNCHANGED stop_writing

WriteToFile(p, o, force, lines) ==
  LET w == Begun(p, o) IN
  /\ ~Deselected(obj[p][o]) /\ w.o.file # 0
  /\ CheckPid(p, o)
  /\ Output(p, o, w, force, lines)
  /\ UNCHANGED skipped

\* Mutant: without O_EXCL, open takes a file that exists.
WriteToAnyFile(p, o, force, time, lines, refused) ==
  LET w == Begun(p, o)
      b == Candidates(w.o)[1]
      opened == IF Exists(NameOf(p, o, b, time), w.disk)
                THEN {[w EXCEPT !.o.file = k, !.o.attempt = 0] :
                        k \in {i \in 1..Len(w.disk) :
                                 w.disk[i].name = NameOf(p, o, b, time)}}
                ELSE {Created(p, o, w, time, b)} IN
  /\ ~Deselected(obj[p][o]) /\ w.o.file = 0 /\ ~Skips(w.o)
  /\ CheckPid(p, o)
  /\ b \notin refused
  /\ \E v \in opened : Output(p, o, v, force, lines)
  /\ skipped' = [skipped EXCEPT ![p][o] = 0]

\* The first of the candidates that can be created is.
WriteToNewFile(p, o, force, time, lines, refused) ==
  LET w == Begun(p, o)
      can == Creatable(p, o, w, time, refused) IN
  /\ ~Deselected(obj[p][o]) /\ w.o.file = 0 /\ ~Skips(w.o)
  /\ CheckPid(p, o)
  /\ \E i \in can :
       /\ \A j \in can : i <= j
       /\ Output(p, o, Created(p, o, w, time, Candidates(w.o)[i]),
                 force, lines)
  /\ skipped' = [skipped EXCEPT ![p][o] = 0]

Write(p, o, force, time, lines) ==
  \/ WriteIgnored(p, o)
  \/ WriteSkipped(p, o)
  \/ WriteToFile(p, o, force, lines)
  \/ \E refused \in SUBSET Tried(obj[p][o]) :
       \/ WriteUncreated(p, o, time, refused)
       \/ WriteToNewFile(p, o, force, time, lines, refused)
-----------------------------------------------------------------------------
(* What the program and its environment do.                                *)

\* A message for object o.  Its time stamp is that of its construction, which
\* may be earlier than that of a message written before it.
WriteMessage(p, o) ==
  \E force \in BOOLEAN, time \in {clock - 1, clock} \ {0}, len \in MessageLen :
    /\ p \in alive /\ number < MaxMessages
    /\ number' = number + 1
    /\ Write(p, o, force, time,
             <<[n |-> number + 1, by |-> p, at |-> clock, len |-> len]>>)
    /\ accepted' = IF Deselected(obj[p][o]) THEN accepted
                   ELSE [accepted EXCEPT ![o] = @ \cup {number + 1}]
    /\ UNCHANGED <<alive, full, clock, events, forkedAt>>

Event == events < MaxEvents /\ events' = events + 1

\* The flush of a FATAL message, which has been written to this object before:
\* an empty message of 1970.
WriteFlush(p, o) ==
  /\ p \in alive /\ accepted[o] # {} /\ Event
  /\ Write(p, o, TRUE, 0, <<>>)
  /\ UNCHANGED <<alive, full, clock, number, forkedAt, accepted>>

\* The client's calls.
Change(p, o, w) ==
  /\ p \in alive /\ Event
  /\ Commit(p, o, w, {})
  /\ UNCHANGED <<stop_writing, g_main_thread_pid, alive, full, clock, number,
                 forkedAt, accepted, skipped>>

Flush(p, o) == Change(p, o, FlushUnlocked(Memory(p, o)))

\* A new name closes the file.
Renamed(w) ==
  IF w.o.file = 0 THEN w ELSE [fclose(w) EXCEPT !.o.attempt = Frequency - 1]

SetBasename(p, o) ==
  \E b \in Basename :
    LET w == IF obj[p][o].base # b THEN Renamed(Memory(p, o)) ELSE Memory(p, o)
    IN  Change(p, o, [w EXCEPT !.o.selected = TRUE, !.o.base = b])

SetExtension(p, o) ==
  \E e \in Extension :
    /\ obj[p][o].ext # e
    /\ Change(p, o, [Renamed(Memory(p, o)) EXCEPT !.o.ext = e])

\* The child gets a copy of the memory, the buffers of stdio included.
Fork(p, q) ==
  /\ p \in alive /\ q \notin alive
  /\ alive' = alive \cup {q}
  /\ obj' = [obj EXCEPT ![q] = obj[p]]
  /\ stop_writing' = [stop_writing EXCEPT ![q] = stop_writing[p]]
  /\ g_main_thread_pid' =
       [g_main_thread_pid EXCEPT ![q] = g_main_thread_pid[p]]
  /\ skipped' = [skipped EXCEPT ![q] = skipped[p]]
  /\ forkedAt' = number
  /\ UNCHANGED <<disk, full, clock, number, events, accepted, troubles>>

Tick ==
  /\ clock < MaxTime
  /\ clock' = clock + 1
  /\ UNCHANGED <<obj, stop_writing, g_main_thread_pid, alive, disk, full,
                 number, events, forkedAt, accepted, skipped, troubles>>

DiskFillsOrFrees ==
  /\ Event
  /\ full' = ~full
  /\ UNCHANGED <<obj, stop_writing, g_main_thread_pid, alive, disk, clock,
                 number, forkedAt, accepted, skipped, troubles>>

\* The bound on the messages is reached: the program ends.
Stop == number = MaxMessages /\ UNCHANGED vars

Next ==
  \/ \E p \in Process, o \in Object :
       \/ WriteMessage(p, o) \/ WriteFlush(p, o) \/ Flush(p, o)
       \/ SetBasename(p, o) \/ SetExtension(p, o)
  \/ \E p, q \in Process : Fork(p, q)
  \/ Tick
  \/ DiskFillsOrFrees
  \/ Stop

Spec == Init /\ [][Next]_vars
=============================================================================
