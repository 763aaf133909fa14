--------------------------- MODULE LogFileProofs ---------------------------
(***************************************************************************)
(* Proofs about LogFile: type correctness, that creating a file is always  *)
(* tried again in time, and what a process does that notices a fork.       *)
(***************************************************************************)
EXTENDS LogFileProps, SequenceTheorems, TLAPS

\* What the parts of Write work on: an object whose file exists.
Work == [o : LogFileObject, disk : Seq(File), lost : BOOLEAN]
Fine(w) == w \in Work /\ w.o.file <= Len(w.disk)

\* v has the files of w, whatever their lines.
SameFiles(w, v) ==
  /\ Len(v.disk) = Len(w.disk)
  /\ \A i \in 1..Len(w.disk) : v.disk[i].name = w.disk[i].name

\* v is w after stdio has worked on its buffer and its lines.
SameObject(w, v) ==
  /\ Fine(v) /\ SameFiles(w, v)
  /\ v.o.file = w.o.file /\ v.o.attempt = w.o.attempt

\* A process has stored v as its object o and on the disk.
Stored(p, o, v) ==
  /\ Fine(v) /\ Len(disk) <= Len(v.disk)
  /\ obj' = [obj EXCEPT ![p][o] = v.o]
  /\ disk' = v.disk
  /\ troubles' \in SUBSET Trouble

\* The inductive invariant: attempt counts the Writes that were skipped, and
\* the pid that a process remembers is that of a process there has been.
RetryInv ==
  \A p \in Process, o \in Object : skipped[p][o] <= obj[p][o].attempt
PidInv == \A p \in Process : g_main_thread_pid[p] \in alive
Inv == TypeOK /\ RetryInv /\ PidInv

-----------------------------------------------------------------------------
(* Lemmas about the operators.                                             *)

\* A line, or none, has a length.
LEMMA BytesProperties ==
  ASSUME NEW lines \in Seq(Line)
  PROVE  Bytes(lines) \in Nat
<1>1. CASE lines = <<>>
  BY <1>1 DEF Bytes
<1>2. CASE lines # <<>>
  <2>1. 1 \in 1..Len(lines)
    BY <1>2, EmptySeq
  <2>2. lines[1] \in Line
    BY <2>1, ElementOfSeq
  <2> QED
    BY <1>2, <2>2 DEF Bytes, Line
<1> QED
  BY <1>1, <1>2

\* stdio changes the buffer, and whether anything was lost, of any object.
LEMMA BufferProperties ==
  ASSUME NEW w, Fine(w), NEW f \in Seq(Line), NEW n \in Nat, NEW b \in BOOLEAN
  PROVE  LET v == [w EXCEPT !.o.buffer = f, !.o.pending = n, !.lost = b] IN
         /\ Fine(v) /\ SameFiles(w, v)
BY DEF Fine, Work, SameFiles, LogFileObject

\* An object may change to any other whose file exists.
LEMMA ObjectProperties ==
  ASSUME NEW w, NEW v, Fine(v), SameFiles(w, v), NEW r \in LogFileObject,
         r.file <= Len(v.disk)
  PROVE  /\ Fine([v EXCEPT !.o = r]) /\ SameFiles(w, [v EXCEPT !.o = r])
         /\ [v EXCEPT !.o = r].o = r
BY DEF Fine, Work, SameFiles

\* What Write assigns to the fields of an object.
LEMMA FieldProperties ==
  ASSUME NEW r \in LogFileObject
  PROVE  /\ \A b \in Place, n \in Nat, a \in 0..(Frequency - 1) :
              [r EXCEPT !.base = b, !.file = n, !.attempt = a]
                \in LogFileObject
         /\ \A n \in 0..(LengthModulus - 1), k \in Nat :
              [r EXCEPT !.length = n, !.bytes = k] \in LogFileObject
         /\ \A b \in Place, a \in 0..(Frequency - 1) :
              [r EXCEPT !.attempt = a, !.base = b] \in LogFileObject
         /\ \A a \in 0..(Frequency - 1) :
              [r EXCEPT !.attempt = a] \in LogFileObject
BY DEF LogFileObject

\* The lines of one file may change, the rest of the disk stays as it is.
LEMMA LinesProperties ==
  ASSUME NEW d \in Seq(File), NEW k \in 1..Len(d), NEW e \in File,
         e.name = d[k].name
  PROVE  /\ [d EXCEPT ![k] = e] \in Seq(File)
         /\ Len([d EXCEPT ![k] = e]) = Len(d)
         /\ \A i \in 1..Len(d) : [d EXCEPT ![k] = e][i].name = d[i].name
<1>1. /\ [d EXCEPT ![k] = e] \in Seq(File)
      /\ Len([d EXCEPT ![k] = e]) = Len(d)
      /\ \A i \in 1..Len(d) :
           [d EXCEPT ![k] = e][i] = IF i = k THEN e ELSE d[i]
  BY ExceptSeq
<1> QED
  BY <1>1

\* Writing a buffer out changes lines, never which files there are.
LEMMA DrainProperties ==
  ASSUME NEW w, Fine(w), full \in BOOLEAN
  PROVE  SameObject(w, Drain(w))
<1> DEFINE b == w.lost \/ w.o.buffer # <<>>
           k == w.o.file
           f == w.disk[k].lines \o w.o.buffer
           n == w.disk[k].size + w.o.pending
           e == [w.disk[k] EXCEPT !.lines = f, !.size = n]
           d == [w.disk EXCEPT ![k] = e]
<1>1. CASE full \/ w.o.buffer = <<>>
  <2>1. Drain(w) = [w EXCEPT !.o.buffer = <<>>, !.o.pending = 0, !.lost = b]
    BY <1>1 DEF Drain
  <2>2. <<>> \in Seq(Line) /\ b \in BOOLEAN
    OBVIOUS
  <2> HIDE DEF b
  <2>3. LET v == [w EXCEPT !.o.buffer = <<>>, !.o.pending = 0, !.lost = b] IN
        Fine(v) /\ SameFiles(w, v)
    BY <2>2, BufferProperties
  <2>4. Fine(Drain(w)) /\ SameFiles(w, Drain(w))
    BY <2>1, <2>3
  <2> QED
    BY <2>1, <2>2, <2>4 DEF SameObject, Fine, Work, LogFileObject
<1>2. CASE ~(full \/ w.o.buffer = <<>>)
  <2>1. Drain(w) = [w EXCEPT !.disk = d, !.o.buffer = <<>>, !.o.pending = 0]
    <3>1. Drain(w) = [w EXCEPT !.disk[k] = e, !.o.buffer = <<>>,
                               !.o.pending = 0]
      BY <1>2 DEF Drain
    <3> HIDE DEF e
    <3> QED
      BY <3>1
  <2>2. /\ d \in Seq(File) /\ Len(d) = Len(w.disk)
        /\ \A i \in 1..Len(d) : d[i].name = w.disk[i].name
    <3>1. CASE k = 0
      <4>1. w.disk \in Seq(File) /\ DOMAIN w.disk = 1..Len(w.disk)
        BY DEF Fine, Work
      <4>2. 0 \notin DOMAIN w.disk
        BY <4>1
      <4>3. d = w.disk
        BY <3>1, <4>1, <4>2
      <4> QED
        BY <4>1, <4>3
    <3>2. CASE k # 0
      <4>1. w.disk \in Seq(File) /\ k \in 1..Len(w.disk)
        BY <3>2 DEF Fine, Work, LogFileObject
      <4>2. w.disk[k] \in File
        BY <4>1, ElementOfSeq
      <4>3. w.disk[k].lines \in Seq(Line) /\ w.o.buffer \in Seq(Line)
        BY <4>2 DEF Fine, Work, LogFileObject, File
      <4>4. f \in Seq(Line) /\ n \in Nat
        BY <4>2, <4>3, ConcatProperties DEF Fine, Work, LogFileObject, File
      <4> HIDE DEF f, n
      <4>5. e \in File /\ e.name = w.disk[k].name
        BY <4>2, <4>4 DEF File
      <4> HIDE DEF e
      <4>6. /\ d \in Seq(File) /\ Len(d) = Len(w.disk)
            /\ \A i \in 1..Len(w.disk) : d[i].name = w.disk[i].name
        BY <4>1, <4>5, LinesProperties
      <4> HIDE DEF d
      <4> QED
        BY <4>6
    <3> QED
      BY <3>1, <3>2
  <2> DEFINE v == [w EXCEPT !.o.buffer = <<>>, !.o.pending = 0,
                            !.lost = w.lost]
  <2>3. Fine(v) /\ v.disk = w.disk /\ v.o.file = k /\ v.o.attempt = w.o.attempt
    <3>1. <<>> \in Seq(Line) /\ w.lost \in BOOLEAN
      BY DEF Fine, Work
    <3>2. Fine(v)
      BY <3>1, BufferProperties, 0 \in Nat, <<>> \in Seq(Line)
    <3> QED
      BY <3>2 DEF Fine, Work, LogFileObject
  <2>4. Drain(w) = [v EXCEPT !.disk = d]
    BY <2>1 DEF Fine, Work
  <2> HIDE DEF d, v
  <2>5. Fine([v EXCEPT !.disk = d])
    BY <2>2, <2>3 DEF Fine, Work
  <2>6. /\ [v EXCEPT !.disk = d].disk = d
        /\ [v EXCEPT !.disk = d].o = v.o
    BY <2>3 DEF Fine, Work
  <2> QED
    BY <2>2, <2>3, <2>4, <2>5, <2>6 DEF SameObject, SameFiles
<1> QED
  BY <1>1, <1>2

\* A message that is added to the buffer, written out or not.
LEMMA FwriteProperties ==
  ASSUME NEW w, Fine(w), full \in BOOLEAN, NEW lines \in Seq(Line)
  PROVE  SameObject(w, fwrite(w, lines))
<1> DEFINE f == w.o.buffer \o lines
           n == w.o.pending + Bytes(lines)
           more == [w EXCEPT !.o.buffer = f, !.o.pending = n, !.lost = w.lost]
<1>1. f \in Seq(Line) /\ n \in Nat /\ w.lost \in BOOLEAN
  BY ConcatProperties, BytesProperties DEF Fine, Work, LogFileObject
<1>2. more = [w EXCEPT !.o.buffer = @ \o lines,
                       !.o.pending = @ + Bytes(lines)]
  BY DEF Fine, Work
<1>3. SameObject(w, more)
  <2>1. Fine(more) /\ SameFiles(w, more)
    BY <1>1, BufferProperties
  <2> QED
    BY <2>1 DEF SameObject, Fine, Work, LogFileObject
<1>4. fwrite(w, lines) \in {more, Drain(more)}
  BY <1>2 DEF fwrite
<1> HIDE DEF more
<1>5. SameObject(more, Drain(more))
  BY <1>3, DrainProperties DEF SameObject
<1>6. SameObject(w, Drain(more))
  BY <1>3, <1>5 DEF SameObject, SameFiles
<1> QED
  BY <1>3, <1>4, <1>6

\* After fclose there is no file.
LEMMA FcloseProperties ==
  ASSUME NEW w, Fine(w), full \in BOOLEAN
  PROVE  /\ Fine(fclose(w)) /\ SameFiles(w, fclose(w))
         /\ fclose(w).o.file = 0
         /\ fclose(w).o.attempt = w.o.attempt
<1> DEFINE v == Drain(w)
<1>1. SameObject(w, v)
  BY DrainProperties
<1> HIDE DEF v
<1>2. CASE w.o.file = 0
  BY <1>2 DEF fclose, SameFiles
<1>3. CASE w.o.file # 0
  <2>1. fclose(w) = [v EXCEPT !.o.file = 0]
    BY <1>3 DEF fclose, v
  <2> DEFINE r == [v.o EXCEPT !.file = 0]
  <2>2. v.o \in LogFileObject /\ Len(v.disk) \in Nat
    BY <1>1 DEF SameObject, Fine, Work
  <2>3. r \in LogFileObject /\ r.file = 0 /\ r.attempt = w.o.attempt
    BY <1>1, <2>2 DEF SameObject, LogFileObject
  <2>4. fclose(w) = [v EXCEPT !.o = r]
    BY <2>1
  <2> HIDE DEF r
  <2> QED
    BY <1>1, <2>2, <2>3, <2>4, ObjectProperties DEF SameObject
<1> QED
  BY <1>2, <1>3

\* A flush keeps the file open.
LEMMA FlushProperties ==
  ASSUME NEW w, Fine(w), full \in BOOLEAN, clock \in Nat, LogBufSecs \in Nat
  PROVE  SameObject(w, FlushUnlocked(w))
<1> DEFINE v == Drain(w)
           flushed == IF w.o.file = 0 THEN w ELSE [v EXCEPT !.o.bytes = 0]
<1>1. SameObject(w, v)
  BY DrainProperties
<1>2. FlushUnlocked(w) = [flushed EXCEPT !.o.next = clock + LogBufSecs]
  BY DEF FlushUnlocked
<1> HIDE DEF v
<1>3. SameObject(w, flushed)
  BY <1>1 DEF SameObject, SameFiles, Fine, Work, LogFileObject
<1>4. clock + LogBufSecs \in Nat
  OBVIOUS
<1> HIDE DEF flushed
<1> QED
  BY ZenonT(60), <1>2, <1>3, <1>4
      DEF SameObject, SameFiles, Fine, Work, LogFileObject

\* After a rollover there is no file, and creating one is tried at once.
LEMMA RollProperties ==
  ASSUME NEW w, Fine(w), full \in BOOLEAN, LogFileAssumption
  PROVE  /\ Fine(Roll(w)) /\ SameFiles(w, Roll(w))
         /\ Roll(w).o.file = 0
         /\ Roll(w).o.attempt = Frequency - 1
<1> DEFINE v == fclose(w)
<1>1. Fine(v) /\ SameFiles(w, v) /\ v.o.file = 0
  BY FcloseProperties
<1>2. Frequency - 1 \in 0..(Frequency - 1) /\ 0 \in 0..(LengthModulus - 1)
  BY DEF LogFileAssumption
<1>3. Roll(w) = [v EXCEPT !.o.length = 0, !.o.bytes = 0,
                          !.o.attempt = Frequency - 1]
  BY DEF Roll
<1> DEFINE r == [v.o EXCEPT !.length = 0, !.bytes = 0,
                            !.attempt = Frequency - 1]
<1> HIDE DEF v
<1>4. v.o \in LogFileObject /\ Len(v.disk) \in Nat
  BY <1>1 DEF Fine, Work
<1>5. r \in LogFileObject /\ r.file = 0 /\ r.attempt = Frequency - 1
  BY <1>1, <1>2, <1>4 DEF LogFileObject
<1>6. Roll(w) = [v EXCEPT !.o = r]
  BY <1>1, <1>3 DEF Fine, Work, LogFileObject
<1> HIDE DEF r
<1> QED
  BY SMTT(30), <1>1, <1>4, <1>5, <1>6, ObjectProperties

\* A new name closes the file, and creating one is tried at once.
LEMMA RenamedProperties ==
  ASSUME NEW w, Fine(w), full \in BOOLEAN, LogFileAssumption
  PROVE  /\ Fine(Renamed(w)) /\ SameFiles(w, Renamed(w))
         /\ Renamed(w).o.file = 0
         /\ Renamed(w).o.attempt \in {w.o.attempt, Frequency - 1}
<1> DEFINE v == fclose(w)
<1>1. Fine(v) /\ SameFiles(w, v) /\ v.o.file = 0
  BY FcloseProperties
<1>2. Frequency - 1 \in 0..(Frequency - 1)
  BY DEF LogFileAssumption
<1>3. Renamed(w) = IF w.o.file = 0 THEN w
                   ELSE [v EXCEPT !.o.attempt = Frequency - 1]
  BY DEF Renamed
<1> DEFINE r == [v.o EXCEPT !.attempt = Frequency - 1]
<1> HIDE DEF v
<1>4. CASE w.o.file = 0
  BY <1>3, <1>4 DEF SameFiles
<1>5. CASE w.o.file # 0
  <2>1. v.o \in LogFileObject /\ Len(v.disk) \in Nat
    BY <1>1 DEF Fine, Work
  <2>2. r \in LogFileObject /\ r.file = 0 /\ r.attempt = Frequency - 1
    BY <1>1, <1>2, <2>1 DEF LogFileObject
  <2>3. Renamed(w) = [v EXCEPT !.o = r]
    BY <1>3, <1>5
  <2> HIDE DEF r
  <2> QED
    BY SMTT(30), <1>1, <2>1, <2>2, <2>3, ObjectProperties
<1> QED
  BY <1>4, <1>5

\* What a process starts from is fine.
LEMMA MemoryProperties ==
  ASSUME TypeOK, NEW p \in Process, NEW o \in Object
  PROVE  /\ Fine(Memory(p, o)) /\ SameFiles(Memory(p, o), Memory(p, o))
         /\ Memory(p, o).o = obj[p][o] /\ Memory(p, o).disk = disk
BY DEF TypeOK, Fine, Work, SameFiles, Memory

\* What Write goes on with after the check for a rollover or a fork.
LEMMA BegunProperties ==
  ASSUME TypeOK, LogFileAssumption, NEW p \in Process, NEW o \in Object
  PROVE  LET w == Begun(p, o) IN
         /\ Fine(w) /\ SameFiles(Memory(p, o), w)
         /\ w.o.file # 0 => w.o.attempt = obj[p][o].attempt
         /\ w.o.attempt \in {obj[p][o].attempt, Frequency - 1}
         /\ Changed(p, o) => w.o.file = 0
<1> DEFINE m == Memory(p, o)
<1>1. Fine(m) /\ SameFiles(m, m) /\ m.o = obj[p][o] /\ full \in BOOLEAN
  BY MemoryProperties DEF TypeOK
<1>2. /\ Fine(Roll(m)) /\ SameFiles(m, Roll(m)) /\ Roll(m).o.file = 0
      /\ Roll(m).o.attempt = Frequency - 1
  <2> HIDE DEF m
  <2> QED
    BY <1>1, RollProperties
<1>3. Begun(p, o) = IF TooLong(obj[p][o]) \/ Changed(p, o) THEN Roll(m) ELSE m
  BY DEF Begun
<1> HIDE DEF m
<1>4. /\ Fine(Begun(p, o)) /\ SameFiles(m, Begun(p, o))
      /\ Begun(p, o).o.file # 0 => Begun(p, o).o.attempt = obj[p][o].attempt
      /\ Begun(p, o).o.attempt \in {obj[p][o].attempt, Frequency - 1}
      /\ Changed(p, o) => Begun(p, o).o.file = 0
  BY <1>1, <1>2, <1>3
<1> QED
  BY <1>4 DEF m

\* There is a candidate for the name of a file, however it is chosen.
LEMMA CandidatesProperties ==
  ASSUME LogFileAssumption, NEW r \in LogFileObject
  PROVE  /\ Len(Candidates(r)) \in Nat \ {0}
         /\ \A i \in 1..Len(Candidates(r)) : Candidates(r)[i] \in Place
<1>1. Dirs \in Seq(STRING) /\ Dirs # <<>>
  BY DEF LogFileAssumption
<1>2. Len(Dirs) \in Nat \ {0}
  BY <1>1, EmptySeq
<1>3. r.base \in Place
  BY DEF LogFileObject
<1> QED
  BY <1>2, <1>3 DEF Candidates, Place

\* file_length_ counts modulo its width.
LEMMA AddLengthProperties ==
  ASSUME LogFileAssumption, NEW n \in Nat, NEW k \in Nat
  PROVE  AddLength(n, k) \in 0..(LengthModulus - 1)
<1>1. LengthModulus \in Nat \ {0} /\ n + k \in Nat
  BY DEF LogFileAssumption
<1> QED
  BY <1>1 DEF AddLength

\* A new file is the last one of the disk, has the name it was given, and the
\* object has it open.
LEMMA CreatedProperties ==
  ASSUME TypeOK, LogFileAssumption, NEW p \in Process, NEW o \in Object,
         NEW w, Fine(w), NEW time \in 0..MaxTime, NEW b \in Place,
         g_main_thread_pid'[p] \in Process
  PROVE  LET v == Created(p, o, w, time, b) IN
         /\ Fine(v) /\ Len(v.disk) = Len(w.disk) + 1
         /\ v.o.file = Len(v.disk) /\ v.o.attempt = 0
         /\ v.disk[v.o.file].name.pid = g_main_thread_pid'[p]
<1> DEFINE n == NameOf(p, o, b, time)
           f == [name |-> n, of |-> o, lines |-> <<>>, size |-> 0]
           d == Append(w.disk, f)
           r == [w.o EXCEPT !.base = b, !.file = Len(w.disk) + 1, !.attempt = 0]
           opened == [w EXCEPT !.disk = d, !.o = r]
           h == <<Header(p)>>
           out == fwrite(opened, h)
           q == [out.o EXCEPT !.length = AddLength(@, HeaderLen),
                              !.bytes = @ + HeaderLen]
<1>1. n \in FileName /\ n.pid = g_main_thread_pid'[p]
  <2>1. obj[p][o] \in LogFileObject
    BY DEF TypeOK
  <2> QED
    BY <2>1 DEF NameOf, FileName, LogFileObject
<1> HIDE DEF n
<1>2. f \in File /\ f.name = n
  BY <1>1 DEF File
<1> HIDE DEF f
<1>3. w.disk \in Seq(File) /\ w.o \in LogFileObject /\ Len(w.disk) \in Nat
  BY DEF Fine, Work
<1>4. /\ d \in Seq(File) /\ Len(d) = Len(w.disk) + 1
      /\ d[Len(w.disk) + 1] = f
  BY <1>2, <1>3, AppendProperties
<1> HIDE DEF d
<1>5. /\ r \in LogFileObject /\ r.file = Len(w.disk) + 1 /\ r.attempt = 0
  <2>1. 0 \in 0..(Frequency - 1) /\ Len(w.disk) + 1 \in Nat
    BY <1>3 DEF LogFileAssumption
  <2>2. r \in LogFileObject
    BY <1>3, <2>1, FieldProperties
  <2> QED
    BY <1>3, <2>2 DEF LogFileObject
<1> HIDE DEF r
<1>6. Fine(opened) /\ opened.disk = d /\ opened.o = r
  <2>1. opened \in Work /\ opened.disk = d /\ opened.o = r
    <3>1. w \in Work /\ d \in Seq(File) /\ r \in LogFileObject
      BY <1>4, <1>5 DEF Fine
    <3> QED
      BY <3>1 DEF Work
  <2> HIDE DEF opened
  <2> QED
    BY <1>3, <1>4, <1>5, <2>1 DEF Fine
<1> HIDE DEF opened
<1>7. h \in Seq(Line) /\ full \in BOOLEAN
  BY DEF Header, Line, TypeOK, LogFileAssumption
<1> HIDE DEF h
<1>8. SameObject(opened, out)
  BY <1>6, <1>7, FwriteProperties
<1>9. Created(p, o, w, time, b) = [out EXCEPT !.o = q]
  <2>1. opened = [w EXCEPT !.disk = d, !.o.base = b,
                           !.o.file = Len(w.disk) + 1, !.o.attempt = 0]
    BY DEF opened, r, Fine, Work
  <2>2. out = fwrite([w EXCEPT !.disk = d, !.o.base = b,
                               !.o.file = Len(w.disk) + 1, !.o.attempt = 0],
                     <<Header(p)>>)
    BY <2>1 DEF h
  <2>3. Created(p, o, w, time, b) =
          [out EXCEPT !.o.length = AddLength(@, HeaderLen),
                      !.o.bytes = @ + HeaderLen]
    BY <2>2 DEF Created, d, f, n
  <2>4. out \in Work
    BY <1>8 DEF SameObject, Fine
  <2> HIDE DEF out
  <2> QED
    BY <2>3, <2>4 DEF Work, LogFileObject
<1> HIDE DEF out
<1>10. /\ out.o \in LogFileObject /\ out.disk \in Seq(File)
       /\ out.o.file = Len(d) /\ out.o.attempt = 0 /\ Len(out.disk) = Len(d)
       /\ out.disk[Len(d)].name = n
  BY <1>2, <1>3, <1>4, <1>5, <1>6, <1>8
  DEF SameObject, SameFiles, Fine, Work
<1>11. AddLength(out.o.length, HeaderLen) \in 0..(LengthModulus - 1)
  <2>1. out.o.length \in Nat /\ HeaderLen \in Nat
    BY <1>10 DEF LogFileObject, LogFileAssumption
  <2> QED
    BY <2>1, AddLengthProperties
<1>12. q \in LogFileObject /\ q.file = Len(d) /\ q.attempt = 0
  <2>1. out.o.bytes + HeaderLen \in Nat
    BY <1>10 DEF LogFileAssumption, LogFileObject
  <2>2. q \in LogFileObject
    BY <1>10, <1>11, <2>1, FieldProperties
  <2> QED
    BY <1>10, <2>2 DEF LogFileObject
<1>13. /\ [out EXCEPT !.o = q] \in Work
       /\ [out EXCEPT !.o = q].o = q /\ [out EXCEPT !.o = q].disk = out.disk
  BY <1>8, <1>12 DEF SameObject, Fine, Work
<1> QED
  <2>1. q.file = Len(out.disk) /\ Len(out.disk) = Len(w.disk) + 1
    BY <1>4, <1>10, <1>12
  <2> HIDE DEF q
  <2>2. /\ Fine([out EXCEPT !.o = q])
        /\ [out EXCEPT !.o = q].o = q /\ [out EXCEPT !.o = q].disk = out.disk
    BY <1>3, <1>13, <2>1 DEF Fine
  <2>3. out.disk[q.file].name.pid = g_main_thread_pid'[p]
    BY <1>1, <1>10, <1>12
  <2> QED
    BY <1>9, <1>12, <2>1, <2>2, <2>3

\* What Commit commits is stored.
LEMMA CommitProperties ==
  ASSUME TypeOK, NEW p \in Process, NEW o \in Object, NEW v, Fine(v),
         Len(disk) <= Len(v.disk), NEW other \in SUBSET Trouble,
         Commit(p, o, v, other)
  PROVE  Stored(p, o, v)
BY DEF Commit, Stored, Trouble, TypeOK

\* Storing an object keeps the types of the objects and of the disk, and the
\* other objects as they are.
LEMMA StoredProperties ==
  ASSUME TypeOK, NEW p \in Process, NEW o \in Object, NEW v, Stored(p, o, v)
  PROVE  /\ obj' \in [Process -> [Object -> LogFileObject]]
         /\ disk' \in Seq(File)
         /\ \A q \in Process, r \in Object : obj'[q][r].file <= Len(disk')
         /\ obj'[p][o] = v.o
         /\ \A q \in Process, r \in Object :
              q # p \/ r # o => obj'[q][r] = obj[q][r]
<1>1. /\ v.o \in LogFileObject /\ v.disk \in Seq(File)
      /\ v.o.file <= Len(v.disk) /\ Len(disk) <= Len(v.disk)
      /\ obj' = [obj EXCEPT ![p][o] = v.o] /\ disk' = v.disk
  BY DEF Stored, Fine, Work
<1>2. /\ obj \in [Process -> [Object -> LogFileObject]]
      /\ disk \in Seq(File)
      /\ \A q \in Process, r \in Object : obj[q][r].file <= Len(disk)
  BY DEF TypeOK
<1>3. obj' \in [Process -> [Object -> LogFileObject]]
  BY <1>1, <1>2
<1>4. obj'[p][o] = v.o
  BY <1>1, <1>2
<1>5. \A q \in Process, r \in Object :
        q # p \/ r # o => obj'[q][r] = obj[q][r]
  BY <1>1, <1>2
<1>6. Len(disk) \in Nat /\ Len(v.disk) \in Nat
  BY <1>1, <1>2
<1>7. ASSUME NEW q \in Process, NEW r \in Object
      PROVE  obj'[q][r].file <= Len(disk')
  <2>1. CASE q = p /\ r = o
    BY <1>1, <1>4, <2>1
  <2>2. CASE q # p \/ r # o
    <3>1. obj[q][r].file \in Nat /\ obj[q][r].file <= Len(disk)
      BY <1>2 DEF LogFileObject
    <3> QED
      BY <1>1, <1>5, <1>6, <2>2, <3>1
  <2> QED
    BY <2>1, <2>2
<1> QED
  BY <1>1, <1>3, <1>4, <1>5, <1>7

\* However the output ends, the object keeps its file and its counter.
LEMMA OutputProperties ==
  ASSUME TypeOK, LogFileAssumption, NEW p \in Process, NEW o \in Object,
         NEW w, Fine(w), Len(disk) <= Len(w.disk), NEW force,
         NEW lines \in Seq(Line), Output(p, o, w, force, lines)
  PROVE  /\ \E v : Stored(p, o, v) /\ SameObject(w, v)
         /\ stop_writing' \in [Process -> BOOLEAN]
<1> DEFINE w0 == [w EXCEPT !.lost = FALSE]
           out == fwrite(w0, lines)
           r == [out.o EXCEPT !.length = AddLength(@, Bytes(lines)),
                              !.bytes = @ + Bytes(lines)]
           counted == [out EXCEPT !.o.length = AddLength(@, Bytes(lines)),
                                  !.o.bytes = @ + Bytes(lines),
                                  !.lost = @ \/ w.lost]
           end == IF Due(counted.o, force) THEN FlushUnlocked(counted)
                  ELSE counted
<1>1. full \in BOOLEAN /\ clock \in Nat /\ LogBufSecs \in Nat
  BY DEF TypeOK, LogFileAssumption
<1>2. SameObject(w, w0)
  BY DEF SameObject, SameFiles, Fine, Work
<1> HIDE DEF w0
<1>3. SameObject(w, out)
  <2>1. SameObject(w0, out)
    BY <1>1, <1>2, FwriteProperties DEF SameObject
  <2> QED
    BY <1>2, <2>1 DEF SameObject, SameFiles
<1> HIDE DEF out
<1>4. SameObject(w, counted)
  <2>1. out.o \in LogFileObject /\ out \in Work /\ Bytes(lines) \in Nat
    BY <1>3, BytesProperties DEF SameObject, Fine, Work
  <2>2. out.o.length \in Nat /\ out.o.bytes + Bytes(lines) \in Nat
    <3> DEFINE x == out.o
    <3>1. x \in LogFileObject
      BY <2>1
    <3> HIDE DEF x
    <3>2. x.length \in Nat /\ x.bytes \in Nat
      BY <3>1 DEF LogFileObject
    <3>3. x.bytes + Bytes(lines) \in Nat
      BY <2>1, <3>2
    <3> QED
      BY <3>2, <3>3 DEF x
  <2>3. AddLength(out.o.length, Bytes(lines)) \in 0..(LengthModulus - 1)
    BY <2>1, <2>2, AddLengthProperties
  <2>4. r \in LogFileObject
    BY <2>1, <2>2, <2>3, FieldProperties
  <2>5. r.file = out.o.file /\ r.attempt = out.o.attempt
    BY <2>1 DEF LogFileObject
  <2>6. counted = [[out EXCEPT !.o = r] EXCEPT !.lost = out.lost \/ w.lost]
    BY <2>1 DEF Work, LogFileObject
  <2> HIDE DEF r, counted
  <2>7. (out.lost \/ w.lost) \in BOOLEAN
    OBVIOUS
  <2>8. /\ counted \in Work /\ counted.o = r /\ counted.disk = out.disk
    BY <2>1, <2>4, <2>6, <2>7 DEF Work
  <2> QED
    BY <1>3, <2>5, <2>8 DEF SameObject, SameFiles, Fine
<1> HIDE DEF counted
<1>5. SameObject(w, end)
  <2>1. SameObject(counted, FlushUnlocked(counted))
    BY <1>1, <1>4, FlushProperties DEF SameObject
  <2> QED
    BY <1>4, <2>1 DEF SameObject, SameFiles
<1> HIDE DEF end
<1>6. \A v : SameObject(w, v) => Fine(v) /\ Len(disk) <= Len(v.disk)
  BY DEF SameObject, SameFiles
<1>7. SameObject(w, w)
  BY DEF SameObject, SameFiles
<1>8. {"full"} \in SUBSET Trouble /\ {} \in SUBSET Trouble
  BY DEF Trouble
<1>9. stop_writing \in [Process -> BOOLEAN]
  BY DEF TypeOK
<1>10. \/ Commit(p, o, w, {"full"}) \/ Commit(p, o, out, {})
       \/ Commit(p, o, end, {})
  BY DEF Output, w0, out, counted, end
<1>11. stop_writing' \in [Process -> BOOLEAN]
  <2> DEFINE b == clock < w.o.next
  <2>1. b \in BOOLEAN
    OBVIOUS
  <2>2. \/ stop_writing' = [stop_writing EXCEPT ![p] = b]
        \/ stop_writing' = [stop_writing EXCEPT ![p] = TRUE]
        \/ stop_writing' = stop_writing
    BY DEF Output
  <2> HIDE DEF b
  <2> QED
    BY <1>9, <2>1, <2>2
<1>12. \E v : Stored(p, o, v) /\ SameObject(w, v)
  <2>1. CASE Commit(p, o, w, {"full"})
    BY <1>6, <1>7, <1>8, <2>1, CommitProperties
  <2>2. CASE Commit(p, o, out, {})
    BY <1>3, <1>6, <1>8, <2>2, CommitProperties
  <2>3. CASE Commit(p, o, end, {})
    BY <1>5, <1>6, <1>8, <2>3, CommitProperties
  <2> QED
    BY <1>10, <2>1, <2>2, <2>3
<1> QED
  BY <1>11, <1>12

\* After a failed attempt the counter starts over.
LEMMA FailedProperties ==
  ASSUME LogFileAssumption, NEW w, Fine(w)
  PROVE  /\ Fine(Failed(w)) /\ SameFiles(w, Failed(w))
         /\ Failed(w).o.attempt = 0 /\ Failed(w).o.file = w.o.file
<1> DEFINE b == Candidates(w.o)[Len(Candidates(w.o))]
           r == [w.o EXCEPT !.attempt = 0, !.base = b]
<1>1. w.o \in LogFileObject /\ w.o.file <= Len(w.disk) /\ SameFiles(w, w)
  BY DEF Fine, Work, SameFiles
<1>2. b \in Place
  BY <1>1, CandidatesProperties
<1>3. Failed(w) = [w EXCEPT !.o = r]
  BY DEF Failed
<1> HIDE DEF b
<1>4. 0 \in 0..(Frequency - 1)
  BY DEF LogFileAssumption
<1>5. r \in LogFileObject
  BY <1>1, <1>2, <1>4, FieldProperties
<1>6. r.file = w.o.file /\ r.attempt = 0
  BY <1>1 DEF LogFileObject
<1> HIDE DEF r
<1> QED
  BY <1>1, <1>3, <1>5, <1>6, ObjectProperties

-----------------------------------------------------------------------------
(* Write, by how it ends.                                                  *)

\* What Write leaves: a process that notices a fork has left the file it had.
Wrote(p, o) ==
  /\ \E v : /\ Stored(p, o, v)
            /\ skipped'[p][o] <= v.o.attempt
            /\ Changed(p, o) => \/ v.o.file = 0
                                \/ v.disk[v.o.file].name.pid = p
  /\ skipped' \in [Process -> [Object -> Nat]]
  /\ \A q \in Process, r \in Object :
       q # p \/ r # o => skipped'[q][r] = skipped[q][r]
  /\ stop_writing' \in [Process -> BOOLEAN]
  /\ CheckPid(p, o)

\* One more Write is skipped: both counters go up by one.
LEMMA WriteSkippedLeaves ==
  ASSUME Inv, LogFileAssumption, NEW p \in Process, NEW o \in Object,
         WriteSkipped(p, o)
  PROVE  Wrote(p, o)
<1> DEFINE w == Begun(p, o)
           r == [w.o EXCEPT !.attempt = @ + 1]
           v == [w EXCEPT !.o = r]
<1>1. /\ Fine(w) /\ SameFiles(Memory(p, o), w)
      /\ w.o.attempt \in {obj[p][o].attempt, Frequency - 1}
      /\ Changed(p, o) => w.o.file = 0
  BY BegunProperties DEF Inv
<1>2. w.o.file = 0 /\ w.o.attempt + 1 # Frequency
  BY DEF WriteSkipped, Skips
<1>3. Commit(p, o, v, {}) /\ CheckPid(p, o)
  BY DEF WriteSkipped
<1> HIDE DEF w
<1>4. w.o \in LogFileObject /\ w.o.attempt \in 0..(Frequency - 1)
  BY <1>1 DEF Fine, Work, LogFileObject
<1>5. w.o.attempt + 1 \in 0..(Frequency - 1) /\ w.o.attempt = obj[p][o].attempt
  BY <1>1, <1>2, <1>4 DEF LogFileAssumption
<1>6. r \in LogFileObject
  BY <1>4, <1>5, FieldProperties
<1>7. r.file = 0 /\ r.attempt = obj[p][o].attempt + 1
  BY <1>2, <1>4, <1>5 DEF LogFileObject
<1> HIDE DEF r
<1>8. Fine(v) /\ SameFiles(Memory(p, o), v) /\ v.o = r
  <2>1. r.file <= Len(w.disk)
    BY <1>1, <1>7 DEF Fine, Work
  <2> QED
    BY <1>1, <1>6, <2>1, ObjectProperties
<1> HIDE DEF v
<1>9. Len(disk) <= Len(v.disk)
  <2>1. Memory(p, o).disk = disk /\ Len(disk) \in Nat
    BY DEF Memory, Inv, TypeOK
  <2> QED
    BY <1>8, <2>1 DEF SameFiles
<1>10. Stored(p, o, v)
  BY <1>3, <1>8, <1>9, CommitProperties DEF Inv
<1>11. /\ skipped \in [Process -> [Object -> Nat]]
       /\ skipped' = [skipped EXCEPT ![p][o] = @ + 1]
       /\ skipped[p][o] <= obj[p][o].attempt /\ obj[p][o].attempt \in Nat
       /\ stop_writing' = stop_writing /\ stop_writing \in [Process -> BOOLEAN]
  <2>1. skipped' = [skipped EXCEPT ![p][o] = @ + 1]
        /\ stop_writing' = stop_writing
    BY DEF WriteSkipped
  <2>2. /\ skipped \in [Process -> [Object -> Nat]]
        /\ skipped[p][o] <= obj[p][o].attempt
        /\ stop_writing \in [Process -> BOOLEAN]
    BY DEF Inv, TypeOK, RetryInv
  <2> QED
    BY <1>4, <1>5, <2>1, <2>2
<1>12. skipped'[p][o] <= v.o.attempt
  BY <1>7, <1>8, <1>11
<1> QED
  BY <1>3, <1>7, <1>8, <1>10, <1>11, <1>12 DEF Wrote

\* An attempt that fails: both counters start over.
LEMMA WriteUncreatedLeaves ==
  ASSUME Inv, LogFileAssumption, NEW p \in Process, NEW o \in Object,
         NEW time, NEW refused, WriteUncreated(p, o, time, refused)
  PROVE  Wrote(p, o)
<1> DEFINE w == Begun(p, o)
           v == Failed(w)
<1>1. Fine(w) /\ SameFiles(Memory(p, o), w)
  BY BegunProperties DEF Inv
<1>2. w.o.file = 0
  BY DEF WriteUncreated
<1>3. Commit(p, o, v, {IF refused = {} THEN "exists" ELSE "refused"})
  BY DEF WriteUncreated
<1>4. Fine(v) /\ SameFiles(w, v) /\ v.o.attempt = 0 /\ v.o.file = 0
  BY <1>1, <1>2, FailedProperties
<1> HIDE DEF v
<1>5. Len(disk) <= Len(v.disk)
  BY <1>1, <1>4, MemoryProperties DEF SameFiles, Inv, TypeOK
<1>6. {IF refused = {} THEN "exists" ELSE "refused"} \in SUBSET Trouble
  BY DEF Trouble
<1>7. Stored(p, o, v)
  BY <1>3, <1>4, <1>5, <1>6, CommitProperties DEF Inv
<1>8. /\ skipped \in [Process -> [Object -> Nat]]
      /\ skipped' = [skipped EXCEPT ![p][o] = 0]
      /\ stop_writing' = stop_writing /\ stop_writing \in [Process -> BOOLEAN]
      /\ CheckPid(p, o)
  BY DEF WriteUncreated, Inv, TypeOK
<1>9. skipped'[p][o] <= v.o.attempt
  BY <1>4, <1>8
<1> QED
  BY <1>4, <1>7, <1>8, <1>9 DEF Wrote

\* Writing to the open file changes neither counter.
LEMMA WriteToFileLeaves ==
  ASSUME Inv, LogFileAssumption, NEW p \in Process, NEW o \in Object,
         NEW force, NEW lines \in Seq(Line),
         WriteToFile(p, o, force, lines)
  PROVE  Wrote(p, o)
<1> DEFINE w == Begun(p, o)
<1>1. /\ Fine(w) /\ SameFiles(Memory(p, o), w)
      /\ w.o.file # 0 => w.o.attempt = obj[p][o].attempt
      /\ Changed(p, o) => w.o.file = 0
  BY BegunProperties DEF Inv
<1>2. /\ w.o.file # 0 /\ CheckPid(p, o) /\ skipped' = skipped
      /\ Output(p, o, w, force, lines)
  BY DEF WriteToFile
<1> HIDE DEF w
<1>3. Len(disk) <= Len(w.disk)
  <2>1. Memory(p, o).disk = disk /\ Len(disk) \in Nat
    BY DEF Memory, Inv, TypeOK
  <2> QED
    BY <1>1, <2>1 DEF SameFiles
<1>4. /\ \E v : Stored(p, o, v) /\ SameObject(w, v)
      /\ stop_writing' \in [Process -> BOOLEAN]
  BY <1>1, <1>2, <1>3, OutputProperties DEF Inv
<1>5. PICK v : Stored(p, o, v) /\ SameObject(w, v)
  BY <1>4
<1>6. skipped \in [Process -> [Object -> Nat]]
  BY DEF Inv, TypeOK
<1>7. skipped'[p][o] <= v.o.attempt
  BY <1>1, <1>2, <1>5 DEF SameObject, Inv, RetryInv
<1> QED
  BY <1>1, <1>2, <1>4, <1>5, <1>6, <1>7 DEF Wrote

\* A new file has the pid of the process in its name.
LEMMA WriteToNewFileLeaves ==
  ASSUME Inv, LogFileAssumption, NEW p \in Process, NEW o \in Object,
         NEW force, NEW refused, NEW time \in 0..MaxTime,
         NEW lines \in Seq(Line),
         WriteToNewFile(p, o, force, time, lines, refused)
  PROVE  Wrote(p, o)
<1> DEFINE w == Begun(p, o)
<1>1. Fine(w) /\ SameFiles(Memory(p, o), w)
  BY BegunProperties DEF Inv
<1>2. CheckPid(p, o) /\ skipped' = [skipped EXCEPT ![p][o] = 0]
  BY DEF WriteToNewFile
<1>3. g_main_thread_pid'[p] \in Process
      /\ (Changed(p, o) => g_main_thread_pid'[p] = p)
  BY <1>2 DEF CheckPid, Inv, TypeOK
<1>4. PICK i \in 1..Len(Candidates(w.o)) :
        Output(p, o, Created(p, o, w, time, Candidates(w.o)[i]),
               force, lines)
  BY DEF WriteToNewFile, Creatable
<1> DEFINE u == Created(p, o, w, time, Candidates(w.o)[i])
<1> HIDE DEF w
<1>5. Candidates(w.o)[i] \in Place
  BY <1>1, CandidatesProperties DEF Fine, Work
<1>6. /\ Fine(u) /\ Len(u.disk) = Len(w.disk) + 1
      /\ u.o.file = Len(u.disk) /\ u.o.attempt = 0
      /\ u.disk[u.o.file].name.pid = g_main_thread_pid'[p]
  BY <1>1, <1>3, <1>5, CreatedProperties DEF Inv
<1> HIDE DEF u
<1>7. Len(disk) = Len(w.disk) /\ Len(w.disk) \in Nat
  BY <1>1, MemoryProperties DEF SameFiles, Inv, TypeOK, Fine, Work
<1>8. Output(p, o, u, force, lines) /\ Len(disk) <= Len(u.disk)
  BY <1>4, <1>6, <1>7 DEF u
<1>9. /\ \E v : Stored(p, o, v) /\ SameObject(u, v)
      /\ stop_writing' \in [Process -> BOOLEAN]
  BY <1>6, <1>8, OutputProperties DEF Inv
<1>10. PICK v : Stored(p, o, v) /\ SameObject(u, v)
  BY <1>9
<1>11. skipped \in [Process -> [Object -> Nat]]
  BY DEF Inv, TypeOK
<1>12. skipped'[p][o] <= v.o.attempt
  BY <1>2, <1>6, <1>10, <1>11 DEF SameObject
<1>13. Changed(p, o) => v.disk[v.o.file].name.pid = p
  <2>1. v.o.file = u.o.file /\ u.o.file \in 1..Len(u.disk)
    BY <1>6, <1>7, <1>10 DEF SameObject
  <2>2. v.disk[u.o.file].name = u.disk[u.o.file].name
    BY <1>10, <2>1 DEF SameObject, SameFiles
  <2> QED
    BY <1>3, <1>6, <2>1, <2>2
<1> QED
  BY <1>2, <1>9, <1>10, <1>11, <1>12, <1>13 DEF Wrote

\* Every way in which Write ends.
LEMMA WriteLeaves ==
  ASSUME Inv, LogFileAssumption, NEW p \in Process, NEW o \in Object,
         NEW force, NEW time \in 0..MaxTime, NEW lines \in Seq(Line),
         Write(p, o, force, time, lines)
  PROVE  WriteIgnored(p, o) \/ Wrote(p, o)
BY WriteSkippedLeaves, WriteUncreatedLeaves, WriteToFileLeaves,
   WriteToNewFileLeaves DEF Write

\* Every Write, whatever its message.
LEMMA WriteSteps ==
  ASSUME Inv, LogFileAssumption, NEW p \in Process, NEW o \in Object,
         WriteMessage(p, o) \/ WriteFlush(p, o)
  PROVE  WriteIgnored(p, o) \/ Wrote(p, o)
<1>1. CASE WriteMessage(p, o)
  <2>1. PICK force \in BOOLEAN, time \in {clock - 1, clock} \ {0},
             len \in MessageLen :
          /\ p \in alive /\ number < MaxMessages
          /\ Write(p, o, force, time,
                   <<[n |-> number + 1, by |-> p, at |-> clock, len |-> len]>>)
    BY <1>1 DEF WriteMessage
  <2>2. time \in 0..MaxTime
    BY DEF Inv, TypeOK, LogFileAssumption
  <2>3. <<[n |-> number + 1, by |-> p, at |-> clock, len |-> len]>>
          \in Seq(Line)
    <3>1. number + 1 \in 0..MaxMessages /\ clock \in 0..MaxTime /\ len \in Nat
      BY <2>1 DEF Inv, TypeOK, LogFileAssumption
    <3> QED
      BY <3>1 DEF Line
  <2> QED
    BY <2>1, <2>2, <2>3, WriteLeaves
<1>2. CASE WriteFlush(p, o)
  <2>1. Write(p, o, TRUE, 0, <<>>)
    BY <1>2 DEF WriteFlush
  <2>2. 0 \in 0..MaxTime /\ <<>> \in Seq(Line)
    BY DEF LogFileAssumption
  <2> QED
    BY <2>1, <2>2, WriteLeaves
<1> QED
  BY <1>1, <1>2

\* A call of the client closes the file at most, which it may reopen at once.
LEMMA ChangeSteps ==
  ASSUME Inv, LogFileAssumption, NEW p \in Process, NEW o \in Object,
         Flush(p, o) \/ SetBasename(p, o) \/ SetExtension(p, o)
  PROVE  \E v : /\ Stored(p, o, v)
                /\ v.o.attempt \in {obj[p][o].attempt, Frequency - 1}
                /\ Change(p, o, v)
<1> DEFINE m == Memory(p, o)
<1>1. /\ Fine(m) /\ SameFiles(m, m) /\ m.o = obj[p][o] /\ m.disk = disk
      /\ full \in BOOLEAN /\ clock \in Nat /\ LogBufSecs \in Nat
      /\ Len(disk) \in Nat
  BY MemoryProperties DEF Inv, TypeOK, LogFileAssumption
<1>2. ASSUME NEW v, Change(p, o, v), Fine(v), SameFiles(m, v)
      PROVE  Stored(p, o, v)
  <2> HIDE DEF m
  <2>1. Len(disk) <= Len(v.disk)
    BY <1>1, <1>2 DEF SameFiles
  <2>2. Commit(p, o, v, {}) /\ {} \in SUBSET Trouble
    BY <1>2 DEF Change
  <2> QED
    BY <1>2, <2>1, <2>2, CommitProperties DEF Inv
<1>3. /\ Fine(Renamed(m)) /\ SameFiles(m, Renamed(m))
      /\ Renamed(m).o.file = 0
      /\ Renamed(m).o.attempt \in {obj[p][o].attempt, Frequency - 1}
  <2> HIDE DEF m
  <2> QED
    BY <1>1, RenamedProperties
<1>4. CASE Flush(p, o)
  <2> DEFINE v == FlushUnlocked(m)
  <2>1. Change(p, o, v)
    BY <1>4 DEF Flush
  <2> HIDE DEF m
  <2>2. SameObject(m, v)
    BY <1>1, FlushProperties
  <2> HIDE DEF v
  <2> QED
    BY <1>1, <1>2, <2>1, <2>2 DEF SameObject
<1>5. CASE SetBasename(p, o)
  <2>1. PICK b \in Basename :
          Change(p, o, [IF obj[p][o].base # b THEN Renamed(m) ELSE m
                          EXCEPT !.o.selected = TRUE, !.o.base = b])
    BY <1>5 DEF SetBasename
  <2> DEFINE w == IF obj[p][o].base # b THEN Renamed(m) ELSE m
             r == [w.o EXCEPT !.selected = TRUE, !.base = b]
             v == [w EXCEPT !.o = r]
  <2>2. Change(p, o, v)
    BY <2>1
  <2> HIDE DEF m
  <2>3. /\ Fine(w) /\ SameFiles(m, w)
        /\ w.o.attempt \in {obj[p][o].attempt, Frequency - 1}
    BY <1>1, <1>3
  <2> HIDE DEF w
  <2>4. w.o \in LogFileObject /\ b \in Place /\ w.o.file <= Len(w.disk)
    BY <2>3 DEF Fine, Work, Place
  <2>5. r \in LogFileObject /\ r.file = w.o.file /\ r.attempt = w.o.attempt
    BY <2>4 DEF LogFileObject
  <2> HIDE DEF r
  <2>6. Fine(v) /\ SameFiles(m, v) /\ v.o = r
    BY <2>3, <2>4, <2>5, ObjectProperties
  <2> HIDE DEF v
  <2> QED
    BY <1>2, <2>2, <2>3, <2>5, <2>6
<1>6. CASE SetExtension(p, o)
  <2>1. PICK e \in Extension : Change(p, o, [Renamed(m) EXCEPT !.o.ext = e])
    BY <1>6 DEF SetExtension
  <2> DEFINE w == Renamed(m)
             r == [w.o EXCEPT !.ext = e]
             v == [w EXCEPT !.o = r]
  <2>2. Change(p, o, v)
    BY <2>1
  <2> HIDE DEF m
  <2>3. /\ Fine(w) /\ SameFiles(m, w)
        /\ w.o.attempt \in {obj[p][o].attempt, Frequency - 1}
    BY <1>1, <1>3
  <2> HIDE DEF w
  <2>4. w.o \in LogFileObject /\ w.o.file <= Len(w.disk)
    BY <2>3 DEF Fine, Work
  <2>5. r \in LogFileObject /\ r.file = w.o.file /\ r.attempt = w.o.attempt
    BY <2>4 DEF LogFileObject
  <2> HIDE DEF r
  <2>6. Fine(v) /\ SameFiles(m, v) /\ v.o = r
    BY <2>3, <2>4, <2>5, ObjectProperties
  <2> HIDE DEF v
  <2> QED
    BY <1>2, <2>2, <2>3, <2>5, <2>6
<1> QED
  BY <1>4, <1>5, <1>6

-----------------------------------------------------------------------------
(* The inductive invariant.                                                *)

\* A step of one process on one object keeps the invariant, whichever of the
\* two kinds it is.
LEMMA StoredStep ==
  ASSUME Inv, NEW p \in alive, NEW o \in Object, NEW v, Stored(p, o, v),
         skipped' \in [Process -> [Object -> Nat]],
         skipped'[p][o] <= v.o.attempt,
         \A q \in Process, r \in Object :
           q # p \/ r # o => skipped'[q][r] = skipped[q][r],
         g_main_thread_pid' \in
           {g_main_thread_pid, [g_main_thread_pid EXCEPT ![p] = p]},
         stop_writing' \in [Process -> BOOLEAN], UNCHANGED <<alive, full, clock>>,
         number' \in 0..MaxMessages, events' \in 0..MaxEvents,
         forkedAt' = forkedAt, accepted' \in [Object -> SUBSET (1..MaxMessages)]
  PROVE  Inv'
<1>1. p \in Process /\ TypeOK
  BY DEF Inv, TypeOK
<1>2. /\ obj' \in [Process -> [Object -> LogFileObject]]
      /\ disk' \in Seq(File)
      /\ \A q \in Process, r \in Object : obj'[q][r].file <= Len(disk')
      /\ obj'[p][o] = v.o
      /\ \A q \in Process, r \in Object :
           q # p \/ r # o => obj'[q][r] = obj[q][r]
  BY <1>1, StoredProperties
<1>3. troubles' \in SUBSET Trouble
  BY DEF Stored
<1>4. g_main_thread_pid' \in [Process -> Process]
  BY <1>1 DEF TypeOK
<1>5. TypeOK'
  BY <1>1, <1>2, <1>3, <1>4 DEF TypeOK
<1>6. RetryInv'
  BY ZenonT(60), <1>1, <1>2 DEF Inv, RetryInv
<1>7. PidInv'
  BY <1>1 DEF Inv, PidInv, TypeOK
<1> QED
  BY <1>5, <1>6, <1>7 DEF Inv

\* The invariant holds at the start.
LEMMA InitInv ==
  ASSUME LogFileAssumption, Init
  PROVE  Inv
<1>1. NewObject \in LogFileObject /\ NewObject.file = 0
      /\ NewObject.attempt = Frequency - 1
  <2>1. Frequency - 1 \in 0..(Frequency - 1) /\ 0 \in 0..(LengthModulus - 1)
    BY DEF LogFileAssumption
  <2>2. NoName \in Place /\ NoName \in Extension
    BY DEF LogFileAssumption, Place
  <2>3. <<>> \in Seq(Line)
    OBVIOUS
  <2> QED
    BY <2>1, <2>2, <2>3 DEF NewObject, LogFileObject
<1>2. /\ obj \in [Process -> [Object -> LogFileObject]]
      /\ \A p \in Process, o \in Object : obj[p][o] = NewObject
  BY <1>1 DEF Init
<1>3. disk \in Seq(File) /\ Len(disk) = 0
  BY EmptySeq DEF Init
<1>4. Parent \in Process /\ 1 \in 1..MaxTime /\ 0 \in 0..MaxMessages
      /\ 0 \in 0..MaxEvents /\ Frequency - 1 \in Nat
  BY DEF LogFileAssumption
<1>5. \A p \in Process, o \in Object : obj[p][o].file <= Len(disk)
  BY <1>1, <1>2, <1>3
<1>6. TypeOK
  BY <1>2, <1>3, <1>4, <1>5 DEF TypeOK, Init
<1>7. RetryInv /\ PidInv
  BY <1>1, <1>2, <1>4 DEF RetryInv, PidInv, Init
<1> QED
  BY <1>6, <1>7 DEF Inv

\* Every step keeps the invariant.
LEMMA NextInv ==
  ASSUME LogFileAssumption, Inv, [Next]_vars
  PROVE  Inv'
<1> USE DEF Inv
<1>1. ASSUME NEW p \in Process, NEW o \in Object,
             WriteMessage(p, o) \/ WriteFlush(p, o)
      PROVE  Inv'
  <2>1. /\ p \in alive /\ UNCHANGED <<alive, full, clock, forkedAt>>
        /\ number' \in 0..MaxMessages /\ events' \in 0..MaxEvents
        /\ accepted' \in [Object -> SUBSET (1..MaxMessages)]
    <3>1. CASE WriteMessage(p, o)
      <4>1. /\ p \in alive /\ number < MaxMessages /\ number' = number + 1
            /\ accepted' = IF Deselected(obj[p][o]) THEN accepted
                 ELSE [accepted EXCEPT ![o] = @ \cup {number + 1}]
            /\ UNCHANGED <<alive, full, clock, events, forkedAt>>
        BY <3>1 DEF WriteMessage
      <4>2. number + 1 \in 1..MaxMessages
        BY <4>1 DEF TypeOK, LogFileAssumption
      <4>3. accepted' \in [Object -> SUBSET (1..MaxMessages)]
        BY <4>1, <4>2 DEF TypeOK
      <4> QED
        BY <4>1, <4>2, <4>3 DEF TypeOK
    <3>2. CASE WriteFlush(p, o)
      BY <3>2 DEF WriteFlush, Event, TypeOK, LogFileAssumption
    <3> QED
      BY <1>1, <3>1, <3>2
  <2>2. CASE WriteIgnored(p, o)
    BY <2>1, <2>2 DEF WriteIgnored, TypeOK, RetryInv, PidInv
  <2>3. CASE Wrote(p, o)
    <3>1. PICK v : Stored(p, o, v) /\ skipped'[p][o] <= v.o.attempt
      BY <2>3 DEF Wrote
    <3>2. g_main_thread_pid' \in
            {g_main_thread_pid, [g_main_thread_pid EXCEPT ![p] = p]}
      BY <2>3 DEF Wrote, CheckPid, TypeOK
    <3>3. /\ skipped' \in [Process -> [Object -> Nat]]
          /\ \A q \in Process, r \in Object :
               q # p \/ r # o => skipped'[q][r] = skipped[q][r]
          /\ stop_writing' \in [Process -> BOOLEAN]
      BY <2>3 DEF Wrote
    <3> QED
      BY ZenonT(60), <2>1, <3>1, <3>2, <3>3, StoredStep
  <2> QED
    BY <1>1, <2>2, <2>3, WriteSteps
<1>2. ASSUME NEW p \in Process, NEW o \in Object,
             Flush(p, o) \/ SetBasename(p, o) \/ SetExtension(p, o)
      PROVE  Inv'
  <2>1. PICK v : /\ Stored(p, o, v)
                 /\ v.o.attempt \in {obj[p][o].attempt, Frequency - 1}
                 /\ Change(p, o, v)
    BY <1>2, ChangeSteps
  <2>2. /\ p \in alive /\ events' \in 0..MaxEvents
        /\ UNCHANGED <<stop_writing, g_main_thread_pid, alive, full, clock,
                       number, forkedAt, accepted, skipped>>
    BY <2>1 DEF Change, Event, TypeOK, LogFileAssumption
  <2>3. skipped[p][o] <= v.o.attempt
    <3>1. /\ obj[p][o].attempt \in 0..(Frequency - 1)
          /\ skipped[p][o] <= obj[p][o].attempt /\ skipped[p][o] \in Nat
      BY DEF TypeOK, RetryInv, LogFileObject
    <3>2. Frequency \in Nat
      BY DEF LogFileAssumption
    <3>3. skipped[p][o] <= Frequency - 1
      BY <3>1, <3>2
    <3> QED
      BY <2>1, <3>1, <3>3
  <2>4. /\ skipped' \in [Process -> [Object -> Nat]]
        /\ skipped'[p][o] <= v.o.attempt
        /\ number' \in 0..MaxMessages
        /\ accepted' \in [Object -> SUBSET (1..MaxMessages)]
        /\ stop_writing' \in [Process -> BOOLEAN]
    BY <2>2, <2>3 DEF TypeOK
  <2> QED
    BY <2>1, <2>2, <2>4, StoredStep
<1>3. ASSUME NEW p \in Process, NEW q \in Process, Fork(p, q)
      PROVE  Inv'
  <2>1. TypeOK'
    BY <1>3 DEF Fork, TypeOK
  <2>2. RetryInv'
    BY <1>3 DEF Fork, TypeOK, RetryInv
  <2>3. PidInv'
    BY <1>3 DEF Fork, TypeOK, PidInv
  <2> QED
    BY <2>1, <2>2, <2>3
<1>4. CASE Tick
  BY <1>4 DEF Tick, TypeOK, RetryInv, PidInv, LogFileAssumption
<1>5. CASE DiskFillsOrFrees
  BY <1>5 DEF DiskFillsOrFrees, Event, TypeOK, RetryInv, PidInv,
     LogFileAssumption
<1>6. CASE Stop \/ UNCHANGED vars
  BY <1>6 DEF Stop, vars, TypeOK, RetryInv, PidInv
<1> QED
  BY <1>1, <1>2, <1>3, <1>4, <1>5, <1>6 DEF Next
-----------------------------------------------------------------------------
(* The theorems.                                                           *)

\* The invariant holds of the log files of any processes and objects.
THEOREM FilesInvariance == Spec => []Inv
<1>1. Init => Inv
  BY InitInv, LogFileAssumption
<1>2. Inv /\ [Next]_vars => Inv'
  BY NextInv, LogFileAssumption
<1> QED
  BY <1>1, <1>2, PTL DEF Spec

\* The types of Logger.h are kept: an object that has a file open has one
\* that exists, and the rollover counter stays below its frequency.
THEOREM FilesTypeCorrect == Spec => []TypeOK
<1>1. Inv => TypeOK
  BY DEF Inv
<1> QED
  BY <1>1, FilesInvariance, PTL

\* Whatever fails, is renamed, rolled over or forked, the creation of a file
\* is tried again after at most Frequency messages (Logger.cc:216-222).
THEOREM RetriedInTime == Spec => []RetryBound
<1>1. Inv => RetryBound
  <2>1. ASSUME Inv, NEW p \in Process, NEW o \in Object
        PROVE  skipped[p][o] < Frequency
    <3>1. /\ obj[p][o].attempt \in 0..(Frequency - 1)
          /\ skipped[p][o] <= obj[p][o].attempt /\ skipped[p][o] \in Nat
      BY <2>1 DEF Inv, TypeOK, RetryInv, LogFileObject
    <3> QED
      BY <3>1, LogFileAssumption DEF LogFileAssumption
  <2> QED
    BY <2>1 DEF RetryBound
<1> QED
  BY <1>1, FilesInvariance, PTL

\* The Write that notices a fork leaves the file of the parent
\* (Logger.cc:208-214, utilities.cc:250-257).
THEOREM ForkIsNoticed == Spec => ForkNoticed
<1>1. ASSUME Inv, [Next]_vars, NEW q \in Process, NEW r \in Object,
             g_main_thread_pid[q] # q, g_main_thread_pid'[q] = q,
             obj'[q][r] # obj[q][r]
      PROVE  obj'[q][r].file = 0 \/ disk'[obj'[q][r].file].name.pid = q
  <2>1. ASSUME NEW p \in Process, NEW o \in Object,
               WriteMessage(p, o) \/ WriteFlush(p, o)
        PROVE  obj'[q][r].file = 0 \/ disk'[obj'[q][r].file].name.pid = q
    <3>1. ~WriteIgnored(p, o)
      BY <1>1 DEF WriteIgnored
    <3>2. Wrote(p, o)
      BY <1>1, <2>1, <3>1, WriteSteps, LogFileAssumption
    <3>3. PICK v : /\ Stored(p, o, v)
                   /\ Changed(p, o) => \/ v.o.file = 0
                                       \/ v.disk[v.o.file].name.pid = p
      BY <3>2 DEF Wrote
    <3>4. q = p /\ Changed(p, o)
      BY <1>1, <3>2 DEF Wrote, CheckPid, Inv, TypeOK
    <3>5. /\ obj'[p][o] = v.o
          /\ \A x \in Process, y \in Object :
               x # p \/ y # o => obj'[x][y] = obj[x][y]
      BY <1>1, <3>3, StoredProperties DEF Inv
    <3>6. r = o /\ disk' = v.disk
      BY <1>1, <3>3, <3>4, <3>5 DEF Stored
    <3> QED
      BY <3>3, <3>4, <3>5, <3>6
  <2>2. ASSUME NEW p \in Process, NEW o \in Object,
               Flush(p, o) \/ SetBasename(p, o) \/ SetExtension(p, o)
        PROVE  FALSE
    BY <1>1, <2>2 DEF Flush, SetBasename, SetExtension, Change
  <2>3. ASSUME NEW p \in Process, NEW x \in Process, Fork(p, x)
        PROVE  FALSE
    BY <1>1, <2>3 DEF Fork, Inv, TypeOK, PidInv
  <2>4. CASE Tick \/ DiskFillsOrFrees \/ Stop \/ UNCHANGED vars
    BY <1>1, <2>4 DEF Tick, DiskFillsOrFrees, Stop, vars
  <2> QED
    BY <1>1, <2>1, <2>2, <2>3, <2>4 DEF Next
<1>2. Inv /\ [Next]_vars =>
        [\A p \in Process, o \in Object :
           g_main_thread_pid[p] # p /\ g_main_thread_pid'[p] = p
             /\ obj'[p][o] # obj[p][o]
           => obj'[p][o].file = 0
                \/ disk'[obj'[p][o].file].name.pid = p]_vars
  BY <1>1
<1> QED
  BY <1>2, FilesInvariance, PTL DEF Spec, ForkNoticed
=============================================================================
