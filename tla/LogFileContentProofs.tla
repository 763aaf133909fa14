------------------------- MODULE LogFileContentProofs -------------------------
(***************************************************************************)
(* Proofs about what the log files contain: the lines of a process are in  *)
(* the order in which they were written, nothing is lost unless the disk   *)
(* or the creation of a file failed, no two messages far apart wait in a   *)
(* buffer, without forks no file goes over its limit by more than part of  *)
(* its last message, and the flush of a FATAL message leaves nothing       *)
(* buffered.                                                               *)
(***************************************************************************)
EXTENDS LogFileProofs

\* The lines that process p wrote for object o alone are in the right order
\* on the disk, in the buffer of w, and there after those on the disk.  They
\* are in no file after the one that is open, for the buffer goes there; b is
\* the last number given to a message.
DiskOrdered(d) ==
  \A i, j \in 1..Len(d) :
    \A k \in 1..Len(d[i].lines), l \in 1..Len(d[j].lines) :
      /\ i < j \/ (i = j /\ k < l)
      /\ d[i].of = d[j].of
      /\ d[i].lines[k].by = d[j].lines[l].by
      /\ Own(d[i].lines[k]) /\ Own(d[j].lines[l])
      => d[i].lines[k].n < d[j].lines[l].n
Bounded(b, d) ==
  \A i \in 1..Len(d) : \A k \in 1..Len(d[i].lines) : d[i].lines[k].n <= b
BufferOrdered(p, b, f) ==
  /\ \A k \in 1..Len(f) : f[k].n <= b /\ (Own(f[k]) => f[k].by = p)
  /\ \A k, l \in 1..Len(f) :
       k < l /\ Own(f[k]) /\ Own(f[l]) => f[k].n < f[l].n
After(p, o, d, r) ==
  \A i \in 1..Len(d) : \A k \in 1..Len(d[i].lines) :
    /\ d[i].of = o /\ d[i].lines[k].by = p /\ Own(d[i].lines[k])
    => /\ r.file # 0 => i <= r.file
       /\ \A l \in 1..Len(r.buffer) :
            Own(r.buffer[l]) => d[i].lines[k].n < r.buffer[l].n
OwnFile(o, d, r) == IF r.file = 0 THEN r.buffer = <<>> ELSE d[r.file].of = o
Ordered(p, o, b, w) ==
  /\ DiskOrdered(w.disk) /\ Bounded(b, w.disk)
  /\ BufferOrdered(p, b, w.o.buffer)
  /\ After(p, o, w.disk, w.o)
  /\ OwnFile(o, w.disk, w.o)

\* From disk d to disk e files and lines are only added, and of the lines that
\* one process alone has had only those of p, in files of o; no other file
\* gets longer.
Grown(p, o, d, e) ==
  /\ Len(d) <= Len(e)
  /\ \A i \in 1..Len(d) :
       /\ e[i].of = d[i].of /\ Len(d[i].lines) <= Len(e[i].lines)
       /\ d[i].of # o => e[i].size = d[i].size
       /\ \A k \in 1..Len(d[i].lines) : e[i].lines[k] = d[i].lines[k]
  /\ \A i \in 1..Len(e) : \A k \in 1..Len(e[i].lines) :
       \/ i <= Len(d) /\ k <= Len(d[i].lines)
       \/ e[i].of = o /\ (Own(e[i].lines[k]) => e[i].lines[k].by = p)

\* Where message n can be found.
OnDisk(o, d, n) ==
  \E i \in 1..Len(d) :
    d[i].of = o /\ \E k \in 1..Len(d[i].lines) : d[i].lines[k].n = n
InBuffer(f, n) == \E k \in 1..Len(f) : f[k].n = n
Holds(o, w, n) == OnDisk(o, w.disk, n) \/ InBuffer(w.o.buffer, n)

\* The messages in the buffer are those of the LogBufSecs before next.
Spanned(w) ==
  /\ w.o.next - LogBufSecs <= clock
  /\ \A k \in 1..Len(w.o.buffer) :
       w.o.buffer[k].n > 0 => /\ w.o.next - LogBufSecs <= w.o.buffer[k].at
                              /\ w.o.buffer[k].at < w.o.next

\* v is what a part of Write, up to message c, makes of w, up to message b.
Advances(p, o, b, c, w, v) ==
  /\ Fine(v)
  /\ w.lost => v.lost
  /\ Ordered(p, o, b, w) =>
       /\ Ordered(p, o, c, v) /\ Grown(p, o, w.disk, v.disk)
       /\ ~v.lost => \A n \in Nat : Holds(o, w, n) => Holds(o, v, n)

-----------------------------------------------------------------------------
(* Lemmas about the parts of Write.                                        *)

\* What the numbers of lines are.
LEMMA BufferTypes ==
  ASSUME NEW f \in Seq(Line)
  PROVE  /\ Len(f) \in Nat
         /\ \A k \in 1..Len(f) : f[k] \in Line /\ f[k].n \in Nat
<1>1. ASSUME NEW k \in 1..Len(f)
      PROVE  f[k] \in Line /\ f[k].n \in Nat
  <2>1. f[k] \in Line
    BY ElementOfSeq
  <2> QED
    BY <2>1 DEF Line
<1> QED
  BY <1>1

\* What the lines of files are.
LEMMA DiskTypes ==
  ASSUME NEW d \in Seq(File)
  PROVE  /\ Len(d) \in Nat
         /\ \A i \in 1..Len(d) :
              /\ d[i] \in File /\ d[i].lines \in Seq(Line)
              /\ Len(d[i].lines) \in Nat
              /\ \A k \in 1..Len(d[i].lines) :
                   d[i].lines[k] \in Line /\ d[i].lines[k].n \in Nat
<1>1. ASSUME NEW i \in 1..Len(d)
      PROVE  /\ d[i] \in File /\ d[i].lines \in Seq(Line)
             /\ Len(d[i].lines) \in Nat
             /\ \A k \in 1..Len(d[i].lines) :
                  d[i].lines[k] \in Line /\ d[i].lines[k].n \in Nat
  <2>1. d[i] \in File
    BY ElementOfSeq
  <2>2. d[i].lines \in Seq(Line)
    BY <2>1 DEF File
  <2> QED
    BY <2>1, <2>2, BufferTypes
<1> QED
  BY <1>1

\* One part after the other.
LEMMA AdvancesTwice ==
  ASSUME NEW p, NEW o, NEW b, NEW c, NEW e, NEW w, NEW u, NEW v,
         Fine(w), Advances(p, o, b, c, w, u), Advances(p, o, c, e, u, v)
  PROVE  Advances(p, o, b, e, w, v)
<1>1. ASSUME Ordered(p, o, b, w)
      PROVE  Ordered(p, o, e, v) /\ Grown(p, o, w.disk, v.disk)
  <2>1. /\ Ordered(p, o, e, v)
        /\ Grown(p, o, w.disk, u.disk) /\ Grown(p, o, u.disk, v.disk)
    BY <1>1 DEF Advances
  <2> DEFINE d == w.disk
             f == u.disk
             g == v.disk
  <2>2. d \in Seq(File) /\ f \in Seq(File) /\ g \in Seq(File)
    BY DEF Advances, Fine, Work
  <2>3. Grown(p, o, d, f) /\ Grown(p, o, f, g)
    BY <2>1
  <2>4. \A h \in {d, f, g} : \A i \in 1..Len(h) : h[i].lines \in Seq(Line)
    BY <2>2, DiskTypes
  <2> HIDE DEF d, f, g
  <2>5. Len(d) \in Nat /\ Len(f) \in Nat /\ Len(g) \in Nat
    BY <2>2
  <2>6. \A i \in 1..Len(d) :
          /\ g[i].of = d[i].of /\ Len(d[i].lines) <= Len(g[i].lines)
          /\ d[i].of # o => g[i].size = d[i].size
          /\ \A k \in 1..Len(d[i].lines) : g[i].lines[k] = d[i].lines[k]
    <3> SUFFICES ASSUME NEW i \in 1..Len(d)
                 PROVE  /\ g[i].of = d[i].of
                        /\ Len(d[i].lines) <= Len(g[i].lines)
                        /\ d[i].of # o => g[i].size = d[i].size
                        /\ \A k \in 1..Len(d[i].lines) :
                             g[i].lines[k] = d[i].lines[k]
      OBVIOUS
    <3>1. i \in 1..Len(f) /\ i \in 1..Len(g)
      BY <2>3, <2>5 DEF Grown
    <3>2. /\ Len(d[i].lines) \in Nat /\ Len(f[i].lines) \in Nat
          /\ Len(g[i].lines) \in Nat
      BY <2>4, <3>1
    <3> QED
      BY SMTT(60), <2>3, <3>1, <3>2 DEF Grown
  <2>7. ASSUME NEW i \in 1..Len(g), NEW k \in 1..Len(g[i].lines)
        PROVE  \/ i <= Len(d) /\ k <= Len(d[i].lines)
               \/ g[i].of = o /\ (Own(g[i].lines[k]) => g[i].lines[k].by = p)
    <3>1. \/ i <= Len(f) /\ k <= Len(f[i].lines)
          \/ g[i].of = o /\ (Own(g[i].lines[k]) => g[i].lines[k].by = p)
      BY <2>3 DEF Grown
    <3>2. CASE i <= Len(f) /\ k <= Len(f[i].lines)
      <4>1. i \in 1..Len(f)
        BY <2>5, <3>2
      <4>2. Len(f[i].lines) \in Nat /\ Len(g[i].lines) \in Nat
        BY <2>4, <4>1
      <4>3. k \in 1..Len(f[i].lines)
        BY <3>2, <4>2
      <4>4. g[i].of = f[i].of /\ g[i].lines[k] = f[i].lines[k]
        BY <2>3, <4>1, <4>3 DEF Grown
      <4>5. \/ i <= Len(d) /\ k <= Len(d[i].lines)
            \/ f[i].of = o /\ (Own(f[i].lines[k]) => f[i].lines[k].by = p)
        BY <2>3, <4>1, <4>3 DEF Grown
      <4> QED
        BY <4>4, <4>5
    <3> QED
      BY <3>1, <3>2
  <2>8. Len(d) <= Len(g)
    BY <2>3, <2>5 DEF Grown
  <2>9. Grown(p, o, d, g)
    BY <2>6, <2>7, <2>8 DEF Grown
  <2> QED
    BY <2>1, <2>9 DEF d, g
<1>2. Fine(v) /\ (w.lost => v.lost)
  BY DEF Advances
<1>3. ASSUME Ordered(p, o, b, w), ~v.lost, NEW n \in Nat, Holds(o, w, n)
      PROVE  Holds(o, v, n)
  BY <1>3 DEF Advances
<1> QED
  BY <1>1, <1>2, <1>3 DEF Advances

\* What may change besides the file, the buffer and the disk matters to no
\* line; the number of the last message may grow.
LEMMA AdvancesAside ==
  ASSUME NEW p, NEW o, NEW b \in Nat, NEW c \in Nat, b <= c, NEW w, NEW v,
         Fine(w), Fine(v), v.disk = w.disk, v.o.buffer = w.o.buffer,
         v.o.file = w.o.file, w.lost => v.lost
  PROVE  Advances(p, o, b, c, w, v)
<1> DEFINE d == w.disk
           f == w.o.buffer
<1>1. d \in Seq(File) /\ f \in Seq(Line)
  BY DEF Fine, Work, LogFileObject
<1>2. /\ \A i \in 1..Len(d) : d[i].lines \in Seq(Line)
      /\ \A i \in 1..Len(d) : \A k \in 1..Len(d[i].lines) :
           d[i].lines[k].n \in Nat
      /\ \A k \in 1..Len(f) : f[k].n \in Nat
  BY <1>1, BufferTypes, DiskTypes
<1> HIDE DEF d, f
<1>3. Bounded(b, d) => Bounded(c, d)
  <2> SUFFICES ASSUME Bounded(b, d), NEW i \in 1..Len(d),
                      NEW k \in 1..Len(d[i].lines)
               PROVE  d[i].lines[k].n <= c
    BY DEF Bounded
  <2>1. d[i].lines[k].n <= b /\ d[i].lines[k].n \in Nat
    BY <1>2 DEF Bounded
  <2> QED
    BY <2>1
<1>4. BufferOrdered(p, b, f) => BufferOrdered(p, c, f)
  <2> SUFFICES ASSUME BufferOrdered(p, b, f), NEW k \in 1..Len(f)
               PROVE  f[k].n <= c
    BY DEF BufferOrdered
  <2>1. f[k].n <= b /\ f[k].n \in Nat
    BY <1>2 DEF BufferOrdered
  <2> QED
    BY <2>1
<1>5. Grown(p, o, d, d)
  <2>1. Len(d) \in Nat /\ \A i \in 1..Len(d) : Len(d[i].lines) \in Nat
    BY <1>1, <1>2
  <2> QED
    BY <2>1 DEF Grown
<1>6. Ordered(p, o, b, w) => Ordered(p, o, c, v)
  BY <1>3, <1>4 DEF Ordered, After, OwnFile, d, f
<1>7. \A n \in Nat : Holds(o, w, n) => Holds(o, v, n)
  BY DEF Holds
<1> QED
  BY <1>5, <1>6, <1>7 DEF Advances, d
\* What writing a buffer out does: it is lost or appended to the open file.
LEMMA DrainEffect ==
  ASSUME NEW w, Fine(w), full \in BOOLEAN
  PROVE  LET v == Drain(w) IN
         /\ Fine(v) /\ v.o = [w.o EXCEPT !.buffer = <<>>, !.pending = 0]
         /\ \/ v.disk = w.disk /\ (w.o.file # 0 /\ w.o.buffer # <<>> => v.lost)
            \/ /\ w.o.file # 0 /\ Len(v.disk) = Len(w.disk)
               /\ v.lost = w.lost /\ w.o.buffer # <<>>
               /\ \A i \in 1..Len(w.disk) :
                    /\ v.disk[i].of = w.disk[i].of
                    /\ v.disk[i].lines =
                         IF i = w.o.file THEN w.disk[i].lines \o w.o.buffer
                         ELSE w.disk[i].lines
                    /\ v.disk[i].size =
                         IF i = w.o.file THEN w.disk[i].size + w.o.pending
                         ELSE w.disk[i].size
         /\ w.lost => v.lost
<1> DEFINE k == w.o.file
           f == w.disk[k].lines \o w.o.buffer
           n == w.disk[k].size + w.o.pending
           e == [w.disk[k] EXCEPT !.lines = f, !.size = n]
           d == [w.disk EXCEPT ![k] = e]
           v == Drain(w)
<1>1. Fine(v)
  BY DrainProperties DEF SameObject
<1>2. w \in Work /\ w.o \in LogFileObject /\ w.disk \in Seq(File)
      /\ k \in Nat /\ k <= Len(w.disk)
  BY DEF Fine, Work, LogFileObject
<1>3. CASE full \/ w.o.buffer = <<>>
  <2>1. v = [w EXCEPT !.o.buffer = <<>>, !.o.pending = 0,
                       !.lost = @ \/ w.o.buffer # <<>>]
    BY <1>3 DEF Drain
  <2> HIDE DEF v
  <2>2. /\ v.o = [w.o EXCEPT !.buffer = <<>>, !.pending = 0]
        /\ v.disk = w.disk
        /\ v.lost = (w.lost \/ w.o.buffer # <<>>)
    BY <1>2, <2>1 DEF Work, LogFileObject
  <2> QED
    BY <1>1, <2>2 DEF v
<1>4. CASE ~(full \/ w.o.buffer = <<>>)
  <2>1. v = [w EXCEPT !.disk = d, !.o.buffer = <<>>, !.o.pending = 0]
    <3>1. v = [w EXCEPT !.disk[k] = e, !.o.buffer = <<>>, !.o.pending = 0]
      BY <1>4 DEF Drain
    <3> HIDE DEF e, v
    <3> QED
      BY <3>1
  <2> HIDE DEF v, f, n, e, d
  <2>2. /\ v.o = [w.o EXCEPT !.buffer = <<>>, !.pending = 0]
        /\ v.lost = w.lost /\ v.disk = d
    BY <1>2, <2>1 DEF Work, LogFileObject
  <2>3. CASE k = 0
    <3>1. DOMAIN w.disk = 1..Len(w.disk) /\ 0 \notin 1..Len(w.disk)
      BY <1>2
    <3>2. d = w.disk
      BY <1>2, <2>3, <3>1 DEF d
    <3> QED
      BY <1>1, <2>2, <2>3, <3>2 DEF v
  <2>4. CASE k # 0
    <3>1. k \in 1..Len(w.disk) /\ w.disk[k] \in File
      BY <1>2, <2>4, ElementOfSeq
    <3>2. e.of = w.disk[k].of /\ e.lines = f /\ e.size = n
      BY <3>1 DEF File, e
    <3>4. /\ Len(d) = Len(w.disk)
          /\ \A i \in 1..Len(w.disk) : d[i] = IF i = k THEN e ELSE w.disk[i]
      BY <1>2, <3>1 DEF d
    <3>5. \A i \in 1..Len(w.disk) :
            /\ v.disk[i].of = w.disk[i].of
            /\ v.disk[i].lines = IF i = k THEN w.disk[i].lines \o w.o.buffer
                                 ELSE w.disk[i].lines
            /\ v.disk[i].size = IF i = k THEN w.disk[i].size + w.o.pending
                                ELSE w.disk[i].size
      BY <2>2, <3>2, <3>4 DEF f, n
    <3> QED
      BY <1>1, <1>4, <2>2, <2>4, <3>4, <3>5 DEF v
  <2> QED
    BY <2>3, <2>4
<1> QED
  BY <1>3, <1>4

\* Every line of a disk on which buffer f was appended to file a: an old one,
\* or one of the buffer.
LEMMA AppendedLines ==
  ASSUME NEW d \in Seq(File), NEW e \in Seq(File), NEW f \in Seq(Line),
         NEW a \in 1..Len(d), Len(e) = Len(d),
         e[a].lines = d[a].lines \o f,
         \A i \in 1..Len(d) : i # a => e[i].lines = d[i].lines
  PROVE  /\ \A i \in 1..Len(d) : \A k \in 1..Len(d[i].lines) :
              k \in 1..Len(e[i].lines) /\ e[i].lines[k] = d[i].lines[k]
         /\ \A m \in 1..Len(f) :
              /\ Len(d[a].lines) + m \in 1..Len(e[a].lines)
              /\ e[a].lines[Len(d[a].lines) + m] = f[m]
         /\ \A i \in 1..Len(e) : \A k \in 1..Len(e[i].lines) :
              \/ k \in 1..Len(d[i].lines) /\ e[i].lines[k] = d[i].lines[k]
              \/ /\ i = a /\ k - Len(d[a].lines) \in 1..Len(f)
                 /\ e[i].lines[k] = f[k - Len(d[a].lines)]
<1>1. /\ Len(d) \in Nat /\ Len(f) \in Nat
      /\ \A i \in 1..Len(d) : d[i].lines \in Seq(Line) /\ Len(d[i].lines) \in Nat
  BY DiskTypes, BufferTypes
<1> DEFINE g == d[a].lines
<1>2. g \in Seq(Line) /\ Len(g) \in Nat /\ e[a].lines = g \o f
  BY <1>1
<1>3. /\ Len(g \o f) = Len(g) + Len(f)
      /\ \A k \in 1..(Len(g) + Len(f)) :
           (g \o f)[k] = IF k <= Len(g) THEN g[k] ELSE f[k - Len(g)]
  BY <1>1, <1>2, ConcatProperties
<1>4. \A i \in 1..Len(d) : i # a => e[i].lines = d[i].lines
  OBVIOUS
<1>5. ASSUME NEW i \in 1..Len(d), NEW k \in 1..Len(d[i].lines)
      PROVE  k \in 1..Len(e[i].lines) /\ e[i].lines[k] = d[i].lines[k]
  <2>1. CASE i = a
    <3>1. k \in 1..Len(g) /\ k \in 1..(Len(g) + Len(f))
      BY <1>1, <2>1
    <3> QED
      BY <1>2, <1>3, <2>1, <3>1
  <2> QED
    BY <1>4, <2>1
<1>6. ASSUME NEW m \in 1..Len(f)
      PROVE  /\ Len(g) + m \in 1..Len(e[a].lines)
             /\ e[a].lines[Len(g) + m] = f[m]
  <2> HIDE DEF g
  <2>1. /\ Len(g) + m \in 1..(Len(g) + Len(f)) /\ ~(Len(g) + m <= Len(g))
        /\ (Len(g) + m) - Len(g) = m
    BY <1>1, <1>2
  <2> QED
    BY <1>2, <1>3, <2>1
<1>7. ASSUME NEW i \in 1..Len(e), NEW k \in 1..Len(e[i].lines)
      PROVE  \/ k \in 1..Len(d[i].lines) /\ e[i].lines[k] = d[i].lines[k]
             \/ /\ i = a /\ k - Len(g) \in 1..Len(f)
                /\ e[i].lines[k] = f[k - Len(g)]
  <2>1. CASE i = a
    <3>1. k \in 1..(Len(g) + Len(f))
      BY <1>2, <1>3, <2>1
    <3> HIDE DEF g
    <3>2. \/ k \in 1..Len(g)
          \/ ~(k <= Len(g)) /\ k - Len(g) \in 1..Len(f)
      BY <1>1, <1>2, <3>1
    <3>3. k <= Len(g) => e[i].lines[k] = g[k]
      BY <1>2, <1>3, <2>1, <3>1
    <3>4. ~(k <= Len(g)) => e[i].lines[k] = f[k - Len(g)]
      BY <1>2, <1>3, <2>1, <3>1
    <3> QED
      BY <2>1, <3>2, <3>3, <3>4 DEF g
  <2> QED
    BY <1>4, <2>1
<1> QED
  BY <1>5, <1>6, <1>7

\* Writing the buffer out keeps the order, adds lines and loses none silently.
LEMMA AdvancesDrain ==
  ASSUME NEW p, NEW o, NEW b \in Nat, NEW w, Fine(w), full \in BOOLEAN
  PROVE  Advances(p, o, b, b, w, Drain(w))
<1> DEFINE v == Drain(w)
           d == w.disk
           e == v.disk
           f == w.o.buffer
           a == w.o.file
<1>1. /\ Fine(v) /\ v.o = [w.o EXCEPT !.buffer = <<>>, !.pending = 0]
      /\ \/ e = d /\ (a # 0 /\ f # <<>> => v.lost)
         \/ /\ a # 0 /\ Len(e) = Len(d)
            /\ \A i \in 1..Len(d) :
                 /\ e[i].of = d[i].of
                 /\ e[i].lines = IF i = a THEN d[i].lines \o f ELSE d[i].lines
                 /\ i # a => e[i].size = d[i].size
      /\ w.lost => v.lost
  BY DrainEffect
<1> HIDE DEF v
<1>2. /\ d \in Seq(File) /\ e \in Seq(File) /\ f \in Seq(Line) /\ a \in Nat
      /\ a <= Len(d) /\ w.o \in LogFileObject
  BY <1>1 DEF Fine, Work, LogFileObject
<1>3. v.o.buffer = <<>> /\ v.o.file = a
  BY <1>1, <1>2 DEF LogFileObject
<1>4. SUFFICES ASSUME Ordered(p, o, b, w)
               PROVE  /\ Ordered(p, o, b, v) /\ Grown(p, o, d, e)
                      /\ ~v.lost => \A n \in Nat : Holds(o, w, n) => Holds(o, v, n)
  BY <1>1 DEF Advances, v
<1>5. /\ DiskOrdered(d) /\ Bounded(b, d) /\ BufferOrdered(p, b, f)
      /\ After(p, o, d, w.o) /\ OwnFile(o, d, w.o)
  BY <1>4 DEF Ordered
<1>6. BufferOrdered(p, b, <<>>)
  BY DEF BufferOrdered
<1>7. CASE e = d /\ (a # 0 /\ f # <<>> => v.lost)
  <2>1. Grown(p, o, d, e)
    <3>1. Len(d) \in Nat /\ \A i \in 1..Len(d) : Len(d[i].lines) \in Nat
      BY <1>2, DiskTypes
    <3> QED
      BY <1>7, <3>1 DEF Grown
  <2>2. After(p, o, e, v.o) /\ OwnFile(o, e, v.o)
    BY <1>3, <1>5, <1>7 DEF After, OwnFile
  <2>3. Ordered(p, o, b, v)
    BY <1>3, <1>5, <1>6, <1>7, <2>2 DEF Ordered
  <2>4. ~v.lost => \A n \in Nat : Holds(o, w, n) => Holds(o, v, n)
    <3>1. f # <<>> => v.lost
      BY <1>5, <1>7 DEF OwnFile
    <3> QED
      BY <1>3, <1>7, <3>1 DEF Holds
  <2> QED
    BY <2>1, <2>3, <2>4
<1>9. CASE /\ a # 0 /\ Len(e) = Len(d)
           /\ \A i \in 1..Len(d) :
                /\ e[i].of = d[i].of
                /\ e[i].lines = IF i = a THEN d[i].lines \o f ELSE d[i].lines
                /\ i # a => e[i].size = d[i].size
  <2>1. a \in 1..Len(d)
    BY <1>2, <1>9, DiskTypes
  <2>1a. d[a].of = o
    BY <1>5, <1>9 DEF OwnFile
  <2>1b. /\ Len(e) = Len(d)
         /\ e[a].lines = d[a].lines \o f
         /\ \A i \in 1..Len(d) : i # a => e[i].lines = d[i].lines
    BY <1>9, <2>1
  <2>1c. \A i \in 1..Len(d) : d[i].of # o => e[i].size = d[i].size
    BY <1>9, <2>1a
  <2> HIDE DEF d, e, f, a
  <2>2. /\ \A i \in 1..Len(d) : \A k \in 1..Len(d[i].lines) :
             k \in 1..Len(e[i].lines) /\ e[i].lines[k] = d[i].lines[k]
        /\ \A m \in 1..Len(f) :
             /\ Len(d[a].lines) + m \in 1..Len(e[a].lines)
             /\ e[a].lines[Len(d[a].lines) + m] = f[m]
        /\ \A i \in 1..Len(e) : \A k \in 1..Len(e[i].lines) :
             \/ k \in 1..Len(d[i].lines) /\ e[i].lines[k] = d[i].lines[k]
             \/ /\ i = a /\ k - Len(d[a].lines) \in 1..Len(f)
                /\ e[i].lines[k] = f[k - Len(d[a].lines)]
    BY ZenonT(60), <1>2, <2>1, <2>1b, AppendedLines
  <2>3. /\ Len(d) \in Nat /\ Len(f) \in Nat
        /\ \A i \in 1..Len(d) : Len(d[i].lines) \in Nat /\ Len(e[i].lines) \in Nat
    BY <1>2, <1>9, DiskTypes, BufferTypes
  <2>4. /\ Len(e) = Len(d) /\ \A i \in 1..Len(d) : e[i].of = d[i].of
        /\ d[a].of = o
    BY <1>9, <2>1a
  <2>5. DiskOrdered(e)
    <3> SUFFICES ASSUME NEW i \in 1..Len(e), NEW j \in 1..Len(e),
                        NEW k \in 1..Len(e[i].lines),
                        NEW l \in 1..Len(e[j].lines),
                        i < j \/ (i = j /\ k < l), e[i].of = e[j].of,
                        e[i].lines[k].by = e[j].lines[l].by,
                        Own(e[i].lines[k]), Own(e[j].lines[l])
                 PROVE  e[i].lines[k].n < e[j].lines[l].n
      BY ZenonT(60) DEF DiskOrdered
    <3> DEFINE x == e[i].lines[k]
               y == e[j].lines[l]
               c == Len(d[a].lines)
    <3>1. /\ i \in 1..Len(d) /\ j \in 1..Len(d) /\ d[i].of = d[j].of
          /\ d[i].of = e[i].of /\ c \in Nat
      BY <2>1, <2>3, <2>4
    <3>2. \/ k \in 1..Len(d[i].lines) /\ x = d[i].lines[k]
          \/ i = a /\ k - c \in 1..Len(f) /\ x = f[k - c]
      BY <2>2
    <3>3. \/ l \in 1..Len(d[j].lines) /\ y = d[j].lines[l]
          \/ j = a /\ l - c \in 1..Len(f) /\ y = f[l - c]
      BY <2>2
    <3>4. x.by = y.by /\ Own(x) /\ Own(y)
      OBVIOUS
    <3> HIDE DEF x, y, c
    <3>5. CASE /\ k \in 1..Len(d[i].lines) /\ x = d[i].lines[k]
               /\ l \in 1..Len(d[j].lines) /\ y = d[j].lines[l]
      <4>1. x.n < y.n
        BY <1>5, <3>1, <3>4, <3>5 DEF DiskOrdered
      <4> QED
        BY <4>1 DEF x, y
    <3>6. CASE /\ k \in 1..Len(d[i].lines) /\ x = d[i].lines[k]
               /\ j = a /\ l - c \in 1..Len(f) /\ y = f[l - c]
      <4>1. y.by = p
        BY <1>5, <3>4, <3>6 DEF BufferOrdered
      <4>2. d[i].of = o /\ x.by = p
        BY <2>4, <3>1, <3>4, <3>6, <4>1
      <4>3. x.n < f[l - c].n
        BY <1>5, <3>1, <3>4, <3>6, <4>2 DEF After, f
      <4> QED
        BY <3>6, <4>3 DEF x, y
    <3>7. CASE /\ i = a /\ k - c \in 1..Len(f) /\ x = f[k - c]
               /\ l \in 1..Len(d[j].lines) /\ y = d[j].lines[l]
      <4>1. y.by = p
        BY <1>5, <3>4, <3>7 DEF BufferOrdered
      <4>2. d[j].of = o
        BY <2>4, <3>1, <3>7
      <4>3. j <= a
        BY <1>5, <1>9, <3>1, <3>4, <3>7, <4>1, <4>2 DEF After, a
      <4>4. i = j /\ k < l
        BY <2>3, <3>1, <3>7, <4>3
      <4>5. k > c /\ l <= c
        BY <3>1, <3>7, <4>4, <2>3 DEF c
      <4> QED
        BY <3>1, <4>4, <4>5, <2>3
    <3>8. CASE /\ i = a /\ k - c \in 1..Len(f) /\ x = f[k - c]
               /\ j = a /\ l - c \in 1..Len(f) /\ y = f[l - c]
      <4>1. k - c < l - c
        BY <3>1, <3>8, <2>3
      <4>2. x.n < y.n
        BY <1>5, <3>4, <3>8, <4>1 DEF BufferOrdered
      <4> QED
        BY <4>2 DEF x, y
    <3> QED
      BY <3>2, <3>3, <3>5, <3>6, <3>7, <3>8
  <2>6. Bounded(b, e)
    BY <1>5, <2>2, <2>4 DEF Bounded, BufferOrdered
  <2>7. After(p, o, e, v.o)
    <3> SUFFICES ASSUME NEW i \in 1..Len(e), NEW k \in 1..Len(e[i].lines),
                        e[i].of = o, e[i].lines[k].by = p, Own(e[i].lines[k]),
                        a # 0
                 PROVE  i <= a
      BY <1>3 DEF After
    <3>1. i \in 1..Len(d) /\ d[i].of = o
      BY <2>4
    <3>2. \/ k \in 1..Len(d[i].lines) /\ e[i].lines[k] = d[i].lines[k]
          \/ i = a
      BY <2>2
    <3> QED
      BY SMTT(60), <1>2, <1>5, <2>1, <2>3, <3>1, <3>2 DEF After, a
  <2>8. OwnFile(o, e, v.o)
    BY <1>3, <2>1, <2>4 DEF OwnFile
  <2>9. Ordered(p, o, b, v)
    BY <1>3, <1>6, <2>5, <2>6, <2>7, <2>8 DEF Ordered, e
  <2>10. Grown(p, o, d, e)
    <3>1. \A i \in 1..Len(d) : Len(d[i].lines) <= Len(e[i].lines)
      <4> SUFFICES ASSUME NEW i \in 1..Len(d)
                   PROVE  Len(d[i].lines) <= Len(e[i].lines)
        OBVIOUS
      <4>1. Len(d[i].lines) # 0 => Len(d[i].lines) \in 1..Len(d[i].lines)
        BY <2>3
      <4>2. Len(d[i].lines) # 0 => Len(d[i].lines) \in 1..Len(e[i].lines)
        BY <2>2, <4>1
      <4> QED
        BY <2>3, <4>2
    <3>2. \A i \in 1..Len(e) : \A k \in 1..Len(e[i].lines) :
            \/ i <= Len(d) /\ k <= Len(d[i].lines)
            \/ e[i].of = o /\ (Own(e[i].lines[k]) => e[i].lines[k].by = p)
      <4> SUFFICES ASSUME NEW i \in 1..Len(e), NEW k \in 1..Len(e[i].lines)
                   PROVE  \/ i <= Len(d) /\ k <= Len(d[i].lines)
                          \/ /\ e[i].of = o
                             /\ Own(e[i].lines[k]) => e[i].lines[k].by = p
        OBVIOUS
      <4>1. \/ k \in 1..Len(d[i].lines)
            \/ /\ i = a /\ k - Len(d[a].lines) \in 1..Len(f)
               /\ e[i].lines[k] = f[k - Len(d[a].lines)]
        BY <2>2
      <4>2. i \in 1..Len(d) /\ e[i].of = d[i].of
        BY <2>4
      <4> QED
        BY SMTT(60), <1>5, <2>3, <2>4, <4>1, <4>2 DEF BufferOrdered
    <3> QED
      BY <2>1c, <2>2, <2>3, <2>4, <3>1, <3>2 DEF Grown
  <2>11. ASSUME NEW n \in Nat, Holds(o, w, n)
         PROVE  Holds(o, v, n)
    <3>1. OnDisk(o, e, n)
      <4>1. CASE OnDisk(o, d, n)
        <5>1. PICK i \in 1..Len(d) :
                d[i].of = o /\ \E k \in 1..Len(d[i].lines) : d[i].lines[k].n = n
          BY <4>1 DEF OnDisk
        <5>2. PICK k \in 1..Len(d[i].lines) : d[i].lines[k].n = n
          BY <5>1
        <5>3. k \in 1..Len(e[i].lines) /\ e[i].lines[k].n = n
          BY <2>2, <5>2
        <5> QED
          BY <2>4, <5>1, <5>3 DEF OnDisk
      <4>2. CASE InBuffer(f, n)
        <5>1. PICK m \in 1..Len(f) : f[m].n = n
          BY <4>2 DEF InBuffer
        <5>2. /\ Len(d[a].lines) + m \in 1..Len(e[a].lines)
              /\ e[a].lines[Len(d[a].lines) + m].n = n
          BY <2>2, <5>1
        <5>3. a \in 1..Len(e) /\ e[a].of = o
          BY <2>1, <2>4
        <5> QED
          BY <5>2, <5>3 DEF OnDisk
      <4> QED
        BY <2>11, <4>1, <4>2 DEF Holds, d, f
    <3> QED
      BY <3>1 DEF Holds, e
  <2> QED
    BY <2>9, <2>10, <2>11
<1> QED
  BY <1>1, <1>7, <1>9

\* A buffer that is empty can be given up with its file.
LEMMA AdvancesClosed ==
  ASSUME NEW p, NEW o, NEW b \in Nat, NEW w, NEW v, Fine(w), Fine(v),
         v.disk = w.disk, w.o.buffer = <<>>, v.o.buffer = <<>>, v.o.file = 0,
         w.lost => v.lost
  PROVE  Advances(p, o, b, b, w, v)
<1> DEFINE d == w.disk
<1>1. Len(d) \in Nat /\ \A i \in 1..Len(d) : Len(d[i].lines) \in Nat
  BY DiskTypes DEF Fine, Work
<1>2. Grown(p, o, d, d)
  BY <1>1 DEF Grown
<1>3. Ordered(p, o, b, w) => Ordered(p, o, b, v)
  BY DEF Ordered, After, OwnFile
<1>4. \A n \in Nat : Holds(o, w, n) => Holds(o, v, n)
  BY DEF Holds
<1> QED
  BY <1>2, <1>3, <1>4 DEF Advances

\* A message that comes after every other one, or a header or nothing.
NewLines(p, b, c, lines) ==
  /\ lines \in Seq(Line) /\ Len(lines) <= 1
  /\ b \in Nat /\ c \in Nat /\ b <= c
  /\ \A k \in 1..Len(lines) :
       /\ lines[k].n <= c
       /\ lines[k].n = 0 \/ (lines[k].n > b /\ lines[k].by = p)

\* The lines of a buffer to which others were added.
LEMMA LongerBuffer ==
  ASSUME NEW f \in Seq(Line), NEW g \in Seq(Line), Len(g) <= 1
  PROVE  /\ \A k \in 1..Len(f) : k \in 1..Len(f \o g) /\ (f \o g)[k] = f[k]
         /\ \A k \in 1..Len(f \o g) :
              \/ k \in 1..Len(f) /\ (f \o g)[k] = f[k]
              \/ k = Len(f) + 1 /\ Len(g) = 1 /\ (f \o g)[k] = g[1]
         /\ Len(f \o g) = Len(f) + Len(g)
<1>1. /\ Len(f \o g) = Len(f) + Len(g)
      /\ \A k \in 1..(Len(f) + Len(g)) :
           (f \o g)[k] = IF k <= Len(f) THEN f[k] ELSE g[k - Len(f)]
  BY ConcatProperties
<1>2. Len(f) \in Nat /\ Len(g) \in {0, 1}
  <2>1. Len(f) \in Nat /\ Len(g) \in Nat
    BY BufferTypes
  <2>2. \A n \in Nat : n <= 1 => n \in {0, 1}
    OBVIOUS
  <2> QED
    BY <2>1, <2>2
<1> DEFINE h == f \o g
<1> HIDE DEF h
<1>3. ASSUME NEW k \in 1..Len(f)
      PROVE  k \in 1..Len(h) /\ h[k] = f[k]
  <2>1. k \in 1..(Len(f) + Len(g))
    BY <1>2
  <2> QED
    BY <1>1, <2>1 DEF h
<1>4. ASSUME NEW k \in 1..Len(h)
      PROVE  \/ k \in 1..Len(f) /\ h[k] = f[k]
             \/ k = Len(f) + 1 /\ Len(g) = 1 /\ h[k] = g[1]
  <2>1. k \in 1..(Len(f) + Len(g))
    BY <1>1 DEF h
  <2>2. \/ k \in 1..Len(f)
        \/ k = Len(f) + 1 /\ Len(g) = 1 /\ ~(k <= Len(f)) /\ k - Len(f) = 1
    BY <1>2, <2>1
  <2>3. h[k] = IF k <= Len(f) THEN f[k] ELSE g[k - Len(f)]
    BY <1>1, <2>1 DEF h
  <2> QED
    BY <1>2, <2>2, <2>3
<1> QED
  BY <1>1, <1>3, <1>4 DEF h

\* What comes after everything else may be added to the buffer.
LEMMA AdvancesExtended ==
  ASSUME NEW p, NEW o, NEW b, NEW c, NEW w, NEW v, NEW lines, Fine(w), Fine(v),
         forkedAt \in Nat, NewLines(p, b, c, lines), w.o.file # 0,
         v.disk = w.disk, v.o.file = w.o.file,
         v.o.buffer = w.o.buffer \o lines, w.lost => v.lost
  PROVE  Advances(p, o, b, c, w, v)
<1> DEFINE d == w.disk
           f == w.o.buffer
           g == v.o.buffer
           a == w.o.file
<1>1. d \in Seq(File) /\ f \in Seq(Line)
  BY DEF Fine, Work, LogFileObject
<1>2. /\ lines \in Seq(Line) /\ b \in Nat /\ c \in Nat /\ b <= c
      /\ Len(lines) <= 1
  BY DEF NewLines
<1>3. /\ \A k \in 1..Len(f) : k \in 1..Len(g) /\ g[k] = f[k]
      /\ \A k \in 1..Len(g) :
           \/ k \in 1..Len(f) /\ g[k] = f[k]
           \/ k = Len(f) + 1 /\ Len(lines) = 1 /\ g[k] = lines[1]
  BY <1>1, <1>2, LongerBuffer
<1>4. /\ Len(d) \in Nat
      /\ \A i \in 1..Len(d) : /\ Len(d[i].lines) \in Nat
                              /\ \A k \in 1..Len(d[i].lines) :
                                   d[i].lines[k].n \in Nat
      /\ Len(f) \in Nat /\ \A k \in 1..Len(f) : f[k].n \in Nat
  BY <1>1, DiskTypes, BufferTypes
<1>5. Len(lines) = 1 =>
        /\ lines[1].n \in Nat /\ lines[1].n <= c
        /\ Own(lines[1]) => lines[1].n > b /\ lines[1].by = p
  <2> SUFFICES ASSUME Len(lines) = 1
               PROVE  /\ lines[1].n \in Nat /\ lines[1].n <= c
                      /\ Own(lines[1]) => lines[1].n > b /\ lines[1].by = p
    OBVIOUS
  <2>1. 1 \in 1..Len(lines)
    OBVIOUS
  <2>2. lines[1].n \in Nat
    BY <1>2, <2>1, BufferTypes
  <2>3. /\ lines[1].n <= c
        /\ lines[1].n = 0 \/ (lines[1].n > b /\ lines[1].by = p)
    BY <2>1 DEF NewLines
  <2> QED
    BY <2>2, <2>3 DEF Own
<1>6. ASSUME Ordered(p, o, b, w)
      PROVE  Ordered(p, o, c, v)
  <2>1. /\ DiskOrdered(d) /\ Bounded(b, d) /\ BufferOrdered(p, b, f)
        /\ After(p, o, d, w.o) /\ OwnFile(o, d, w.o)
    BY <1>6 DEF Ordered
  <2> DEFINE l1 == lines[1]
  <2> HIDE DEF d, f, g, l1
  <2>2. Bounded(c, d)
    <3> SUFFICES ASSUME NEW i \in 1..Len(d), NEW k \in 1..Len(d[i].lines)
                 PROVE  d[i].lines[k].n <= c
      BY DEF Bounded
    <3>1. d[i].lines[k].n <= b /\ d[i].lines[k].n \in Nat
      BY <1>4, <2>1 DEF Bounded
    <3> QED
      BY <1>2, <3>1
  <2>3. BufferOrdered(p, c, g)
    <3>1. ASSUME NEW k \in 1..Len(g)
          PROVE  g[k].n <= c /\ (Own(g[k]) => g[k].by = p)
      <4>1. CASE k \in 1..Len(f) /\ g[k] = f[k]
        <5>1. f[k].n <= b /\ f[k].n \in Nat /\ (Own(f[k]) => f[k].by = p)
          BY <1>4, <2>1, <4>1 DEF BufferOrdered
        <5> QED
          BY <1>2, <4>1, <5>1
      <4>2. CASE Len(lines) = 1 /\ g[k] = lines[1]
        BY <1>5, <4>2
      <4> QED
        BY <1>3, <4>1, <4>2
    <3>2. ASSUME NEW k \in 1..Len(g), NEW l \in 1..Len(g), k < l,
                 Own(g[k]), Own(g[l])
          PROVE  g[k].n < g[l].n
      <4>1. k \in 1..Len(f) /\ g[k] = f[k]
        BY <1>3, <1>4, <3>2
      <4>2. CASE l \in 1..Len(f) /\ g[l] = f[l]
        BY <2>1, <3>2, <4>1, <4>2 DEF BufferOrdered
      <4>3. CASE Len(lines) = 1 /\ g[l] = lines[1]
        <5>1. f[k].n <= b /\ f[k].n \in Nat
          BY <1>4, <2>1, <4>1 DEF BufferOrdered
        <5>2. lines[1].n > b /\ lines[1].n \in Nat
          BY <1>5, <3>2, <4>3
        <5>3. f[k].n < lines[1].n
          BY <1>2, <5>1, <5>2
        <5> QED
          BY <4>1, <4>3, <5>3
      <4> QED
        BY <1>3, <4>2, <4>3
    <3> QED
      BY <3>1, <3>2 DEF BufferOrdered
  <2>4. After(p, o, d, v.o)
    <3> SUFFICES ASSUME NEW i \in 1..Len(d), NEW k \in 1..Len(d[i].lines),
                        d[i].of = o, d[i].lines[k].by = p, Own(d[i].lines[k])
                 PROVE  /\ a # 0 => i <= a
                        /\ \A l \in 1..Len(g) :
                             Own(g[l]) => d[i].lines[k].n < g[l].n
      BY DEF After, g
    <3>1. a # 0 => i <= a
      BY <2>1 DEF After
    <3>2. ASSUME NEW l \in 1..Len(g), Own(g[l])
          PROVE  d[i].lines[k].n < g[l].n
      <4>1. CASE l \in 1..Len(f) /\ g[l] = f[l]
        <5>1. d[i].lines[k].n < f[l].n
          BY <2>1, <3>2, <4>1 DEF After, f
        <5> QED
          BY <4>1, <5>1
      <4>2. CASE Len(lines) = 1 /\ g[l] = lines[1]
        <5>1. d[i].lines[k].n <= b /\ d[i].lines[k].n \in Nat
          BY <1>4, <2>1 DEF Bounded
        <5>2. lines[1].n > b /\ lines[1].n \in Nat
          BY <1>5, <3>2, <4>2
        <5>3. d[i].lines[k].n < lines[1].n
          BY <1>2, <5>1, <5>2
        <5> QED
          BY <4>2, <5>3
      <4> QED
        BY <1>3, <4>1, <4>2
    <3> QED
      BY <3>1, <3>2
  <2>5. OwnFile(o, d, v.o)
    BY <2>1 DEF OwnFile
  <2> QED
    BY <2>1, <2>2, <2>3, <2>4, <2>5 DEF Ordered, d, g
<1>7. Grown(p, o, d, v.disk)
  <2>1. v.disk = d
    OBVIOUS
  <2> HIDE DEF d
  <2> QED
    BY <1>4, <2>1 DEF Grown
<1>8. \A n \in Nat : Holds(o, w, n) => Holds(o, v, n)
  <2> SUFFICES ASSUME NEW n \in Nat, InBuffer(f, n)
               PROVE  InBuffer(g, n)
    BY DEF Holds
  <2> HIDE DEF f, g
  <2>1. PICK k \in 1..Len(f) : f[k].n = n
    BY DEF InBuffer
  <2> QED
    BY <1>3, <2>1 DEF InBuffer
<1> QED
  BY <1>6, <1>7, <1>8 DEF Advances

\* A new file has no lines yet, and comes after every other one.
LEMMA AdvancesOpened ==
  ASSUME NEW p, NEW o, NEW b \in Nat, NEW w, NEW v, NEW f \in File,
         Fine(w), Fine(v), w.o.file = 0, f.of = o, f.lines = <<>>,
         v.disk = Append(w.disk, f), v.o.file = Len(w.disk) + 1,
         v.o.buffer = w.o.buffer, w.lost => v.lost
  PROVE  Advances(p, o, b, b, w, v)
<1> DEFINE d == w.disk
           e == v.disk
<1>1. d \in Seq(File) /\ e = Append(d, f)
  BY DEF Fine, Work
<1>2. /\ Len(d) \in Nat /\ \A i \in 1..Len(d) : Len(d[i].lines) \in Nat
  BY <1>1, DiskTypes
<1> HIDE DEF d, e
<1>3. /\ Len(e) = Len(d) + 1 /\ e[Len(d) + 1] = f
      /\ \A i \in 1..Len(d) : i \in 1..Len(e) /\ e[i] = d[i]
  <2>1. /\ Len(e) = Len(d) + 1 /\ e[Len(d) + 1] = f
        /\ \A i \in 1..Len(d) : e[i] = d[i]
    BY <1>1, AppendProperties
  <2> QED
    BY <1>2, <2>1
<1>4. \A i \in 1..Len(e) : \A k \in 1..Len(e[i].lines) :
        i \in 1..Len(d) /\ e[i] = d[i] /\ k \in 1..Len(d[i].lines)
  <2> SUFFICES ASSUME NEW i \in 1..Len(e), NEW k \in 1..Len(e[i].lines)
               PROVE  i \in 1..Len(d) /\ e[i] = d[i] /\ k \in 1..Len(d[i].lines)
    OBVIOUS
  <2>1. CASE i = Len(d) + 1
    <3>1. e[i].lines = <<>>
      BY <1>3, <2>1
    <3> QED
      BY <3>1
  <2>2. CASE i # Len(d) + 1
    <3>1. i \in 1..Len(d)
      BY <1>2, <1>3, <2>2
    <3> QED
      BY <1>3, <3>1
  <2> QED
    BY <2>1, <2>2
<1>5. ASSUME Ordered(p, o, b, w)
      PROVE  Ordered(p, o, b, v)
  <2>1. /\ DiskOrdered(d) /\ Bounded(b, d) /\ BufferOrdered(p, b, w.o.buffer)
        /\ After(p, o, d, w.o) /\ w.o.buffer = <<>>
    BY <1>5 DEF Ordered, OwnFile, d
  <2>2. DiskOrdered(e)
    <3> SUFFICES ASSUME NEW i \in 1..Len(e), NEW j \in 1..Len(e),
                        NEW k \in 1..Len(e[i].lines),
                        NEW l \in 1..Len(e[j].lines),
                        i < j \/ (i = j /\ k < l), e[i].of = e[j].of,
                        e[i].lines[k].by = e[j].lines[l].by,
                        Own(e[i].lines[k]), Own(e[j].lines[l])
                 PROVE  e[i].lines[k].n < e[j].lines[l].n
      BY ZenonT(60) DEF DiskOrdered
    <3>1. /\ i \in 1..Len(d) /\ e[i] = d[i] /\ k \in 1..Len(d[i].lines)
          /\ j \in 1..Len(d) /\ e[j] = d[j] /\ l \in 1..Len(d[j].lines)
      BY <1>4
    <3> QED
      BY <2>1, <3>1 DEF DiskOrdered
  <2>3. Bounded(b, e)
    BY <1>4, <2>1 DEF Bounded
  <2>4. v.o.buffer = <<>> /\ v.o.file = Len(d) + 1
    BY <2>1 DEF d
  <2>5. After(p, o, e, v.o)
    <3> SUFFICES ASSUME NEW i \in 1..Len(e), NEW k \in 1..Len(e[i].lines)
                 PROVE  i <= v.o.file
      BY <2>4 DEF After
    <3> QED
      BY <1>2, <1>3, <2>4
  <2>6. OwnFile(o, e, v.o)
    BY <1>2, <1>3, <2>4 DEF OwnFile
  <2> QED
    BY <2>1, <2>2, <2>3, <2>4, <2>5, <2>6 DEF Ordered, e
<1>6. Grown(p, o, d, e)
  <2>1. Len(d) <= Len(e)
    BY <1>2, <1>3
  <2>2. \A i \in 1..Len(d) :
          /\ e[i].of = d[i].of /\ Len(d[i].lines) <= Len(e[i].lines)
          /\ e[i].size = d[i].size
          /\ \A k \in 1..Len(d[i].lines) : e[i].lines[k] = d[i].lines[k]
    BY <1>2, <1>3
  <2>3. \A i \in 1..Len(e) : \A k \in 1..Len(e[i].lines) :
          i <= Len(d) /\ k <= Len(d[i].lines)
    BY <1>2, <1>4
  <2> QED
    BY <2>1, <2>2, <2>3 DEF Grown
<1>7. \A n \in Nat : Holds(o, w, n) => Holds(o, v, n)
  <2> SUFFICES ASSUME NEW n \in Nat, OnDisk(o, d, n)
               PROVE  OnDisk(o, e, n)
    BY DEF Holds, d, e
  <2> QED
    BY <1>3 DEF OnDisk
<1> QED
  BY <1>5, <1>6, <1>7 DEF Advances, d, e

\* fclose writes the buffer out and gives up the file.
LEMMA AdvancesFclose ==
  ASSUME NEW p, NEW o, NEW b \in Nat, NEW w, Fine(w), full \in BOOLEAN
  PROVE  LET v == fclose(w) IN
         /\ Advances(p, o, b, b, w, v) /\ v.o.file = 0
         /\ \/ v = w
            \/ v.o = [w.o EXCEPT !.buffer = <<>>, !.pending = 0, !.file = 0]
<1>1. Fine(fclose(w)) /\ fclose(w).o.file = 0
  BY FcloseProperties
<1>2. CASE w.o.file = 0
  <2>1. fclose(w) = w
    BY <1>2 DEF fclose
  <2>2. Advances(p, o, b, b, w, w)
    BY AdvancesAside
  <2> QED
    BY <1>2, <2>1, <2>2
<1>3. CASE w.o.file # 0
  <2> DEFINE u == Drain(w)
             v == [u EXCEPT !.o.file = 0]
  <2>1. fclose(w) = v
    BY <1>3 DEF fclose
  <2>2. Fine(u) /\ u.o = [w.o EXCEPT !.buffer = <<>>, !.pending = 0]
    BY DrainEffect
  <2>3. Advances(p, o, b, b, w, u)
    BY AdvancesDrain
  <2> HIDE DEF u
  <2>4. /\ v.disk = u.disk
        /\ v.o = [w.o EXCEPT !.buffer = <<>>, !.pending = 0, !.file = 0]
        /\ v.lost = u.lost
    BY <2>2 DEF Fine, Work, LogFileObject
  <2>5. u.o.buffer = <<>> /\ v.o.buffer = <<>> /\ v.o.file = 0
    BY <2>2, <2>4 DEF Fine, Work, LogFileObject
  <2>6. Fine(v)
    BY <1>1, <2>1
  <2>7. Advances(p, o, b, b, u, v)
    BY <2>2, <2>4, <2>5, <2>6, AdvancesClosed
  <2>8. Advances(p, o, b, b, w, v)
    BY <2>3, <2>7, AdvancesTwice
  <2> QED
    BY <2>1, <2>4, <2>5, <2>8
<1> QED
  BY <1>2, <1>3

\* After a rollover there is no file, and nothing of it was lost unnoticed.
LEMMA AdvancesRoll ==
  ASSUME NEW p, NEW o, NEW b \in Nat, NEW w, Fine(w), full \in BOOLEAN,
         LogFileAssumption
  PROVE  LET v == Roll(w) IN
         /\ Advances(p, o, b, b, w, v) /\ v.o.file = 0
         /\ v.o.buffer \in {w.o.buffer, <<>>} /\ v.o.next = w.o.next
         /\ v.o.length = 0 /\ v.o.attempt = Frequency - 1
<1> DEFINE u == fclose(w)
           v == Roll(w)
<1>1. /\ Advances(p, o, b, b, w, u) /\ u.o.file = 0
      /\ u = w \/ u.o = [w.o EXCEPT !.buffer = <<>>, !.pending = 0, !.file = 0]
  BY AdvancesFclose
<1>2. Fine(v) /\ v.o.file = 0 /\ v.o.attempt = Frequency - 1
  BY RollProperties
<1>3. v = [u EXCEPT !.o.length = 0, !.o.bytes = 0, !.o.attempt = Frequency - 1]
  BY DEF Roll
<1> HIDE DEF u, v
<1>4. Fine(u)
  BY <1>1 DEF Advances
<1>5. /\ v.disk = u.disk /\ v.lost = u.lost /\ v.o.buffer = u.o.buffer
      /\ v.o.next = u.o.next /\ v.o.length = 0
  BY <1>3, <1>4 DEF Fine, Work, LogFileObject
<1>6. u.o.buffer \in {w.o.buffer, <<>>} /\ u.o.next = w.o.next
  BY <1>1 DEF Fine, Work, LogFileObject
<1>7. Advances(p, o, b, b, u, v)
  BY SMTT(60), <1>1, <1>2, <1>4, <1>5, AdvancesAside
<1>8. Advances(p, o, b, b, w, v)
  BY <1>1, <1>7, AdvancesTwice
<1> QED
  BY <1>2, <1>5, <1>6, <1>8 DEF v

\* A new name leaves no file either.
LEMMA AdvancesRenamed ==
  ASSUME NEW p, NEW o, NEW b \in Nat, NEW w, Fine(w), full \in BOOLEAN,
         LogFileAssumption
  PROVE  LET v == Renamed(w) IN
         /\ Advances(p, o, b, b, w, v) /\ v.o.file = 0
         /\ v.o.buffer \in {w.o.buffer, <<>>} /\ v.o.next = w.o.next
         /\ v.o.length = w.o.length
         /\ v.o.attempt = IF w.o.file = 0 THEN w.o.attempt ELSE Frequency - 1
<1> DEFINE u == fclose(w)
           v == Renamed(w)
<1>1. /\ Advances(p, o, b, b, w, u) /\ u.o.file = 0
      /\ u = w \/ u.o = [w.o EXCEPT !.buffer = <<>>, !.pending = 0, !.file = 0]
  BY AdvancesFclose
<1>2. Fine(v) /\ v.o.file = 0
  BY RenamedProperties
<1>3. v = IF w.o.file = 0 THEN w ELSE [u EXCEPT !.o.attempt = Frequency - 1]
  BY DEF Renamed
<1> HIDE DEF u, v
<1>4. Fine(u)
  BY <1>1 DEF Advances
<1>5. CASE w.o.file = 0
  <2>1. v = w
    BY <1>3, <1>5
  <2>2. Advances(p, o, b, b, w, w)
    BY AdvancesAside
  <2> QED
    BY <1>5, <2>1, <2>2 DEF v
<1>6. CASE w.o.file # 0
  <2>1. /\ v.disk = u.disk /\ v.lost = u.lost /\ v.o.buffer = u.o.buffer
        /\ v.o.next = u.o.next /\ v.o.length = u.o.length
        /\ v.o.attempt = Frequency - 1
    BY <1>3, <1>4, <1>6 DEF Fine, Work, LogFileObject
  <2>2. /\ u.o.buffer \in {w.o.buffer, <<>>} /\ u.o.next = w.o.next
        /\ u.o.length = w.o.length
    BY <1>1 DEF Fine, Work, LogFileObject
  <2>3. Advances(p, o, b, b, u, v)
    BY SMTT(60), <1>1, <1>2, <1>4, <2>1, AdvancesAside
  <2>4. Advances(p, o, b, b, w, v)
    BY <1>1, <2>3, AdvancesTwice
  <2> QED
    BY <1>2, <1>6, <2>1, <2>2, <2>4 DEF v
<1> QED
  BY <1>5, <1>6

\* What fwrite leaves in the object.
Buffers(w, lines, v) ==
  /\ v.o.file = w.o.file /\ v.o.next = w.o.next
  /\ v.o.length = w.o.length /\ v.o.attempt = w.o.attempt
  /\ \/ v.o.buffer = w.o.buffer \o lines /\ v.lost = w.lost
     \/ v.o.buffer = <<>>

\* A message or a header goes to the buffer, which may be written out or lost.
LEMMA AdvancesFwrite ==
  ASSUME NEW p, NEW o, NEW b, NEW c, NEW w, NEW lines, Fine(w),
         full \in BOOLEAN, forkedAt \in Nat, NewLines(p, b, c, lines),
         w.o.file # 0
  PROVE  LET v == fwrite(w, lines) IN
         /\ Advances(p, o, b, c, w, v)
         /\ Buffers(w, lines, v)
         /\ Ordered(p, o, b, w) /\ ~v.lost =>
              \A k \in 1..Len(lines) : Holds(o, v, lines[k].n)
<1> DEFINE f == w.o.buffer \o lines
           n == w.o.pending + Bytes(lines)
           more == [w EXCEPT !.o.buffer = f, !.o.pending = n]
           v == fwrite(w, lines)
<1>1. /\ lines \in Seq(Line) /\ b \in Nat /\ c \in Nat
      /\ w.o.buffer \in Seq(Line)
  BY DEF NewLines, Fine, Work, LogFileObject
<1>2. f \in Seq(Line) /\ n \in Nat
  BY <1>1, ConcatProperties, BytesProperties DEF Fine, Work, LogFileObject
<1>3. v \in {more, Drain(more)}
  BY DEF fwrite
<1> HIDE DEF f, n, v
<1>4. /\ Fine(more) /\ more.disk = w.disk
      /\ more.o = [w.o EXCEPT !.buffer = f, !.pending = n]
      /\ more.lost = w.lost /\ more.o.file = w.o.file /\ more.o.buffer = f
      /\ more.o.next = w.o.next /\ more.o.length = w.o.length
      /\ more.o.attempt = w.o.attempt
  BY <1>2 DEF Fine, Work, LogFileObject
<1> HIDE DEF more
<1>5. Advances(p, o, b, c, w, more)
  BY <1>4, AdvancesExtended DEF f
<1>5a. \A k \in 1..Len(lines) : lines[k].n \in Nat /\ Holds(o, more, lines[k].n)
  <2> SUFFICES ASSUME NEW k \in 1..Len(lines)
               PROVE  lines[k].n \in Nat /\ Holds(o, more, lines[k].n)
    OBVIOUS
  <2>1. Len(lines) <= 1
    BY DEF NewLines
  <2>2. Len(f) = Len(w.o.buffer) + Len(lines)
        /\ \A m \in 1..Len(f) :
             \/ m \in 1..Len(w.o.buffer) /\ f[m] = w.o.buffer[m]
             \/ m = Len(w.o.buffer) + 1 /\ Len(lines) = 1 /\ f[m] = lines[1]
    BY <1>1, <2>1, LongerBuffer DEF f
  <2>3. Len(w.o.buffer) \in Nat /\ Len(lines) \in Nat /\ k = 1 /\ Len(lines) = 1
        /\ lines[k].n \in Nat
    <3>1. Len(w.o.buffer) \in Nat /\ Len(lines) \in Nat /\ lines[k].n \in Nat
      BY <1>1, BufferTypes
    <3>2. \A x \in Nat : x <= 1 /\ k \in 1..x => k = 1 /\ x = 1
      OBVIOUS
    <3> QED
      BY <2>1, <3>1, <3>2
  <2>4. Len(w.o.buffer) + 1 \in 1..Len(f)
        /\ Len(w.o.buffer) + 1 \notin 1..Len(w.o.buffer)
    BY <2>2, <2>3
  <2>5. f[Len(w.o.buffer) + 1].n = lines[k].n
    BY <2>2, <2>3, <2>4
  <2> QED
    BY <1>4, <2>3, <2>4, <2>5 DEF Holds, InBuffer
<1>6. CASE v = more
  BY <1>4, <1>5, <1>5a, <1>6 DEF v, f, Buffers
<1>7. CASE v = Drain(more)
  <2>1. Advances(p, o, c, c, more, v)
    BY <1>1, <1>4, <1>7, AdvancesDrain
  <2>2. v.o = [more.o EXCEPT !.buffer = <<>>, !.pending = 0]
    BY <1>4, <1>7, DrainEffect
  <2>3. /\ v.o.buffer = <<>> /\ v.o.file = w.o.file
        /\ v.o.next = w.o.next /\ v.o.length = w.o.length
        /\ v.o.attempt = w.o.attempt
    BY <1>4, <2>2 DEF Fine, Work, LogFileObject
  <2>4. Advances(p, o, b, c, w, v)
    BY <1>5, <2>1, AdvancesTwice
  <2>5. ASSUME Ordered(p, o, b, w), ~v.lost, NEW k \in 1..Len(lines)
        PROVE  Holds(o, v, lines[k].n)
    <3>1. Ordered(p, o, c, more)
      BY <1>5, <2>5 DEF Advances
    <3> QED
      BY <1>5a, <2>1, <2>5, <3>1 DEF Advances
  <2> QED
    BY <2>3, <2>4, <2>5 DEF v, Buffers
<1> QED
  BY <1>3, <1>6, <1>7

\* A flush writes the buffer out and puts the next one off.
LEMMA AdvancesFlush ==
  ASSUME NEW p, NEW o, NEW b \in Nat, NEW w, Fine(w), full \in BOOLEAN,
         clock \in Nat, LogBufSecs \in Nat
  PROVE  LET v == FlushUnlocked(w) IN
         /\ Advances(p, o, b, b, w, v)
         /\ v.o.file = w.o.file /\ v.o.attempt = w.o.attempt
         /\ v.o.length = w.o.length /\ v.o.next = clock + LogBufSecs
         /\ v.o.buffer = IF w.o.file = 0 THEN w.o.buffer ELSE <<>>
<1> DEFINE u == Drain(w)
           v == FlushUnlocked(w)
<1>1. /\ Advances(p, o, b, b, w, u)
      /\ u.o = [w.o EXCEPT !.buffer = <<>>, !.pending = 0]
  BY AdvancesDrain, DrainEffect
<1>2. Fine(v) /\ v.o.file = w.o.file
  BY FlushProperties DEF SameObject
<1>3. v = [IF w.o.file = 0 THEN w ELSE [u EXCEPT !.o.bytes = 0]
             EXCEPT !.o.next = clock + LogBufSecs]
  BY DEF FlushUnlocked
<1> HIDE DEF u, v
<1>4. Fine(u)
  BY <1>1 DEF Advances
<1>5. CASE w.o.file = 0
  <2>1. v = [w EXCEPT !.o.next = clock + LogBufSecs]
    BY <1>3, <1>5
  <2>2. /\ v.disk = w.disk /\ v.lost = w.lost /\ v.o.buffer = w.o.buffer
        /\ v.o.attempt = w.o.attempt /\ v.o.length = w.o.length
        /\ v.o.next = clock + LogBufSecs
    BY <2>1 DEF Fine, Work, LogFileObject
  <2>3. Advances(p, o, b, b, w, v)
    BY <1>2, <2>2, AdvancesAside
  <2> QED
    BY <1>2, <1>5, <2>2, <2>3 DEF v
<1>6. CASE w.o.file # 0
  <2>1. v = [u EXCEPT !.o.bytes = 0, !.o.next = clock + LogBufSecs]
    BY <1>3, <1>4, <1>6 DEF Fine, Work
  <2>2. /\ u.o.buffer = <<>> /\ u.o.file = w.o.file
        /\ u.o.attempt = w.o.attempt /\ u.o.length = w.o.length
    BY <1>1 DEF Fine, Work, LogFileObject
  <2>3. /\ v.disk = u.disk /\ v.lost = u.lost /\ v.o.buffer = u.o.buffer
        /\ v.o.attempt = u.o.attempt /\ v.o.length = u.o.length
        /\ v.o.next = clock + LogBufSecs
    BY <1>4, <2>1 DEF Fine, Work, LogFileObject
  <2>4. Advances(p, o, b, b, u, v)
    BY <1>2, <1>4, <2>2, <2>3, AdvancesAside
  <2>5. Advances(p, o, b, b, w, v)
    BY <1>1, <2>4, AdvancesTwice
  <2> QED
    BY <1>2, <1>6, <2>2, <2>3, <2>5 DEF v
<1> QED
  BY <1>5, <1>6

\* What Write goes on with: nothing happened, or the file was closed.
LEMMA AdvancesBegun ==
  ASSUME TypeOK, LogFileAssumption, NEW p \in Process, NEW o \in Object
  PROVE  LET w == Begun(p, o) IN
         /\ Advances(p, o, number, number, Memory(p, o), w)
         /\ \/ w = Memory(p, o) /\ ~TooLong(obj[p][o])
            \/ w.o.file = 0 /\ w.o.attempt = Frequency - 1 /\ w.o.length = 0
         /\ w.o.next = obj[p][o].next
         /\ w.o.buffer \in {obj[p][o].buffer, <<>>}
<1> DEFINE m == Memory(p, o)
<1>1. Fine(m) /\ m.o = obj[p][o] /\ full \in BOOLEAN /\ number \in Nat
  BY MemoryProperties DEF TypeOK
<1>2. Begun(p, o) = IF TooLong(obj[p][o]) \/ Changed(p, o) THEN Roll(m) ELSE m
  BY DEF Begun
<1> HIDE DEF m
<1>3. /\ Advances(p, o, number, number, m, Roll(m)) /\ Roll(m).o.file = 0
      /\ Roll(m).o.buffer \in {m.o.buffer, <<>>} /\ Roll(m).o.next = m.o.next
      /\ Roll(m).o.length = 0 /\ Roll(m).o.attempt = Frequency - 1
  BY <1>1, AdvancesRoll
<1>4. Advances(p, o, number, number, m, m)
  BY <1>1, AdvancesAside
<1>5. CASE TooLong(obj[p][o]) \/ Changed(p, o)
  BY <1>1, <1>2, <1>3, <1>5 DEF m
<1>6. CASE ~(TooLong(obj[p][o]) \/ Changed(p, o))
  BY <1>1, <1>2, <1>4, <1>6 DEF m
<1> QED
  BY <1>5, <1>6

\* What creating a file leaves in the object.
Heads(p, w, v) ==
  /\ v.o.file # 0 /\ v.o.next = w.o.next
  /\ v.o.length = AddLength(w.o.length, HeaderLen)
  /\ v.o.buffer = w.o.buffer \o <<Header(p)>> \/ v.o.buffer = <<>>

\* A new file gets its header, which is in its buffer at first.
LEMMA AdvancesCreated ==
  ASSUME TypeOK, LogFileAssumption, NEW p \in Process, NEW o \in Object,
         NEW w, Fine(w), NEW time \in 0..MaxTime, NEW b \in Place,
         g_main_thread_pid'[p] \in Process, w.o.file = 0
  PROVE  LET v == Created(p, o, w, time, b) IN
         Advances(p, o, number, number, w, v) /\ Heads(p, w, v)
<1> DEFINE n == NameOf(p, o, b, time)
           f == [name |-> n, of |-> o, lines |-> <<>>, size |-> 0]
           d == Append(w.disk, f)
           r == [w.o EXCEPT !.base = b, !.file = Len(w.disk) + 1, !.attempt = 0]
           opened == [w EXCEPT !.disk = d, !.o = r]
           h == <<Header(p)>>
           out == fwrite(opened, h)
           v == Created(p, o, w, time, b)
<1>1. n \in FileName
  <2>1. obj[p][o] \in LogFileObject
    BY DEF TypeOK
  <2> QED
    BY <2>1 DEF NameOf, FileName, LogFileObject
<1>2. f \in File /\ f.of = o /\ f.lines = <<>>
  BY <1>1 DEF File
<1>3. w \in Work /\ w.disk \in Seq(File) /\ w.o \in LogFileObject
      /\ Len(w.disk) \in Nat /\ number \in Nat
  BY DEF Fine, Work, TypeOK
<1>4. d \in Seq(File) /\ Len(d) = Len(w.disk) + 1
  BY <1>2, <1>3, AppendProperties
<1>5. r \in LogFileObject /\ r.file = Len(w.disk) + 1
      /\ r.buffer = w.o.buffer /\ r.next = w.o.next /\ r.length = w.o.length
  <2>1. 0 \in 0..(Frequency - 1) /\ Len(w.disk) + 1 \in Nat
    BY <1>3 DEF LogFileAssumption
  <2>2. r \in LogFileObject
    BY <1>3, <2>1, FieldProperties
  <2> QED
    BY <1>3, <2>2 DEF LogFileObject
<1>6. opened = [w EXCEPT !.disk = d, !.o.base = b,
                         !.o.file = Len(w.disk) + 1, !.o.attempt = 0]
  BY <1>3 DEF Work
<1>7. v = [fwrite([w EXCEPT !.disk = d, !.o.base = b,
                            !.o.file = Len(w.disk) + 1, !.o.attempt = 0],
                  h)
             EXCEPT !.o.length = AddLength(@, HeaderLen),
                    !.o.bytes = @ + HeaderLen]
  BY DEF Created
<1>8. h \in Seq(Line) /\ h = <<Header(p)>> /\ Len(h) = 1 /\ h[1].n = 0
      /\ full \in BOOLEAN /\ forkedAt \in Nat
  BY DEF Header, Line, TypeOK, LogFileAssumption
<1>9. Fine(v)
  BY CreatedProperties
<1> HIDE DEF n, f, d, r, h, v
<1>10. Fine(opened) /\ opened.disk = d /\ opened.o = r /\ opened.lost = w.lost
  <2>1. opened \in Work /\ opened.disk = d /\ opened.o = r
        /\ opened.lost = w.lost
    BY <1>3, <1>4, <1>5 DEF Work
  <2> QED
    BY SMTT(60), <1>3, <1>4, <1>5, <2>1 DEF Fine
<1> HIDE DEF opened
<1>11. Advances(p, o, number, number, w, opened)
  BY <1>2, <1>3, <1>5, <1>10, AdvancesOpened DEF d
<1>12. NewLines(p, number, number, h)
  <2>1. \A k \in 1..Len(h) : h[k].n = 0
    BY <1>8
  <2> QED
    BY <1>3, <1>8, <2>1 DEF NewLines
<1>13. /\ Advances(p, o, number, number, opened, out)
       /\ out.o.file = opened.o.file /\ out.o.next = opened.o.next
       /\ out.o.length = opened.o.length
       /\ out.o.buffer = opened.o.buffer \o h \/ out.o.buffer = <<>>
  <2>1. opened.o.file # 0
    BY <1>3, <1>5, <1>10
  <2>2. /\ Fine(opened) /\ full \in BOOLEAN /\ forkedAt \in Nat
        /\ NewLines(p, number, number, h)
    BY <1>8, <1>10, <1>12
  <2>3. Advances(p, o, number, number, opened, fwrite(opened, h))
    BY <2>1, <2>2, AdvancesFwrite
  <2>4. /\ out.o.file = opened.o.file /\ out.o.next = opened.o.next
        /\ out.o.length = opened.o.length
        /\ out.o.buffer = opened.o.buffer \o h \/ out.o.buffer = <<>>
    <3>1. Buffers(opened, h, out)
      BY <2>1, <2>2, AdvancesFwrite
    <3> HIDE DEF out
    <3> QED
      BY <3>1 DEF Buffers
  <2> QED
    BY <2>3, <2>4
<1>14. v = [out EXCEPT !.o.length = AddLength(@, HeaderLen),
                       !.o.bytes = @ + HeaderLen]
  BY <1>6, <1>7
<1>15. Fine(out)
  BY <1>13 DEF Advances
<1>16. /\ out.o.file = r.file /\ out.o.next = r.next /\ out.o.length = r.length
       /\ out.o.buffer = r.buffer \o h \/ out.o.buffer = <<>>
  BY <1>5, <1>10, <1>13 DEF LogFileObject
<1> HIDE DEF out
<1>17. /\ v.disk = out.disk /\ v.lost = out.lost /\ v.o.file = out.o.file
       /\ v.o.buffer = out.o.buffer /\ v.o.next = out.o.next
       /\ v.o.length = AddLength(out.o.length, HeaderLen)
  BY <1>14, <1>15 DEF Fine, Work, LogFileObject
<1>18. Advances(p, o, number, number, out, v)
  BY <1>3, <1>9, <1>15, <1>17, AdvancesAside
<1>19. Advances(p, o, number, number, w, v)
  BY <1>10, <1>11, <1>13, <1>18, AdvancesTwice
<1> QED
  <2>1. v.o.file # 0
    BY <1>3, <1>5, <1>16, <1>17
  <2> QED
    BY <1>5, <1>8, <1>16, <1>17, <1>19, <2>1 DEF v, Heads

\* Whether message lines at clock keep the buffer within its span.
LEMMA SpannedMore ==
  ASSUME NEW w, NEW v, Fine(w), NEW lines \in Seq(Line), Len(lines) <= 1,
         Spanned(w), v.o.next = w.o.next, clock \in Nat, LogBufSecs \in Nat,
         v.o.buffer \in {w.o.buffer, w.o.buffer \o lines, <<>>},
         \A k \in 1..Len(lines) :
           lines[k].n = 0 \/ (lines[k].at = clock /\ clock < w.o.next)
  PROVE  Spanned(v)
<1> DEFINE f == w.o.buffer
           g == v.o.buffer
<1>1. f \in Seq(Line) /\ w.o.next \in Nat
  BY DEF Fine, Work, LogFileObject
<1>2. \A k \in 1..Len(f \o lines) :
        \/ k \in 1..Len(f) /\ (f \o lines)[k] = f[k]
        \/ k = Len(f) + 1 /\ Len(lines) = 1 /\ (f \o lines)[k] = lines[1]
  BY <1>1, LongerBuffer
<1> HIDE DEF f, g
<1>3. SUFFICES ASSUME NEW k \in 1..Len(g), g[k].n > 0
               PROVE  v.o.next - LogBufSecs <= g[k].at /\ g[k].at < v.o.next
  BY DEF Spanned, g
<1>4. CASE k \in 1..Len(f) /\ g[k] = f[k]
  BY <1>3, <1>4 DEF Spanned, f
<1>5. CASE Len(lines) = 1 /\ g[k] = lines[1]
  <2>1. lines[1].at = clock /\ clock < w.o.next
    BY <1>3, <1>5
  <2> QED
    BY <1>5, <2>1 DEF Spanned
<1>6. \/ k \in 1..Len(f) /\ g[k] = f[k]
      \/ Len(lines) = 1 /\ g[k] = lines[1]
  <2>1. CASE g = f
    BY <1>3, <2>1
  <2>2. CASE g = f \o lines
    BY <1>2, <1>3, <2>2
  <2>3. CASE g = <<>>
    BY <1>3, <2>3
  <2> QED
    BY <2>1, <2>2, <2>3 DEF f, g
<1> QED
  BY <1>4, <1>5, <1>6

\* However the output ends: the message is in the file or its buffer, or
\* something was lost; what is in the buffer is recent.
LEMMA AdvancesOutput ==
  ASSUME TypeOK, LogFileAssumption, NEW p \in Process, NEW o \in Object,
         NEW w, Fine(w), NEW force, NEW c, NEW lines,
         NewLines(p, number, c, lines), w.o.file # 0,
         \A k \in 1..Len(lines) : lines[k].at = clock,
         Output(p, o, w, force, lines)
  PROVE  \E v, other :
           /\ Commit(p, o, v, other)
           /\ Advances(p, o, number, c, w, v)
           /\ v.o.file # 0 /\ v.o.attempt = w.o.attempt
           /\ Spanned(w) => Spanned(v)
           /\ Ordered(p, o, number, w) /\ ~v.lost /\ other = {} =>
                \A k \in 1..Len(lines) : Holds(o, v, lines[k].n)
<1> DEFINE w0 == [w EXCEPT !.lost = FALSE]
           out == fwrite(w0, lines)
           r == [out.o EXCEPT !.length = AddLength(@, Bytes(lines)),
                              !.bytes = @ + Bytes(lines)]
           counted == [out EXCEPT !.o.length = AddLength(@, Bytes(lines)),
                                  !.o.bytes = @ + Bytes(lines),
                                  !.lost = @ \/ w.lost]
           Ends(v, other) ==
             /\ Commit(p, o, v, other)
             /\ Advances(p, o, number, c, w, v)
             /\ v.o.file # 0 /\ v.o.attempt = w.o.attempt
             /\ Spanned(w) => Spanned(v)
             /\ Ordered(p, o, number, w) /\ ~v.lost /\ other = {} =>
                  \A k \in 1..Len(lines) : Holds(o, v, lines[k].n)
<1>1. /\ full \in BOOLEAN /\ clock \in Nat /\ LogBufSecs \in Nat
      /\ number \in Nat /\ forkedAt \in Nat /\ lines \in Seq(Line)
      /\ c \in Nat /\ number <= c /\ Len(lines) <= 1
  BY DEF TypeOK, LogFileAssumption, NewLines
<1>2. /\ Fine(w0) /\ w0.disk = w.disk /\ w0.o = w.o /\ w0.lost = FALSE
  BY DEF Fine, Work
<1> HIDE DEF w0
<1>3. /\ Advances(p, o, number, c, w0, out)
      /\ Buffers(w0, lines, out)
      /\ Ordered(p, o, number, w0) /\ ~out.lost =>
           \A k \in 1..Len(lines) : Holds(o, out, lines[k].n)
  BY <1>1, <1>2, AdvancesFwrite
<1> HIDE DEF out
<1>4. /\ Fine(out) /\ out.o.file = w.o.file /\ out.o.next = w.o.next
      /\ out.o.attempt = w.o.attempt
      /\ \/ out.o.buffer = w.o.buffer \o lines /\ out.lost = FALSE
         \/ out.o.buffer = <<>>
  BY <1>2, <1>3 DEF Buffers, Advances
<1>5. Ordered(p, o, number, w) = Ordered(p, o, number, w0)
  BY <1>2 DEF Ordered
<1>6. \A n : Holds(o, w, n) = Holds(o, w0, n)
  BY <1>2 DEF Holds
<1>7. CASE stop_writing[p] /\ Commit(p, o, w, {"full"})
  <2>1. Advances(p, o, number, c, w, w)
    BY <1>1, AdvancesAside
  <2>2. Ends(w, {"full"})
    BY <1>7, <2>1
  <2> QED
    BY <2>2
<1>8. CASE out.lost /\ Commit(p, o, out, {})
  <2>1. Advances(p, o, number, c, w, out)
    BY <1>3, <1>5, <1>8, <1>2 DEF Advances
  <2>2. out.o.buffer = <<>>
    BY <1>4, <1>8
  <2>3. Spanned(w) => Spanned(out)
    BY <1>4, <2>2 DEF Spanned
  <2>4. Ends(out, {})
    BY <1>4, <1>8, <2>1, <2>3
  <2> QED
    BY <2>4
<1>9. CASE Commit(p, o, IF Due(counted.o, force) THEN FlushUnlocked(counted)
                        ELSE counted, {})
  <2>1. /\ Fine(counted) /\ counted.disk = out.disk
        /\ counted.lost = (out.lost \/ w.lost)
        /\ counted.o.file = out.o.file /\ counted.o.buffer = out.o.buffer
        /\ counted.o.next = out.o.next /\ counted.o.attempt = out.o.attempt
    <3>1. out.o \in LogFileObject /\ out \in Work /\ Bytes(lines) \in Nat
      BY <1>1, <1>4, BytesProperties DEF Fine, Work
    <3>2. out.o.length \in Nat /\ out.o.bytes \in Nat
      BY <3>1 DEF LogFileObject
    <3>3. /\ AddLength(out.o.length, Bytes(lines)) \in 0..(LengthModulus - 1)
          /\ out.o.bytes + Bytes(lines) \in Nat
      <4>1. \A x, y \in Nat : x + y \in Nat
        OBVIOUS
      <4> QED
        BY <3>1, <3>2, <4>1, AddLengthProperties
    <3>4. r \in LogFileObject
      BY <3>1, <3>3, FieldProperties
    <3>5. /\ r.file = out.o.file /\ r.buffer = out.o.buffer
          /\ r.next = out.o.next /\ r.attempt = out.o.attempt
      BY <3>1 DEF LogFileObject
    <3>6. counted = [[out EXCEPT !.o = r] EXCEPT !.lost = out.lost \/ w.lost]
      BY <3>1 DEF Work, LogFileObject
    <3> HIDE DEF r, counted
    <3>7. (out.lost \/ w.lost) \in BOOLEAN
      OBVIOUS
    <3>8. /\ counted \in Work /\ counted.o = r /\ counted.disk = out.disk
          /\ counted.lost = (out.lost \/ w.lost)
      BY <3>1, <3>4, <3>6, <3>7 DEF Work
    <3> QED
      BY <1>4, <3>5, <3>8 DEF Fine
  <2> DEFINE v == IF Due(counted.o, force) THEN FlushUnlocked(counted)
                  ELSE counted
  <2> HIDE DEF counted
  <2>2. Advances(p, o, number, c, w, counted)
    <3>1. Advances(p, o, c, c, out, counted)
      <4>1. c <= c
        BY <1>1
      <4>2. out.lost => counted.lost
        BY Zenon, <2>1
      <4> QED
        BY <1>1, <1>4, <2>1, <4>1, <4>2, AdvancesAside
    <3>2. Advances(p, o, number, c, w0, counted)
      BY <1>2, <1>3, <3>1, AdvancesTwice
    <3> QED
      BY <1>2, <1>5, <1>6, <2>1, <3>2 DEF Advances
  <2>3. /\ Advances(p, o, c, c, counted, FlushUnlocked(counted))
        /\ FlushUnlocked(counted).o.file = counted.o.file
        /\ FlushUnlocked(counted).o.attempt = counted.o.attempt
        /\ FlushUnlocked(counted).o.next = clock + LogBufSecs
        /\ FlushUnlocked(counted).o.buffer =
             IF counted.o.file = 0 THEN counted.o.buffer ELSE <<>>
    BY <1>1, <2>1, AdvancesFlush
  <2>4. Advances(p, o, c, c, counted, v)
    <3>1. Advances(p, o, c, c, counted, counted)
      BY <1>1, <2>1, AdvancesAside
    <3> QED
      BY <2>3, <3>1
  <2>5. Advances(p, o, number, c, w, v)
    BY <2>2, <2>4, AdvancesTwice
  <2>6. v.o.file # 0 /\ v.o.attempt = w.o.attempt
    BY <1>4, <2>1, <2>3
  <2>7. ASSUME Spanned(w)
        PROVE  Spanned(v)
    <3>1. CASE Due(counted.o, force)
      <4>1. v = FlushUnlocked(counted)
        BY <3>1
      <4> HIDE DEF v
      <4>2. v.o.buffer = <<>> /\ v.o.next = clock + LogBufSecs
        BY <1>4, <2>1, <2>3, <4>1
      <4> QED
        BY <1>1, <4>2 DEF Spanned
    <3>2. CASE ~Due(counted.o, force)
      <4>1. v = counted /\ ~(clock >= counted.o.next)
        BY <3>2 DEF Due
      <4> HIDE DEF v
      <4>2. w.o.next \in Nat /\ clock < w.o.next
        <5>1. w.o.next \in Nat
          BY DEF Fine, Work, LogFileObject
        <5>2. counted.o.next = w.o.next
          BY <1>4, <2>1
        <5> QED
          BY <1>1, <4>1, <5>1, <5>2
      <4>3. v.o.next = w.o.next
            /\ v.o.buffer \in {w.o.buffer, w.o.buffer \o lines, <<>>}
        BY <1>4, <2>1, <4>1
      <4> QED
        BY <1>1, <2>7, <4>2, <4>3, SpannedMore
    <3> QED
      BY <3>1, <3>2
  <2>8. ASSUME Ordered(p, o, number, w), ~v.lost, NEW k \in 1..Len(lines)
        PROVE  Holds(o, v, lines[k].n)
    <3>1. ~counted.lost
      BY <2>4, <2>8 DEF Advances
    <3>2. lines[k].n \in Nat
      BY <1>1, BufferTypes
    <3>3. Holds(o, out, lines[k].n)
      BY <1>3, <1>5, <2>1, <2>8, <3>1
    <3>4. Holds(o, counted, lines[k].n)
      BY <2>1, <3>3 DEF Holds
    <3>5. Ordered(p, o, c, counted)
      BY <2>2, <2>8 DEF Advances
    <3> QED
      BY <2>4, <2>8, <3>2, <3>4, <3>5 DEF Advances
  <2>9. Commit(p, o, v, {})
    BY <1>9
  <2> HIDE DEF v
  <2>10. Ends(v, {})
    BY <2>5, <2>6, <2>7, <2>8, <2>9
  <2> QED
    BY <2>10
<1>10. \/ stop_writing[p] /\ Commit(p, o, w, {"full"})
       \/ out.lost /\ Commit(p, o, out, {})
       \/ Commit(p, o, IF Due(counted.o, force) THEN FlushUnlocked(counted)
                       ELSE counted, {})
  BY DEF Output, w0, out
<1> QED
  BY <1>7, <1>8, <1>9, <1>10

-----------------------------------------------------------------------------
(* The steps of one process on one object.                                 *)

\* An object without a file that is not about to create one failed to.
Idle(r, t) == r.file = 0 /\ r.attempt # Frequency - 1 => t # {}

\* What a step of p on its object o leaves, lines being the message of a Write.
Leaves(p, o, c, lines, v) ==
  /\ Advances(p, o, number, c, Memory(p, o), v)
  /\ obj' = [obj EXCEPT ![p][o] = v.o] /\ disk' = v.disk
  /\ troubles \subseteq troubles' /\ (v.lost => troubles' # {})
  /\ Ordered(p, o, number, Memory(p, o)) /\ Spanned(Memory(p, o)) => Spanned(v)
  /\ Idle(obj[p][o], troubles) =>
       /\ Idle(v.o, troubles')
       /\ Ordered(p, o, number, Memory(p, o)) /\ troubles' = {} =>
            \A k \in 1..Len(lines) : Holds(o, v, lines[k].n)

\* What Commit commits, with the troubles there were.
LEMMA CommitLeaves ==
  ASSUME NEW p, NEW o, NEW v, NEW other, Commit(p, o, v, other)
  PROVE  /\ obj' = [obj EXCEPT ![p][o] = v.o] /\ disk' = v.disk
         /\ troubles \subseteq troubles' /\ other \subseteq troubles'
         /\ v.lost => troubles' # {}
BY DEF Commit

\* A buffer that is kept or emptied spans no more than before.
LEMMA SpannedLess ==
  ASSUME NEW w, NEW v, Spanned(w), v.o.next = w.o.next,
         v.o.buffer \in {w.o.buffer, <<>>}
  PROVE  Spanned(v)
BY DEF Spanned

\* What a process begins with is in its memory.
LEMMA BegunLeaves ==
  ASSUME TypeOK, LogFileAssumption, NEW p \in Process, NEW o \in Object
  PROVE  LET w == Begun(p, o) IN
         /\ Fine(Memory(p, o)) /\ Fine(w)
         /\ Advances(p, o, number, number, Memory(p, o), w)
         /\ Memory(p, o).o = obj[p][o] /\ ~Memory(p, o).lost
         /\ \/ w = Memory(p, o) /\ ~TooLong(obj[p][o])
            \/ w.o.file = 0 /\ w.o.attempt = Frequency - 1 /\ w.o.length = 0
         /\ Spanned(Memory(p, o)) => Spanned(w)
<1>1. Memory(p, o).o = obj[p][o] /\ ~Memory(p, o).lost /\ Fine(Memory(p, o))
  BY MemoryProperties DEF Memory
<1> DEFINE w == Begun(p, o)
<1>2. /\ Advances(p, o, number, number, Memory(p, o), w)
      /\ \/ w = Memory(p, o) /\ ~TooLong(obj[p][o])
         \/ w.o.file = 0 /\ w.o.attempt = Frequency - 1 /\ w.o.length = 0
      /\ w.o.next = obj[p][o].next
      /\ w.o.buffer \in {obj[p][o].buffer, <<>>}
  BY AdvancesBegun
<1> HIDE DEF w
<1>3. Spanned(Memory(p, o)) => Spanned(w)
  BY <1>1, <1>2, SpannedLess
<1>4. Fine(w)
  BY <1>2 DEF Advances
<1> QED
  BY <1>1, <1>2, <1>3, <1>4 DEF w

\* A Write that is skipped: there is no file because creating it failed.
LEMMA SkippedLeaves ==
  ASSUME Inv, LogFileAssumption, NEW p \in Process, NEW o \in Object,
         NEW c \in Nat, number <= c, NEW lines, WriteSkipped(p, o)
  PROVE  \E v : Leaves(p, o, c, lines, v)
<1> DEFINE m == Memory(p, o)
           w == Begun(p, o)
           v == [w EXCEPT !.o.attempt = @ + 1]
<1>1. /\ Fine(m) /\ Fine(w) /\ Advances(p, o, number, number, m, w)
      /\ m.o = obj[p][o]
      /\ w = m \/ (w.o.file = 0 /\ w.o.attempt = Frequency - 1)
      /\ Spanned(m) => Spanned(w)
  BY BegunLeaves DEF Inv
<1>2. w.o.file = 0 /\ w.o.attempt + 1 # Frequency /\ Commit(p, o, v, {})
  BY DEF WriteSkipped, Skips
<1>3. number \in Nat /\ Frequency \in Nat \ {0}
  BY DEF Inv, TypeOK, LogFileAssumption
<1> HIDE DEF m, w
<1>4. w.o.attempt \in 0..(Frequency - 1) /\ w.o \in LogFileObject
  BY <1>1 DEF Fine, Work, LogFileObject
<1>5. w.o.attempt # Frequency - 1 /\ w.o.attempt + 1 \in 0..(Frequency - 1)
  <2>1. \A a, n \in Nat : a \in 0..(n - 1) /\ a + 1 # n =>
                           a # n - 1 /\ a + 1 \in 0..(n - 1)
    OBVIOUS
  <2>2. w.o.attempt \in Nat /\ Frequency \in Nat
    BY <1>3, <1>4
  <2> QED
    BY <1>2, <1>4, <2>1, <2>2
<1>6. w = m
  BY <1>1, <1>5
<1>7. /\ v.disk = w.disk /\ v.o.buffer = w.o.buffer /\ v.o.file = w.o.file
      /\ v.o.next = w.o.next /\ v.lost = w.lost
  BY <1>1 DEF Fine, Work, LogFileObject
<1>8. Fine(v)
  <2> DEFINE r == [w.o EXCEPT !.attempt = w.o.attempt + 1]
  <2>1. r \in LogFileObject /\ r.file = w.o.file
    BY <1>4, <1>5 DEF LogFileObject
  <2>2. v = [w EXCEPT !.o = r]
    OBVIOUS
  <2> HIDE DEF r, v
  <2> QED
    BY <1>1, <2>1, <2>2 DEF Fine, Work
<1> HIDE DEF v
<1>9. Advances(p, o, number, c, m, v)
  BY <1>1, <1>3, <1>6, <1>7, <1>8, AdvancesAside
<1>10. Spanned(m) => Spanned(v)
  BY <1>1, <1>7, SpannedLess
<1>11. /\ obj' = [obj EXCEPT ![p][o] = v.o] /\ disk' = v.disk
       /\ troubles \subseteq troubles' /\ (v.lost => troubles' # {})
  BY <1>2, CommitLeaves DEF v
<1>12. Idle(obj[p][o], troubles) => troubles' # {}
  BY <1>1, <1>2, <1>5, <1>6, <1>11 DEF Idle
<1>13. Leaves(p, o, c, lines, v)
  BY <1>9, <1>10, <1>11, <1>12 DEF Leaves, Idle, m
<1> QED
  BY <1>13

\* A Write for which no file can be created: that is trouble.
LEMMA UncreatedLeaves ==
  ASSUME Inv, LogFileAssumption, NEW p \in Process, NEW o \in Object,
         NEW c \in Nat, number <= c, NEW lines, NEW time, NEW refused,
         WriteUncreated(p, o, time, refused)
  PROVE  \E v : Leaves(p, o, c, lines, v)
<1> DEFINE m == Memory(p, o)
           w == Begun(p, o)
           v == Failed(w)
           why == {IF refused = {} THEN "exists" ELSE "refused"}
<1>1. /\ Fine(m) /\ Fine(w) /\ Advances(p, o, number, number, m, w)
      /\ Spanned(m) => Spanned(w)
  BY BegunLeaves DEF Inv
<1>2. Commit(p, o, v, why) /\ why # {}
  BY DEF WriteUncreated
<1>3. number \in Nat
  BY DEF Inv, TypeOK
<1> HIDE DEF m, w, why
<1>4. Fine(v)
  BY <1>1, FailedProperties
<1>5. /\ v.disk = w.disk /\ v.o.buffer = w.o.buffer /\ v.o.file = w.o.file
      /\ v.o.next = w.o.next /\ v.lost = w.lost
  BY <1>1 DEF Failed, Fine, Work, LogFileObject
<1> HIDE DEF v
<1>6. Advances(p, o, number, c, w, v)
  BY <1>1, <1>3, <1>4, <1>5, AdvancesAside
<1>7. Advances(p, o, number, c, m, v)
  BY <1>1, <1>6, AdvancesTwice
<1>8. Spanned(m) => Spanned(v)
  BY <1>1, <1>5, SpannedLess
<1>9. /\ obj' = [obj EXCEPT ![p][o] = v.o] /\ disk' = v.disk
      /\ troubles \subseteq troubles' /\ (v.lost => troubles' # {})
      /\ troubles' # {}
  BY <1>2, CommitLeaves DEF v
<1>10. Leaves(p, o, c, lines, v)
  BY <1>7, <1>8, <1>9 DEF Leaves, Idle, m
<1> QED
  BY <1>10

\* What the output of a message makes of an object that has a file.
LEMMA OutputLeaves ==
  ASSUME Inv, LogFileAssumption, NEW p \in Process, NEW o \in Object,
         NEW w, Fine(w), NEW force, NEW c, NEW lines,
         NewLines(p, number, c, lines), w.o.file # 0,
         \A k \in 1..Len(lines) : lines[k].at = clock,
         Output(p, o, w, force, lines),
         Advances(p, o, number, number, Memory(p, o), w),
         Spanned(Memory(p, o)) => Spanned(w)
  PROVE  \E v : Leaves(p, o, c, lines, v)
<1> DEFINE m == Memory(p, o)
<1>1. PICK v, other :
        /\ Commit(p, o, v, other)
        /\ Advances(p, o, number, c, w, v)
        /\ v.o.file # 0 /\ v.o.attempt = w.o.attempt
        /\ Spanned(w) => Spanned(v)
        /\ Ordered(p, o, number, w) /\ ~v.lost /\ other = {} =>
             \A k \in 1..Len(lines) : Holds(o, v, lines[k].n)
  BY AdvancesOutput DEF Inv
<1>2. Fine(m)
  BY MemoryProperties DEF Inv
<1> HIDE DEF m
<1>3. Advances(p, o, number, number, m, w)
  BY DEF m
<1>4. Advances(p, o, number, c, m, v)
  BY <1>1, <1>2, <1>3, AdvancesTwice
<1>5. /\ obj' = [obj EXCEPT ![p][o] = v.o] /\ disk' = v.disk
      /\ troubles \subseteq troubles' /\ (v.lost => troubles' # {})
      /\ other \subseteq troubles'
  BY <1>1, CommitLeaves
<1>6. Spanned(m) => Spanned(v)
  BY <1>1 DEF m
<1>7. ASSUME Ordered(p, o, number, m), troubles' = {}
      PROVE  \A k \in 1..Len(lines) : Holds(o, v, lines[k].n)
  <2>1. Ordered(p, o, number, w)
    BY <1>3, <1>7 DEF Advances
  <2>2. ~v.lost /\ other = {}
    BY <1>5, <1>7
  <2> QED
    BY <1>1, <2>1, <2>2
<1>8. Idle(v.o, troubles')
  BY <1>1 DEF Idle
<1>9. Leaves(p, o, c, lines, v)
  BY <1>4, <1>5, <1>6, <1>7, <1>8 DEF Leaves, m
<1> QED
  BY <1>9

\* A Write to the file that is open.
LEMMA ToFileLeaves ==
  ASSUME Inv, LogFileAssumption, NEW p \in Process, NEW o \in Object,
         NEW force, NEW c, NEW lines,
         NewLines(p, number, c, lines),
         \A k \in 1..Len(lines) : lines[k].at = clock,
         WriteToFile(p, o, force, lines)
  PROVE  \E v : Leaves(p, o, c, lines, v)
<1> DEFINE w == Begun(p, o)
<1>1. /\ Fine(w) /\ Advances(p, o, number, number, Memory(p, o), w)
      /\ Spanned(Memory(p, o)) => Spanned(w)
  BY BegunLeaves DEF Inv
<1>2. w.o.file # 0 /\ Output(p, o, w, force, lines)
  BY DEF WriteToFile
<1> HIDE DEF w
<1> QED
  BY <1>1, <1>2, OutputLeaves

\* A Write to a new file, after its header.
LEMMA ToNewFileLeaves ==
  ASSUME Inv, LogFileAssumption, NEW p \in Process, NEW o \in Object,
         NEW force, NEW c, NEW lines, NEW time \in 0..MaxTime,
         NEW refused, NewLines(p, number, c, lines),
         \A k \in 1..Len(lines) : lines[k].at = clock,
         WriteToNewFile(p, o, force, time, lines, refused)
  PROVE  \E v : Leaves(p, o, c, lines, v)
<1> DEFINE m == Memory(p, o)
           w == Begun(p, o)
<1>1. /\ Fine(m) /\ Fine(w) /\ Advances(p, o, number, number, m, w)
      /\ Spanned(m) => Spanned(w)
  BY BegunLeaves DEF Inv
<1>2. w.o.file = 0 /\ CheckPid(p, o)
  BY DEF WriteToNewFile
<1>3. g_main_thread_pid'[p] \in Process
  BY <1>2 DEF CheckPid, Inv, TypeOK
<1>4. PICK i \in 1..Len(Candidates(w.o)) :
        Output(p, o, Created(p, o, w, time, Candidates(w.o)[i]),
               force, lines)
  BY DEF WriteToNewFile, Creatable
<1> DEFINE u == Created(p, o, w, time, Candidates(w.o)[i])
<1> HIDE DEF w, m
<1>5. Candidates(w.o)[i] \in Place
  BY <1>1, CandidatesProperties DEF Fine, Work
<1>6. /\ Advances(p, o, number, number, w, u)
      /\ u.o.file # 0 /\ u.o.next = w.o.next
      /\ u.o.buffer = w.o.buffer \o <<Header(p)>> \/ u.o.buffer = <<>>
  <2>1. Advances(p, o, number, number, w, u) /\ Heads(p, w, u)
    BY <1>1, <1>2, <1>3, <1>5, AdvancesCreated DEF Inv
  <2> HIDE DEF u
  <2> QED
    BY <2>1 DEF Heads
<1>7. Output(p, o, u, force, lines)
  BY <1>4
<1> HIDE DEF u
<1>8. Advances(p, o, number, number, m, u) /\ Fine(u)
  BY <1>1, <1>6, AdvancesTwice DEF Advances
<1>9. Spanned(m) => Spanned(u)
  <2> SUFFICES ASSUME Spanned(m)
               PROVE  Spanned(u)
    OBVIOUS
  <2> DEFINE h == <<Header(p)>>
  <2>1. /\ h \in Seq(Line) /\ Len(h) = 1 /\ h[1].n = 0
        /\ clock \in Nat /\ LogBufSecs \in Nat
    BY DEF Header, Line, Inv, TypeOK, LogFileAssumption
  <2>2. u.o.buffer \in {w.o.buffer, w.o.buffer \o h, <<>>}
    BY <1>6
  <2> HIDE DEF h
  <2>3. Len(h) <= 1 /\ \A k \in 1..Len(h) : h[k].n = 0
    BY <2>1
  <2> QED
    BY <1>1, <1>6, <2>1, <2>2, <2>3, SpannedMore
<1> QED
  BY <1>6, <1>7, <1>8, <1>9, OutputLeaves DEF m

\* A call of the client, which writes nothing.
LEMMA ClientLeaves ==
  ASSUME Inv, LogFileAssumption, NEW p \in Process, NEW o \in Object,
         Flush(p, o) \/ SetBasename(p, o) \/ SetExtension(p, o)
  PROVE  \E v : Leaves(p, o, number, <<>>, v)
<1> DEFINE m == Memory(p, o)
<1>1. /\ Fine(m) /\ m.o = obj[p][o] /\ full \in BOOLEAN /\ clock \in Nat
      /\ LogBufSecs \in Nat /\ number \in Nat
  BY MemoryProperties DEF Inv, TypeOK, LogFileAssumption
<1>2. ASSUME NEW u, NEW v, Commit(p, o, v, {}),
             Advances(p, o, number, number, m, u), Fine(v),
             v.disk = u.disk, v.lost = u.lost, v.o.buffer = u.o.buffer,
             v.o.file = u.o.file,
             v.o.attempt = u.o.attempt,
             Ordered(p, o, number, m) /\ Spanned(m) => Spanned(v),
             u.o.file = 0 => u.o.attempt = Frequency - 1 \/ u.o = m.o
                               \/ (u.o.attempt = m.o.attempt /\ m.o.file = 0)
      PROVE  \E x : Leaves(p, o, number, <<>>, x)
  <2> HIDE DEF m
  <2>1. Fine(u)
    BY <1>2 DEF Advances
  <2>2. Advances(p, o, number, number, u, v)
    BY <1>1, <1>2, <2>1, AdvancesAside
  <2>3. Advances(p, o, number, number, m, v)
    BY <1>1, <1>2, <2>2, AdvancesTwice
  <2>4. /\ obj' = [obj EXCEPT ![p][o] = v.o] /\ disk' = v.disk
        /\ troubles \subseteq troubles' /\ (v.lost => troubles' # {})
    BY <1>2, CommitLeaves
  <2>5. Idle(obj[p][o], troubles) => Idle(v.o, troubles')
    BY <1>1, <1>2, <2>4 DEF Idle
  <2>6. Leaves(p, o, number, <<>>, v)
    BY <1>2, <2>3, <2>4, <2>5 DEF Leaves, m
  <2> QED
    BY <2>6
<1>3. CASE Flush(p, o)
  <2> DEFINE v == FlushUnlocked(m)
  <2>1. Commit(p, o, v, {})
    BY <1>3 DEF Flush, Change
  <2> HIDE DEF m
  <2>2. /\ Advances(p, o, number, number, m, v)
        /\ v.o.file = m.o.file /\ v.o.attempt = m.o.attempt
        /\ v.o.next = clock + LogBufSecs
        /\ v.o.buffer = IF m.o.file = 0 THEN m.o.buffer ELSE <<>>
    BY <1>1, AdvancesFlush
  <2> HIDE DEF v
  <2>3. CASE m.o.file # 0
    <3>1. Spanned(v)
      BY <1>1, <2>2, <2>3 DEF Spanned
    <3> QED
      BY <1>2, <2>1, <2>2, <2>3, <3>1 DEF Advances
  <2>4. CASE m.o.file = 0
    <3>1. Ordered(p, o, number, m) /\ Spanned(m) => Spanned(v)
      <4>1. Ordered(p, o, number, m) => v.o.buffer = <<>>
        BY <2>2, <2>4 DEF Ordered, OwnFile
      <4> QED
        BY <1>1, <2>2, <4>1 DEF Spanned
    <3> QED
      BY <1>2, <2>1, <2>2, <2>4, <3>1 DEF Advances
  <2> QED
    BY <2>3, <2>4
<1>4. ASSUME NEW u, u \in {m, Renamed(m)}
      PROVE  /\ Advances(p, o, number, number, m, u) /\ Fine(u)
             /\ Spanned(m) => Spanned(u)
             /\ u.o.file = 0 => u.o.attempt = Frequency - 1 \/ u.o = m.o
                                  \/ (u.o.attempt = m.o.attempt /\ m.o.file = 0)
  <2> DEFINE r == Renamed(m)
  <2> HIDE DEF m
  <2>1. /\ Advances(p, o, number, number, m, r)
        /\ r.o.buffer \in {m.o.buffer, <<>>} /\ r.o.next = m.o.next
        /\ r.o.attempt = IF m.o.file = 0 THEN m.o.attempt ELSE Frequency - 1
    BY <1>1, AdvancesRenamed
  <2> HIDE DEF r
  <2>2. Spanned(m) => Spanned(r)
    BY <2>1, SpannedLess
  <2>3. Advances(p, o, number, number, m, m)
    BY <1>1, AdvancesAside
  <2>4. u \in {m, r}
    BY <1>4 DEF r
  <2> QED
    BY <2>1, <2>2, <2>3, <2>4 DEF Advances
<1>5. CASE SetBasename(p, o)
  <2>1. PICK b \in Basename :
          Change(p, o, [IF obj[p][o].base # b THEN Renamed(m) ELSE m
                          EXCEPT !.o.selected = TRUE, !.o.base = b])
    BY <1>5 DEF SetBasename
  <2> DEFINE u == IF obj[p][o].base # b THEN Renamed(m) ELSE m
             r == [u.o EXCEPT !.selected = TRUE, !.base = b]
             v == [u EXCEPT !.o = r]
  <2>2. Commit(p, o, v, {})
    BY <2>1 DEF Change
  <2>3. u \in {m, Renamed(m)}
    OBVIOUS
  <2> HIDE DEF m, u
  <2>4. /\ Advances(p, o, number, number, m, u) /\ Fine(u)
        /\ Spanned(m) => Spanned(u)
        /\ u.o.file = 0 => u.o.attempt = Frequency - 1 \/ u.o = m.o
                             \/ (u.o.attempt = m.o.attempt /\ m.o.file = 0)
    BY <1>4, <2>3
  <2>5. u.o \in LogFileObject /\ u \in Work /\ b \in Place
    BY <2>4 DEF Fine, Work, Place
  <2>6. /\ r \in LogFileObject /\ r.file = u.o.file
        /\ r.attempt = u.o.attempt /\ r.next = u.o.next
        /\ r.buffer = u.o.buffer
    BY <2>5 DEF LogFileObject
  <2> HIDE DEF r
  <2>7. v \in Work /\ v.o = r /\ v.disk = u.disk /\ v.lost = u.lost
    BY <2>5, <2>6 DEF Work
  <2>8. Fine(v)
    BY <2>4, <2>6, <2>7 DEF Fine
  <2> HIDE DEF v
  <2>9. Spanned(u) => Spanned(v)
    BY <2>6, <2>7, SpannedLess
  <2> QED
    BY <1>2, <2>2, <2>4, <2>6, <2>7, <2>8, <2>9
<1>6. CASE SetExtension(p, o)
  <2>1. PICK e \in Extension : Change(p, o, [Renamed(m) EXCEPT !.o.ext = e])
    BY <1>6 DEF SetExtension
  <2> DEFINE u == Renamed(m)
             r == [u.o EXCEPT !.ext = e]
             v == [u EXCEPT !.o = r]
  <2>2. Commit(p, o, v, {})
    BY <2>1 DEF Change
  <2>3. u \in {m, Renamed(m)}
    OBVIOUS
  <2> HIDE DEF m, u
  <2>4. /\ Advances(p, o, number, number, m, u) /\ Fine(u)
        /\ Spanned(m) => Spanned(u)
        /\ u.o.file = 0 => u.o.attempt = Frequency - 1 \/ u.o = m.o
                             \/ (u.o.attempt = m.o.attempt /\ m.o.file = 0)
    BY <1>4, <2>3
  <2>5. u.o \in LogFileObject /\ u \in Work
    BY <2>4 DEF Fine, Work
  <2>6. /\ r \in LogFileObject /\ r.file = u.o.file
        /\ r.attempt = u.o.attempt /\ r.next = u.o.next
        /\ r.buffer = u.o.buffer
    BY <2>5 DEF LogFileObject
  <2> HIDE DEF r
  <2>7. v \in Work /\ v.o = r /\ v.disk = u.disk /\ v.lost = u.lost
    BY <2>5, <2>6 DEF Work
  <2>8. Fine(v)
    BY <2>4, <2>6, <2>7 DEF Fine
  <2> HIDE DEF v
  <2>9. Spanned(u) => Spanned(v)
    BY <2>6, <2>7, SpannedLess
  <2> QED
    BY <1>2, <2>2, <2>4, <2>6, <2>7, <2>8, <2>9
<1> QED
  BY <1>3, <1>5, <1>6

-----------------------------------------------------------------------------
(* The inductive invariant.                                                *)

\* The lines are in order and the buffers span no more than they may, of every
\* process there is; while there was no trouble every message is somewhere.
OrderInv ==
  \A p \in alive, o \in Object : Ordered(p, o, number, Memory(p, o))
SpanInv == \A p \in alive, o \in Object : Spanned(Memory(p, o))
IdleInv == \A p \in alive, o \in Object : Idle(obj[p][o], troubles)
Kept(o, n) ==
  \/ OnDisk(o, disk, n)
  \/ \E p \in alive : InBuffer(obj[p][o].buffer, n)
KeptInv ==
  troubles = {} => \A o \in Object : \A n \in accepted[o] : Kept(o, n)
ContentInv ==
  /\ OrderInv /\ SpanInv /\ IdleInv /\ KeptInv
  /\ forkedAt <= number

\* What one process does leaves the lines of every other object in order: it
\* adds no line that is that object's own.
LEMMA OthersOrdered ==
  ASSUME NEW p, NEW o, NEW q, NEW r, q # p \/ r # o, NEW w, NEW u,
         Fine(w), Fine(u), u.o = w.o, NEW b \in Nat, NEW c \in Nat, b <= c,
         Ordered(q, r, b, w), Grown(p, o, w.disk, u.disk),
         DiskOrdered(u.disk), Bounded(c, u.disk)
  PROVE  Ordered(q, r, c, u)
<1> DEFINE d == w.disk
           e == u.disk
           f == w.o.buffer
<1>1. d \in Seq(File) /\ e \in Seq(File) /\ f \in Seq(Line)
  BY DEF Fine, Work, LogFileObject
<1>2. /\ DiskOrdered(d) /\ Bounded(b, d) /\ BufferOrdered(q, b, f)
      /\ After(q, r, d, w.o) /\ OwnFile(r, d, w.o) /\ Grown(p, o, d, e)
      /\ DiskOrdered(e) /\ Bounded(c, e)
  BY DEF Ordered
<1>3. /\ Len(d) \in Nat /\ Len(e) \in Nat
      /\ \A i \in 1..Len(d) : Len(d[i].lines) \in Nat
      /\ \A k \in 1..Len(f) : f[k].n \in Nat
      /\ w.o.file \in Nat /\ w.o.file <= Len(d)
  BY <1>1, DiskTypes, BufferTypes DEF Fine, Work, LogFileObject
<1> HIDE DEF d, e, f
<1>4. BufferOrdered(q, c, f)
  <2> SUFFICES ASSUME NEW k \in 1..Len(f)
               PROVE  f[k].n <= c
    BY <1>2 DEF BufferOrdered
  <2>1. f[k].n <= b /\ f[k].n \in Nat
    BY <1>2, <1>3 DEF BufferOrdered
  <2> QED
    BY <2>1
<1>5. After(q, r, e, w.o)
  <2> SUFFICES ASSUME NEW i \in 1..Len(e), NEW k \in 1..Len(e[i].lines),
                      e[i].of = r, e[i].lines[k].by = q, Own(e[i].lines[k])
               PROVE  /\ w.o.file # 0 => i <= w.o.file
                      /\ \A l \in 1..Len(w.o.buffer) :
                           Own(w.o.buffer[l])
                             => e[i].lines[k].n < w.o.buffer[l].n
    BY DEF After
  <2>1. i <= Len(d) /\ k <= Len(d[i].lines)
    BY <1>2 DEF Grown
  <2>2. i \in 1..Len(d) /\ k \in 1..Len(d[i].lines)
    BY <1>3, <2>1
  <2>3. d[i].of = r /\ d[i].lines[k] = e[i].lines[k]
    BY <1>2, <2>2 DEF Grown
  <2> QED
    BY <1>2, <2>2, <2>3 DEF After
<1>6. OwnFile(r, e, w.o)
  <2>1. CASE w.o.file = 0
    BY <1>2, <2>1 DEF OwnFile
  <2>2. CASE w.o.file # 0
    <3>1. w.o.file \in 1..Len(d)
      BY <1>3, <2>2
    <3> QED
      BY <1>2, <2>2, <3>1 DEF OwnFile, Grown
  <2> QED
    BY <2>1, <2>2
<1> QED
  BY <1>2, <1>4, <1>5, <1>6 DEF Ordered, e, f

\* What holds of the work on an object holds of the object when it is stored.
LEMMA OrderedNext ==
  ASSUME NEW p, NEW o, NEW w, NEW c, number' = c, forkedAt' = forkedAt,
         disk' = w.disk, obj'[p][o] = w.o, Ordered(p, o, c, w)
  PROVE  Ordered(p, o, number, Memory(p, o))'
<1>1. DiskOrdered(w.disk) /\ Bounded(c, w.disk)
      /\ BufferOrdered(p, c, w.o.buffer)
      /\ After(p, o, w.disk, w.o) /\ OwnFile(o, w.disk, w.o)
  BY DEF Ordered
<1>2. Memory(p, o)' = [o |-> w.o, disk |-> w.disk, lost |-> FALSE]
  BY DEF Memory
<1>3. \A x : Own(x)' <=> Own(x)
  BY DEF Own
<1>4. DiskOrdered(disk)'
  BY <1>1, <1>3 DEF DiskOrdered
<1>5. Bounded(number, disk)'
  BY <1>1 DEF Bounded
<1>6. BufferOrdered(p, number, obj[p][o].buffer)'
  BY <1>1, <1>3 DEF BufferOrdered
<1>7. After(p, o, disk, obj[p][o])'
  BY <1>1, <1>3 DEF After
<1>8. OwnFile(o, disk, obj[p][o])'
  BY <1>1 DEF OwnFile
<1> QED
  BY <1>4, <1>5, <1>6, <1>7, <1>8 DEF Ordered, Memory

\* What is on a disk stays there when lines are added.
LEMMA OnDiskStays ==
  ASSUME NEW p, NEW o, NEW r, NEW n, NEW d \in Seq(File), NEW e \in Seq(File),
         Grown(p, o, d, e), OnDisk(r, d, n)
  PROVE  OnDisk(r, e, n)
<1>1. PICK i \in 1..Len(d) :
        d[i].of = r /\ \E k \in 1..Len(d[i].lines) : d[i].lines[k].n = n
  BY DEF OnDisk
<1>2. PICK k \in 1..Len(d[i].lines) : d[i].lines[k].n = n
  BY <1>1
<1>3. Len(d) \in Nat /\ Len(e) \in Nat /\ Len(d) <= Len(e)
  BY DiskTypes DEF Grown
<1>4. i \in 1..Len(e)
  BY <1>3
<1>5. /\ e[i].of = d[i].of /\ Len(d[i].lines) <= Len(e[i].lines)
      /\ e[i].lines[k] = d[i].lines[k]
  BY DEF Grown
<1>6. Len(d[i].lines) \in Nat /\ Len(e[i].lines) \in Nat
  BY <1>4, DiskTypes
<1>7. k \in 1..Len(e[i].lines)
  BY <1>5, <1>6
<1> QED
  BY <1>1, <1>2, <1>4, <1>5, <1>7 DEF OnDisk

\* A step of one process on one of its objects keeps the invariant.
LEMMA LeavesStep ==
  ASSUME Inv, Inv', ContentInv, NEW p \in alive, NEW o \in Object,
         NEW c \in Nat, number <= c, NEW lines, NEW v, Leaves(p, o, c, lines, v),
         number' = c, UNCHANGED <<alive, clock, forkedAt>>,
         \A r \in Object : \A n \in accepted'[r] :
           \/ n \in accepted[r]
           \/ r = o /\ \E k \in 1..Len(lines) : lines[k].n = n
  PROVE  ContentInv'
<1> DEFINE m == Memory(p, o)
<1>1. /\ TypeOK /\ p \in Process /\ number \in Nat /\ forkedAt \in Nat
      /\ alive \subseteq Process
      /\ obj \in [Process -> [Object -> LogFileObject]] /\ disk \in Seq(File)
      /\ disk' \in Seq(File) /\ disk' = v.disk
      /\ obj' = [obj EXCEPT ![p][o] = v.o]
  BY DEF Inv, TypeOK, Leaves
<1>2. /\ obj'[p][o] = v.o
      /\ \A q \in Process, r \in Object :
           q # p \/ r # o => obj'[q][r] = obj[q][r]
  BY <1>1
<1>3. /\ Fine(m) /\ m.o = obj[p][o] /\ m.disk = disk /\ m.lost = FALSE
      /\ Ordered(p, o, number, m) /\ Spanned(m) /\ Idle(obj[p][o], troubles)
  BY <1>1, MemoryProperties DEF ContentInv, OrderInv, SpanInv, IdleInv, Memory
<1>4. /\ Fine(v) /\ Ordered(p, o, c, v) /\ Grown(p, o, disk, v.disk)
      /\ ~v.lost => \A n \in Nat : Holds(o, m, n) => Holds(o, v, n)
      /\ Spanned(v) /\ Idle(v.o, troubles')
      /\ troubles' = {} => \A k \in 1..Len(lines) : Holds(o, v, lines[k].n)
      /\ troubles \subseteq troubles' /\ (v.lost => troubles' # {})
  BY <1>3 DEF Leaves, Advances, m
<1> HIDE DEF m
<1>5. OrderInv'
  <2> SUFFICES ASSUME NEW q \in alive, NEW r \in Object
               PROVE  Ordered(q, r, number, Memory(q, r))'
    BY DEF OrderInv
  <2>1. CASE q = p /\ r = o
    BY <1>1, <1>2, <1>4, <2>1, OrderedNext
  <2>2. CASE q # p \/ r # o
    <3> DEFINE w == Memory(q, r)
               u == [o |-> obj[q][r], disk |-> v.disk, lost |-> FALSE]
    <3>1. Fine(w) /\ w.o = obj[q][r] /\ w.disk = disk
      BY <1>1, MemoryProperties
    <3>2. Ordered(q, r, number, w)
      BY DEF ContentInv, OrderInv
    <3>3. Len(disk) \in Nat /\ Len(v.disk) \in Nat /\ Len(disk) <= Len(v.disk)
      BY <1>1, <1>4, DiskTypes DEF Grown
    <3>4. obj[q][r] \in LogFileObject /\ obj[q][r].file <= Len(disk)
      BY <1>1 DEF TypeOK
    <3>5. Fine(u) /\ u.o = obj[q][r] /\ u.disk = v.disk
      <4>1. obj[q][r].file <= Len(v.disk)
        BY <3>3, <3>4 DEF LogFileObject
      <4> QED
        BY <1>1, <3>4, <4>1 DEF Fine, Work
    <3>6. DiskOrdered(v.disk) /\ Bounded(c, v.disk)
      BY <1>4 DEF Ordered
    <3> HIDE DEF w, u
    <3>7. Ordered(q, r, c, u)
      <4>1. u.o = w.o /\ Grown(p, o, w.disk, u.disk)
            /\ DiskOrdered(u.disk) /\ Bounded(c, u.disk)
        BY <1>4, <3>1, <3>5, <3>6
      <4> QED
        BY <1>1, <2>2, <3>1, <3>2, <3>5, <4>1, OthersOrdered
    <3>8. obj'[q][r] = u.o /\ disk' = u.disk
      BY <1>1, <1>2, <2>2, <3>5
    <3> QED
      BY <3>7, <3>8, OrderedNext
  <2> QED
    BY <2>1, <2>2
<1>6. SpanInv'
  <2> SUFFICES ASSUME NEW q \in alive, NEW r \in Object
               PROVE  Spanned(Memory(q, r))'
    BY DEF SpanInv
  <2>1. CASE q = p /\ r = o
    BY <1>2, <1>4, <2>1 DEF Spanned, Memory
  <2>2. CASE q # p \/ r # o
    <3>1. obj'[q][r] = obj[q][r]
      BY <1>1, <1>2, <2>2
    <3>2. Spanned(Memory(q, r))
      BY DEF ContentInv, SpanInv
    <3> QED
      BY <3>1, <3>2 DEF Spanned, Memory
  <2> QED
    BY <2>1, <2>2
<1>7. IdleInv'
  <2> SUFFICES ASSUME NEW q \in alive, NEW r \in Object
               PROVE  Idle(obj'[q][r], troubles')
    BY DEF IdleInv, Idle
  <2>1. CASE q = p /\ r = o
    BY <1>2, <1>4, <2>1
  <2>2. CASE q # p \/ r # o
    <3>1. obj'[q][r] = obj[q][r]
      BY <1>1, <1>2, <2>2
    <3>2. Idle(obj[q][r], troubles)
      BY DEF ContentInv, IdleInv
    <3> QED
      BY <1>4, <3>1, <3>2 DEF Idle
  <2> QED
    BY <2>1, <2>2
<1>8. KeptInv'
  <2> SUFFICES ASSUME troubles' = {}, NEW r \in Object, NEW n \in accepted'[r]
               PROVE  Kept(r, n)'
    BY DEF KeptInv
  <2>1. ASSUME Holds(o, v, n), r = o
        PROVE  Kept(r, n)'
    BY <1>1, <1>2, <2>1 DEF Holds, Kept, OnDisk
  <2>2. CASE r = o /\ \E k \in 1..Len(lines) : lines[k].n = n
    BY <1>4, <2>1, <2>2
  <2>3. CASE n \in accepted[r]
    <3>1. n \in Nat
      BY <2>3 DEF Inv, TypeOK
    <3>2. Kept(r, n)
      BY <1>4, <2>3 DEF ContentInv, KeptInv
    <3>3. CASE OnDisk(r, disk, n)
      <4>1. OnDisk(r, disk', n)
        BY <1>1, <1>4, <3>3, OnDiskStays
      <4> QED
        BY <4>1 DEF Kept, OnDisk
    <3>4. ASSUME NEW q \in alive, InBuffer(obj[q][r].buffer, n)
          PROVE  Kept(r, n)'
      <4>1. CASE q = p /\ r = o
        <5>1. Holds(o, m, n)
          BY <1>3, <3>4, <4>1 DEF Holds
        <5>2. Holds(o, v, n)
          BY <1>4, <3>1, <5>1
        <5> QED
          BY <2>1, <4>1, <5>2
      <4>2. CASE q # p \/ r # o
        <5>1. obj'[q][r] = obj[q][r]
          BY <1>1, <1>2, <4>2
        <5> QED
          BY <3>4, <5>1 DEF Kept, InBuffer
      <4> QED
        BY <4>1, <4>2
    <3> QED
      BY <3>2, <3>3, <3>4 DEF Kept
  <2> QED
    BY <2>2, <2>3
<1>9. forkedAt' <= number'
  BY <1>1 DEF ContentInv
<1> QED
  BY <1>5, <1>6, <1>7, <1>8, <1>9 DEF ContentInv

\* A Write to an object that is switched off changes nothing.
LEMMA IgnoredLeaves ==
  ASSUME Inv, NEW p \in Process, NEW o \in Object, NEW c \in Nat, number <= c,
         WriteIgnored(p, o)
  PROVE  Leaves(p, o, c, <<>>, Memory(p, o))
<1> DEFINE m == Memory(p, o)
<1>1. /\ Fine(m) /\ m.o = obj[p][o] /\ m.disk = disk /\ m.lost = FALSE
      /\ number \in Nat /\ obj \in [Process -> [Object -> LogFileObject]]
  BY MemoryProperties DEF Inv, TypeOK, Memory
<1>2. obj' = [obj EXCEPT ![p][o] = m.o] /\ disk' = m.disk /\ troubles' = troubles
  BY <1>1 DEF WriteIgnored
<1> HIDE DEF m
<1>3. Advances(p, o, number, c, m, m)
  BY <1>1, AdvancesAside
<1> QED
  BY <1>1, <1>2, <1>3 DEF Leaves, m

\* Every Write, of a message or of nothing.
LEMMA WriteContents ==
  ASSUME Inv, LogFileAssumption, NEW p \in Process, NEW o \in Object,
         NEW force, NEW c, NEW lines, NEW time \in 0..MaxTime,
         NewLines(p, number, c, lines),
         \A k \in 1..Len(lines) : lines[k].at = clock,
         Write(p, o, force, time, lines)
  PROVE  \/ WriteIgnored(p, o)
         \/ ~Deselected(obj[p][o]) /\ \E v : Leaves(p, o, c, lines, v)
<1>1. c \in Nat /\ number <= c
  BY DEF NewLines
<1>2. CASE WriteSkipped(p, o)
  <2>1. \E v : Leaves(p, o, c, lines, v)
    BY <1>1, <1>2, SkippedLeaves
  <2> QED
    BY <1>2, <2>1 DEF WriteSkipped
<1>3. CASE WriteToFile(p, o, force, lines)
  <2>1. \E v : Leaves(p, o, c, lines, v)
    BY <1>3, ToFileLeaves
  <2> QED
    BY <1>3, <2>1 DEF WriteToFile
<1>4. ASSUME NEW refused, WriteUncreated(p, o, time, refused)
      PROVE  ~Deselected(obj[p][o]) /\ \E v : Leaves(p, o, c, lines, v)
  <2>1. \E v : Leaves(p, o, c, lines, v)
    BY <1>1, <1>4, UncreatedLeaves
  <2> QED
    BY <1>4, <2>1 DEF WriteUncreated
<1>5. ASSUME NEW refused,
             WriteToNewFile(p, o, force, time, lines, refused)
      PROVE  ~Deselected(obj[p][o]) /\ \E v : Leaves(p, o, c, lines, v)
  <2>1. \E v : Leaves(p, o, c, lines, v)
    BY <1>5, ToNewFileLeaves
  <2> QED
    BY <1>5, <2>1 DEF WriteToNewFile
<1> QED
  BY <1>2, <1>3, <1>4, <1>5 DEF Write

\* A message that is written is a new line.
LEMMA MessageStep ==
  ASSUME Inv, Inv', LogFileAssumption, ContentInv, NEW p \in Process,
         NEW o \in Object, WriteMessage(p, o)
  PROVE  ContentInv'
<1> DEFINE c == number + 1
<1>1. PICK force \in BOOLEAN, time \in {clock - 1, clock} \ {0},
           len \in MessageLen :
        /\ p \in alive /\ number < MaxMessages /\ number' = number + 1
        /\ Write(p, o, force, time,
                 <<[n |-> number + 1, by |-> p, at |-> clock, len |-> len]>>)
        /\ accepted' = IF Deselected(obj[p][o]) THEN accepted
                       ELSE [accepted EXCEPT ![o] = @ \cup {number + 1}]
        /\ UNCHANGED <<alive, full, clock, events, forkedAt>>
  BY DEF WriteMessage
<1> DEFINE l == [n |-> number + 1, by |-> p, at |-> clock, len |-> len]
           lines == <<l>>
<1>2. /\ number \in Nat /\ c \in Nat /\ number <= c /\ c > number
      /\ time \in 0..MaxTime /\ c \in 0..MaxMessages /\ clock \in 0..MaxTime
      /\ len \in Nat
  BY <1>1 DEF Inv, TypeOK, LogFileAssumption
<1>3. l \in Line /\ l.n = c /\ l.by = p /\ l.at = clock
  BY <1>2 DEF Line
<1>4. /\ lines \in Seq(Line) /\ Len(lines) = 1 /\ lines[1] = l
      /\ Write(p, o, force, time, lines)
  BY <1>1, <1>3
<1> HIDE DEF l, lines, c
<1>5. NewLines(p, number, c, lines) /\ \A k \in 1..Len(lines) : lines[k].at = clock
  <2>1. \A k \in 1..Len(lines) : lines[k] = l
    BY <1>4
  <2>2. c <= c
    BY <1>2
  <2> QED
    BY <1>2, <1>3, <1>4, <2>1, <2>2 DEF NewLines
<1>6. CASE WriteIgnored(p, o)
  <2>1. Leaves(p, o, c, <<>>, Memory(p, o))
    BY <1>2, <1>6, IgnoredLeaves
  <2>2. accepted' = accepted
    BY <1>1, <1>6 DEF WriteIgnored
  <2> QED
    BY <1>1, <1>2, <2>1, <2>2, LeavesStep DEF c
<1>7. ASSUME NEW v, Leaves(p, o, c, lines, v), ~Deselected(obj[p][o])
      PROVE  ContentInv'
  <2>1. \A r \in Object : \A n \in accepted'[r] :
          \/ n \in accepted[r]
          \/ r = o /\ n = c
    <3>1. accepted' = [accepted EXCEPT ![o] = @ \cup {c}]
      BY <1>1, <1>7 DEF c
    <3>2. accepted \in [Object -> SUBSET (1..MaxMessages)]
      BY DEF Inv, TypeOK
    <3> QED
      BY <3>1, <3>2
  <2>2. \A r \in Object : \A n \in accepted'[r] :
          \/ n \in accepted[r]
          \/ r = o /\ \E k \in 1..Len(lines) : lines[k].n = n
    <3>1. 1 \in 1..Len(lines) /\ lines[1].n = c
      BY <1>3, <1>4
    <3> QED
      BY <2>1, <3>1
  <2> QED
    BY <1>1, <1>2, <1>7, <2>2, LeavesStep DEF c
<1> QED
  BY <1>1, <1>2, <1>4, <1>5, <1>6, <1>7, WriteContents

\* The flush of the FATAL path writes nothing new.
LEMMA FlushStep ==
  ASSUME Inv, Inv', LogFileAssumption, ContentInv, NEW p \in Process,
         NEW o \in Object, WriteFlush(p, o)
  PROVE  ContentInv'
<1>1. /\ p \in alive /\ Write(p, o, TRUE, 0, <<>>)
      /\ UNCHANGED <<alive, full, clock, number, forkedAt, accepted>>
  BY DEF WriteFlush
<1>2. number \in Nat /\ number <= number /\ 0 \in 0..MaxTime
  BY DEF Inv, TypeOK, LogFileAssumption
<1> DEFINE lines == <<>>
<1>3. lines \in Seq(Line) /\ Len(lines) = 0
  OBVIOUS
<1>4. NewLines(p, number, number, lines)
      /\ \A k \in 1..Len(lines) : lines[k].at = clock
  <2> HIDE DEF lines
  <2>1. 1..Len(lines) = {} /\ Len(lines) <= 1
    BY <1>3
  <2> QED
    BY <1>2, <1>3, <2>1 DEF NewLines
<1>5. WriteIgnored(p, o) \/ \E v : Leaves(p, o, number, lines, v)
  <2> HIDE DEF lines
  <2>1. Write(p, o, TRUE, 0, lines)
    BY <1>1 DEF lines
  <2> QED
    BY <1>2, <1>4, <2>1, WriteContents
<1>6. \E v : Leaves(p, o, number, <<>>, v)
  BY <1>2, <1>5, IgnoredLeaves
<1> QED
  BY <1>1, <1>2, <1>6, LeavesStep

\* A fork: no line is one process's own any more, and the child has the
\* objects of the parent.
LEMMA ForkStep ==
  ASSUME Inv, ContentInv, NEW p \in Process, NEW q \in Process, Fork(p, q)
  PROVE  ContentInv'
<1>1. /\ p \in alive /\ q \notin alive /\ alive' = alive \cup {q}
      /\ obj' = [obj EXCEPT ![q] = obj[p]] /\ forkedAt' = number
      /\ disk' = disk /\ clock' = clock /\ number' = number
      /\ accepted' = accepted /\ troubles' = troubles
  BY DEF Fork
<1>2. /\ obj \in [Process -> [Object -> LogFileObject]] /\ disk \in Seq(File)
      /\ alive \subseteq Process /\ number \in Nat
  BY DEF Inv, TypeOK
<1>3. ASSUME NEW x \in alive'
      PROVE  \E y \in alive : obj'[x] = obj[y]
  BY <1>1, <1>2
<1>4. ASSUME NEW x \in alive
      PROVE  obj'[x] = obj[x]
  BY <1>1, <1>2
<1>5. OrderInv'
  <2> SUFFICES ASSUME NEW x \in alive', NEW r \in Object
               PROVE  Ordered(x, r, number, Memory(x, r))'
    BY DEF OrderInv
  <2>1. PICK y \in alive : obj'[x] = obj[y]
    BY <1>3
  <2>2. Ordered(y, r, number, Memory(y, r))
    BY DEF ContentInv, OrderInv
  <2> DEFINE f == obj[y][r].buffer
  <2>3. /\ DiskOrdered(disk) /\ Bounded(number, disk)
        /\ BufferOrdered(y, number, f)
        /\ OwnFile(r, disk, obj[y][r])
    BY <2>2 DEF Ordered, Memory
  <2>4. f \in Seq(Line)
    BY <1>2 DEF LogFileObject
  <2> HIDE DEF f
  <2>5. \A i \in 1..Len(disk) : \A k \in 1..Len(disk[i].lines) :
          ~Own(disk[i].lines[k])'
    <3> SUFFICES ASSUME NEW i \in 1..Len(disk),
                        NEW k \in 1..Len(disk[i].lines)
                 PROVE  ~(disk[i].lines[k].n > number)
      BY <1>1 DEF Own
    <3>1. disk[i].lines[k].n <= number /\ disk[i].lines[k].n \in Nat
      BY <1>2, <2>3, DiskTypes DEF Bounded
    <3> QED
      BY <1>2, <3>1
  <2>6. \A k \in 1..Len(f) : f[k].n <= number /\ ~(f[k].n > number)
    <3> SUFFICES ASSUME NEW k \in 1..Len(f)
                 PROVE  f[k].n <= number /\ ~(f[k].n > number)
      OBVIOUS
    <3>1. f[k].n <= number /\ f[k].n \in Nat
      BY <2>3, <2>4, BufferTypes DEF BufferOrdered
    <3> QED
      BY <1>2, <3>1
  <2>7. DiskOrdered(disk)'
    BY <1>1, <2>5 DEF DiskOrdered
  <2>8. Bounded(number, disk)'
    BY <1>1, <2>3 DEF Bounded
  <2>9. BufferOrdered(x, number, obj[x][r].buffer)'
    BY <1>1, <2>1, <2>6 DEF BufferOrdered, Own, f
  <2>10. After(x, r, disk, obj[x][r])'
    BY <1>1, <2>5 DEF After
  <2>11. OwnFile(r, disk, obj[x][r])'
    BY <1>1, <2>1, <2>3 DEF OwnFile
  <2> QED
    BY <2>7, <2>8, <2>9, <2>10, <2>11 DEF Ordered, Memory
<1>6. SpanInv'
  <2> SUFFICES ASSUME NEW x \in alive', NEW r \in Object
               PROVE  Spanned(Memory(x, r))'
    BY DEF SpanInv
  <2>1. PICK y \in alive : obj'[x] = obj[y]
    BY <1>3
  <2>2. Spanned(Memory(y, r))
    BY DEF ContentInv, SpanInv
  <2> QED
    BY <1>1, <2>1, <2>2 DEF Spanned, Memory
<1>7. IdleInv'
  <2> SUFFICES ASSUME NEW x \in alive', NEW r \in Object
               PROVE  Idle(obj'[x][r], troubles')
    BY DEF IdleInv, Idle
  <2>1. PICK y \in alive : obj'[x] = obj[y]
    BY <1>3
  <2>2. Idle(obj[y][r], troubles)
    BY DEF ContentInv, IdleInv
  <2> QED
    BY <1>1, <2>1, <2>2
<1>8. KeptInv'
  <2> SUFFICES ASSUME troubles' = {}, NEW r \in Object, NEW n \in accepted'[r]
               PROVE  Kept(r, n)'
    BY DEF KeptInv
  <2>1. Kept(r, n)
    BY <1>1 DEF ContentInv, KeptInv
  <2>2. CASE OnDisk(r, disk, n)
    BY <1>1, <2>2 DEF Kept, OnDisk
  <2>3. ASSUME NEW x \in alive, InBuffer(obj[x][r].buffer, n)
        PROVE  Kept(r, n)'
    <3>1. obj'[x] = obj[x] /\ x \in alive'
      BY <1>1, <1>4
    <3> QED
      BY <2>3, <3>1 DEF Kept, InBuffer
  <2> QED
    BY <2>1, <2>2, <2>3 DEF Kept
<1>9. forkedAt' <= number'
  BY <1>1, <1>2
<1> QED
  BY <1>5, <1>6, <1>7, <1>8, <1>9 DEF ContentInv

\* Steps that write nothing, of which one lets time pass.
LEMMA QuietStep ==
  ASSUME Inv, ContentInv,
         UNCHANGED <<obj, alive, disk, number, forkedAt, accepted, troubles>>,
         clock' \in Nat, clock <= clock'
  PROVE  ContentInv'
<1>1. OrderInv'
  BY SMTT(60) DEF ContentInv, OrderInv, Ordered, DiskOrdered, Bounded,
         BufferOrdered, After, OwnFile, Own, Memory
<1>2. SpanInv'
  <2> SUFFICES ASSUME NEW x \in alive, NEW r \in Object
               PROVE  Spanned(Memory(x, r))'
    BY DEF SpanInv
  <2>1. Spanned(Memory(x, r))
    BY DEF ContentInv, SpanInv
  <2>2. obj[x][r].next - LogBufSecs <= clock'
    <3>1. obj[x][r].next - LogBufSecs <= clock
      BY <2>1 DEF Spanned, Memory
    <3>2. clock \in Nat /\ obj[x][r].next \in Nat /\ LogBufSecs \in Nat
      <4>1. obj[x][r] \in LogFileObject
        BY DEF Inv, TypeOK
      <4> QED
        BY <4>1, LogFileAssumption
        DEF Inv, TypeOK, LogFileObject, LogFileAssumption
    <3> QED
      BY <3>1, <3>2
  <2> QED
    BY <2>1, <2>2 DEF Spanned, Memory
<1>3. IdleInv'
  BY DEF ContentInv, IdleInv, Idle
<1>4. KeptInv'
  BY DEF ContentInv, KeptInv, Kept, OnDisk, InBuffer
<1>5. forkedAt' <= number'
  BY DEF ContentInv
<1> QED
  BY <1>1, <1>2, <1>3, <1>4, <1>5 DEF ContentInv

\* The invariant holds at the start.
LEMMA InitContent ==
  ASSUME LogFileAssumption, Init
  PROVE  ContentInv
<1>1. /\ \A p \in Process, o \in Object : obj[p][o] = NewObject
      /\ alive = {Parent} /\ Parent \in Process
      /\ disk = <<>> /\ number = 0 /\ forkedAt = 0 /\ clock = 1
      /\ troubles = {} /\ accepted = [o \in Object |-> {}]
  BY DEF Init, LogFileAssumption
<1>2. /\ NewObject.buffer = <<>> /\ NewObject.file = 0 /\ NewObject.next = 0
      /\ NewObject.attempt = Frequency - 1
  BY DEF NewObject
<1>3. Len(disk) = 0 /\ Len(<<>>) = 0
  BY <1>1
<1>4. OrderInv
  BY <1>1, <1>2, <1>3
  DEF OrderInv, Ordered, DiskOrdered, Bounded, BufferOrdered, After, OwnFile,
      Memory
<1>5. SpanInv
  <2>1. LogBufSecs \in Nat
    BY DEF LogFileAssumption
  <2>2. 0 - LogBufSecs <= clock
    BY <1>1, <2>1
  <2> QED
    BY <1>1, <1>2, <1>3, <2>2 DEF SpanInv, Spanned, Memory
<1>6. IdleInv
  BY <1>1, <1>2 DEF IdleInv, Idle
<1>7. KeptInv
  BY <1>1 DEF KeptInv
<1> QED
  BY <1>1, <1>4, <1>5, <1>6, <1>7 DEF ContentInv

\* Every step keeps the invariant.
LEMMA NextContent ==
  ASSUME LogFileAssumption, Inv, Inv', ContentInv, [Next]_vars
  PROVE  ContentInv'
<1>1. ASSUME NEW p \in Process, NEW o \in Object,
             Flush(p, o) \/ SetBasename(p, o) \/ SetExtension(p, o)
      PROVE  ContentInv'
  <2>1. PICK v : Leaves(p, o, number, <<>>, v)
    BY <1>1, ClientLeaves
  <2>2. p \in alive /\ UNCHANGED <<alive, clock, number, forkedAt, accepted>>
    BY <1>1 DEF Flush, SetBasename, SetExtension, Change
  <2>3. number \in Nat /\ number <= number
    BY DEF Inv, TypeOK
  <2> QED
    BY <2>1, <2>2, <2>3, LeavesStep
<1>2. CASE Tick
  <2>1. clock \in Nat /\ clock' = clock + 1
    BY <1>2 DEF Tick, Inv, TypeOK
  <2>2. clock' \in Nat /\ clock <= clock'
    BY <2>1
  <2> QED
    BY <1>2, <2>2, QuietStep DEF Tick
<1>3. CASE DiskFillsOrFrees \/ Stop \/ UNCHANGED vars
  <2>1. UNCHANGED <<obj, alive, disk, number, forkedAt, accepted, troubles,
                    clock>>
    BY <1>3 DEF DiskFillsOrFrees, Stop, vars
  <2>2. clock' \in Nat /\ clock <= clock'
    BY <2>1 DEF Inv, TypeOK
  <2> QED
    BY <2>1, <2>2, QuietStep
<1> QED
  BY <1>1, <1>2, <1>3, MessageStep, FlushStep, ForkStep DEF Next

-----------------------------------------------------------------------------
(* The theorems.                                                           *)

\* The positions of the lines.
LEMMA PlacesProperties ==
  ASSUME NEW x \in Places
  PROVE  /\ x[1] \in 1..Len(disk) /\ x[2] \in 1..Len(disk[x[1]].lines)
BY DEF Places

\* The invariant holds of any processes, objects and events.
THEOREM ContentInvariance == Spec => [](Inv /\ ContentInv)
<1>1. Init => Inv /\ ContentInv
  BY InitInv, InitContent, LogFileAssumption
<1>2. Inv /\ ContentInv /\ [Next]_vars => Inv' /\ ContentInv'
  BY NextInv, NextContent, LogFileAssumption
<1> QED
  BY <1>1, <1>2, PTL DEF Spec

\* Nothing is repeated and nothing overtakes: across every rollover, rename,
\* failure and fork, what a process alone had in its memory is in the files in
\* the order in which it was written, each message once (Logger.cc:187-399).
THEOREM WrittenInOrder == Spec => []InOrder
<1>1. Inv /\ ContentInv => InOrder
  <2> SUFFICES ASSUME Inv, ContentInv
               PROVE  InOrder
    OBVIOUS
  <2>1. ASSUME NEW x \in Places, NEW y \in Places,
               disk[x[1]].of = disk[y[1]].of,
               At(x).by = At(y).by, Own(At(x)), Own(At(y)), Before(x, y)
        PROVE  At(x).n < At(y).n
    <3>1. /\ x[1] \in 1..Len(disk) /\ x[2] \in 1..Len(disk[x[1]].lines)
          /\ y[1] \in 1..Len(disk) /\ y[2] \in 1..Len(disk[y[1]].lines)
      BY PlacesProperties
    <3>2. DiskOrdered(disk)
      <4>1. PICK p \in alive : TRUE
        BY LogFileAssumption DEF Inv, PidInv, LogFileAssumption
      <4>2. disk[x[1]].of \in Object
        <5>1. disk[x[1]] \in File
          BY <3>1, DiskTypes DEF Inv, TypeOK
        <5> QED
          BY <5>1 DEF File
      <4> QED
        BY <4>1, <4>2 DEF ContentInv, OrderInv, Ordered, Memory
    <3> QED
      BY <2>1, <3>1, <3>2 DEF DiskOrdered, At, Before
  <2>2. ASSUME NEW p \in alive, NEW o \in Object, NEW x \in Places,
               NEW m \in Buffered(p, o),
               disk[x[1]].of = o, At(x).by = m.by, Own(At(x)), Own(m)
        PROVE  At(x).n < m.n
    <3>1. x[1] \in 1..Len(disk) /\ x[2] \in 1..Len(disk[x[1]].lines)
      BY PlacesProperties
    <3>2. PICK k \in 1..Len(obj[p][o].buffer) : m = obj[p][o].buffer[k]
      BY DEF Buffered
    <3>3. /\ BufferOrdered(p, number, obj[p][o].buffer)
          /\ After(p, o, disk, obj[p][o])
      BY DEF ContentInv, OrderInv, Ordered, Memory
    <3>4. m.by = p
      BY <2>2, <3>2, <3>3 DEF BufferOrdered
    <3> QED
      BY <2>2, <3>1, <3>2, <3>3, <3>4 DEF After, At
  <2> QED
    BY <2>1, <2>2 DEF InOrder
<1> QED
  BY <1>1, ContentInvariance, PTL

\* While every file could be created and the disk was never full, no rollover,
\* rename, flush or fork loses a message (Logger.cc:187-399).
THEOREM KeepsMessages == Spec => []NothingLost
<1>1. Inv /\ ContentInv => NothingLost
  <2> SUFFICES ASSUME Inv, ContentInv, troubles = {}, NEW o \in Object,
                      NEW n \in accepted[o]
               PROVE  n \in Found(o)
    BY DEF NothingLost
  <2>1. Kept(o, n)
    BY DEF ContentInv, KeptInv
  <2>2. CASE OnDisk(o, disk, n)
    <3>1. PICK i \in 1..Len(disk) :
            disk[i].of = o /\ \E k \in 1..Len(disk[i].lines) :
                                disk[i].lines[k].n = n
      BY <2>2 DEF OnDisk
    <3>2. PICK k \in 1..Len(disk[i].lines) : disk[i].lines[k].n = n
      BY <3>1
    <3>3. <<i, k>> \in Places /\ At(<<i, k>>).n = n /\ disk[<<i, k>>[1]].of = o
      BY <3>1, <3>2 DEF Places, At
    <3> QED
      BY <3>3 DEF Found, Written
  <2>3. ASSUME NEW p \in alive, InBuffer(obj[p][o].buffer, n)
        PROVE  n \in Found(o)
    <3>1. PICK k \in 1..Len(obj[p][o].buffer) : obj[p][o].buffer[k].n = n
      BY <2>3 DEF InBuffer
    <3>2. obj[p][o].buffer[k] \in Buffered(p, o)
      BY DEF Buffered
    <3> QED
      BY <3>1, <3>2 DEF Found
  <2> QED
    BY <2>1, <2>2, <2>3 DEF Kept
<1> QED
  BY <1>1, ContentInvariance, PTL

\* No two messages in a buffer are FLAGS_logbufsecs apart, even if writing
\* stopped in between or the file was changed (Logger.cc:344-366).
THEOREM FlushedInTime == Spec => []BufferSpan
<1>1. Inv /\ ContentInv => BufferSpan
  <2> SUFFICES ASSUME Inv, ContentInv, NEW p \in alive, NEW o \in Object,
                      NEW m \in Buffered(p, o), NEW l \in Buffered(p, o),
                      m.n > 0, l.n > 0
               PROVE  m.at - l.at < LogBufSecs
    BY DEF BufferSpan
  <2> DEFINE r == obj[p][o]
  <2>1. r \in LogFileObject
    BY DEF Inv, TypeOK
  <2>2. Spanned(Memory(p, o)) /\ Memory(p, o).o = r
    BY DEF ContentInv, SpanInv, Memory
  <2> HIDE DEF r
  <2>3. r.buffer \in Seq(Line) /\ r.next \in Nat
    BY <2>1 DEF LogFileObject
  <2>4. ASSUME NEW x \in Buffered(p, o), x.n > 0
        PROVE  x.at \in Nat /\ r.next - LogBufSecs <= x.at /\ x.at < r.next
    <3>1. PICK k \in 1..Len(r.buffer) : x = r.buffer[k]
      BY DEF Buffered, r
    <3>2. x \in Line
      BY <2>3, <3>1, BufferTypes
    <3>3. x.at \in Nat
      BY <3>2 DEF Line
    <3> QED
      BY <2>2, <2>4, <3>1, <3>3 DEF Spanned
  <2>5. LogBufSecs \in Nat
    BY LogFileAssumption DEF LogFileAssumption
  <2> QED
    BY <2>3, <2>4, <2>5
<1> QED
  BY <1>1, ContentInvariance, PTL

-----------------------------------------------------------------------------
(* How long files get.  The limit counts the bytes of one process, so it   *)
(* binds a program that does not fork: the child of a fork writes what it  *)
(* inherited of the buffer to the file that its parent counts.             *)

\* Lines that are s bytes long were within the limit before the last of them.
Below(lines, s) == lines # <<>> => s - Last(lines).len < MaxLength

\* So are the lines of every file and those that go to the open file, which
\* has t bytes at most.
Within(t, w) ==
  /\ \A i \in 1..Len(w.disk) : Below(w.disk[i].lines, w.disk[i].size)
  /\ w.o.file # 0 =>
       /\ Below(w.o.buffer, w.disk[w.o.file].size + w.o.pending)
       /\ w.disk[w.o.file].size + w.o.pending <= t
  /\ w.o.file = 0 => w.o.pending = 0

\* length counts every byte of the open file.
Sized(w) == Within(w.o.length, w)

\* A header alone is within the limit, and the counter of the length does not
\* wrap around when a header and a message come after the limit was checked.
RoomForOne ==
  /\ HeaderLen < MaxLength
  /\ \A len \in MessageLen \cup {0} :
       MaxLength + HeaderLen + len <= LengthModulus

\* The lengths of an object and its files are numbers.
LEMMA LengthTypes ==
  ASSUME NEW w, Fine(w)
  PROVE  /\ w.disk \in Seq(File) /\ w.o \in LogFileObject
         /\ Len(w.disk) \in Nat /\ w.o.pending \in Nat
         /\ w.o.length \in Nat /\ w.o.length \in 0..(LengthModulus - 1)
         /\ w.o.file \in Nat /\ w.o.file <= Len(w.disk)
         /\ w.o.buffer \in Seq(Line)
         /\ w.o.file # 0 => w.o.file \in 1..Len(w.disk)
         /\ \A i \in 1..Len(w.disk) : /\ w.disk[i].lines \in Seq(Line)
                                      /\ w.disk[i].size \in Nat
<1>1. w.disk \in Seq(File) /\ w.o \in LogFileObject /\ w.o.file <= Len(w.disk)
  BY DEF Fine, Work
<1>2. w.o.buffer \in Seq(Line) /\ w.o.file \in Nat /\ w.o.pending \in Nat
      /\ w.o.length \in 0..(LengthModulus - 1)
  BY <1>1 DEF LogFileObject
<1>3. Len(w.disk) \in Nat /\ w.o.length \in Nat
  BY <1>1, <1>2
<1>4. w.o.file # 0 => w.o.file \in 1..Len(w.disk)
  BY <1>1, <1>2, <1>3
<1>5. \A i \in 1..Len(w.disk) : w.disk[i] \in File
  BY <1>1, ElementOfSeq
<1>6. \A i \in 1..Len(w.disk) : /\ w.disk[i].lines \in Seq(Line)
                                /\ w.disk[i].size \in Nat
  BY <1>5 DEF File
<1> QED
  BY <1>1, <1>2, <1>3, <1>4, <1>6

\* The last line is a line.
LEMMA LastTypes ==
  ASSUME NEW f \in Seq(Line), f # <<>>
  PROVE  Last(f) \in Line /\ Last(f).len \in Nat
<1>1. Len(f) \in 1..Len(f)
  BY EmptySeq
<1>2. f[Len(f)] \in Line
  BY <1>1, ElementOfSeq
<1> QED
  BY <1>2 DEF Last, Line

\* The last line is that of what was added.
LEMMA LastAppended ==
  ASSUME NEW f \in Seq(Line), NEW g \in Seq(Line), g # <<>>
  PROVE  f \o g # <<>> /\ Last(f \o g) = Last(g)
<1>1. /\ Len(f) \in Nat /\ Len(g) \in Nat \ {0}
      /\ Len(f \o g) = Len(f) + Len(g) /\ f \o g \in Seq(Line)
      /\ \A k \in 1..(Len(f) + Len(g)) :
           (f \o g)[k] = IF k <= Len(f) THEN f[k] ELSE g[k - Len(f)]
  BY EmptySeq, ConcatProperties
<1>2. /\ Len(f) + Len(g) \in 1..(Len(f) + Len(g)) /\ Len(f) + Len(g) # 0
      /\ ~(Len(f) + Len(g) <= Len(f)) /\ (Len(f) + Len(g)) - Len(f) = Len(g)
  BY <1>1
<1>3. (f \o g)[Len(f) + Len(g)] = g[Len(g)]
  BY <1>1, <1>2
<1> QED
  BY <1>1, <1>2, <1>3 DEF Last

\* A bound may be raised.
LEMMA WithinMore ==
  ASSUME NEW w, Fine(w), NEW s \in Nat, NEW t \in Nat, s <= t, Within(s, w)
  PROVE  Within(t, w)
<1> DEFINE n == w.disk[w.o.file].size + w.o.pending
<1>1. w.o.file # 0 => n \in Nat
  <2>1. w.o.pending \in Nat
        /\ (w.o.file # 0 => w.disk[w.o.file].size \in Nat)
    BY LengthTypes
  <2>2. \A x, y \in Nat : x + y \in Nat
    OBVIOUS
  <2> QED
    BY <2>1, <2>2
<1>2. w.o.file # 0 => n <= s
  BY DEF Within
<1> HIDE DEF n
<1>3. w.o.file # 0 => n <= t
  BY <1>1, <1>2
<1> QED
  BY <1>3 DEF Within, n

\* Only the files, the buffer and which file is open matter to a bound.
LEMMA WithinAside ==
  ASSUME NEW w, NEW v, NEW t, Within(t, w), v.disk = w.disk,
         v.o.file = w.o.file, v.o.buffer = w.o.buffer,
         v.o.pending = w.o.pending
  PROVE  Within(t, v)
BY DEF Within

\* Without a file there is nothing that the bound is about.
LEMMA WithinClosed ==
  ASSUME NEW w, NEW v, NEW t, NEW s, Within(t, w), v.disk = w.disk,
         v.o.file = 0, v.o.pending = 0
  PROVE  Within(s, v)
BY DEF Within

\* Writing the buffer out makes nothing longer.
LEMMA WithinDrain ==
  ASSUME NEW w, Fine(w), full \in BOOLEAN, NEW t \in Nat, Within(t, w)
  PROVE  LET v == Drain(w) IN
         /\ Within(t, v) /\ v.o.file = w.o.file /\ v.o.length = w.o.length
         /\ v.o.buffer = <<>> /\ v.o.pending = 0 /\ Fine(v)
         /\ v.lost = w.lost \/ v.disk = w.disk
<1> DEFINE v == Drain(w)
           d == w.disk
           e == v.disk
           f == w.o.buffer
           n == w.o.pending
           a == w.o.file
<1>1. /\ Fine(v) /\ v.o = [w.o EXCEPT !.buffer = <<>>, !.pending = 0]
      /\ \/ e = d
         \/ /\ a # 0 /\ Len(e) = Len(d) /\ v.lost = w.lost /\ f # <<>>
            /\ \A i \in 1..Len(d) :
                 /\ e[i].lines = IF i = a THEN d[i].lines \o f ELSE d[i].lines
                 /\ e[i].size = IF i = a THEN d[i].size + n ELSE d[i].size
  <2>1. /\ Fine(v) /\ v.o = [w.o EXCEPT !.buffer = <<>>, !.pending = 0]
        /\ \/ e = d /\ (a # 0 /\ f # <<>> => v.lost)
           \/ /\ a # 0 /\ Len(e) = Len(d)
              /\ v.lost = w.lost /\ f # <<>>
              /\ \A i \in 1..Len(d) :
                   /\ e[i].of = d[i].of
                   /\ e[i].lines = IF i = a THEN d[i].lines \o f
                                   ELSE d[i].lines
                   /\ e[i].size = IF i = a THEN d[i].size + n ELSE d[i].size
        /\ w.lost => v.lost
    BY DrainEffect
  <2> HIDE DEF v, d, e, f, n, a
  <2> QED
    BY <2>1
<1> HIDE DEF v
<1>2. /\ v.o.file = a /\ v.o.buffer = <<>> /\ v.o.pending = 0
      /\ v.o.length = w.o.length
  BY <1>1, LengthTypes DEF LogFileObject
<1>3. /\ Len(d) \in Nat /\ n \in Nat /\ f \in Seq(Line)
      /\ \A i \in 1..Len(d) : d[i].lines \in Seq(Line) /\ d[i].size \in Nat
      /\ a # 0 => a \in 1..Len(d)
  BY LengthTypes
<1>4. /\ \A i \in 1..Len(d) : Below(d[i].lines, d[i].size)
      /\ a # 0 => Below(f, d[a].size + n) /\ d[a].size + n <= t
  BY DEF Within
<1>5. Below(<<>>, 0) /\ \A s : Below(<<>>, s)
  BY DEF Below
<1> HIDE DEF d, e, f, n, a
<1>6. CASE e = d
  <2>1. a # 0 => d[a].size + 0 <= t
    <3>1. \A x \in Nat : x + n <= t => x + 0 <= t
      BY <1>3
    <3> QED
      BY <1>3, <1>4, <3>1
  <2>2. Within(t, v)
    BY <1>2, <1>4, <1>5, <1>6, <2>1 DEF Within, e
  <2> QED
    BY <1>1, <1>2, <1>6, <2>2 DEF v, a, d, e
<1>7. CASE /\ a # 0 /\ Len(e) = Len(d) /\ v.lost = w.lost /\ f # <<>>
           /\ \A i \in 1..Len(d) :
                /\ e[i].lines = IF i = a THEN d[i].lines \o f ELSE d[i].lines
                /\ e[i].size = IF i = a THEN d[i].size + n ELSE d[i].size
  <2>1. e[a].lines = d[a].lines \o f /\ e[a].size = d[a].size + n
    BY <1>3, <1>7
  <2>2. Below(e[a].lines, e[a].size)
    <3>1. Last(d[a].lines \o f) = Last(f)
      BY <1>3, <1>7, LastAppended
    <3> QED
      BY <1>4, <1>7, <2>1, <3>1 DEF Below
  <2>3. \A i \in 1..Len(e) : Below(e[i].lines, e[i].size)
    BY <1>4, <1>7, <2>2
  <2>4. e[a].size + 0 <= t
    <3>1. \A x \in Nat : x + n <= t => (x + n) + 0 <= t
      BY <1>3
    <3> QED
      BY <1>3, <1>4, <1>7, <2>1, <3>1
  <2>5. Within(t, v)
    BY <1>2, <1>5, <1>7, <2>3, <2>4 DEF Within, e
  <2> QED
    BY <1>1, <1>2, <1>7, <2>5 DEF v, a
<1> QED
  BY <1>1, <1>6, <1>7

\* A message or a header adds its length, unless all of the buffer is lost.
LEMMA WithinFwrite ==
  ASSUME NEW w, Fine(w), full \in BOOLEAN, NEW t \in Nat, Within(t, w),
         NEW lines \in Seq(Line), Len(lines) <= 1, w.o.file # 0,
         MaxLength \in Nat, t < MaxLength
  PROVE  LET v == fwrite(w, lines) IN
         /\ Fine(v) /\ Within(t + Bytes(lines), v)
         /\ v.o.file = w.o.file /\ v.o.length = w.o.length
         /\ v.lost = w.lost \/ Within(t, v)
<1> DEFINE f == w.o.buffer \o lines
           l == Bytes(lines)
           n == w.o.pending + l
           s == w.disk[w.o.file].size
           more == [w EXCEPT !.o.buffer = f, !.o.pending = n]
           v == fwrite(w, lines)
<1>1. v \in {more, Drain(more)}
  BY DEF fwrite
<1>2. /\ w.o.buffer \in Seq(Line) /\ f \in Seq(Line) /\ l \in Nat
      /\ w.o.pending \in Nat /\ w.o.file \in 1..Len(w.disk) /\ s \in Nat
  BY SMTT(60), LengthTypes, ConcatProperties, BytesProperties
<1>3. n \in Nat
  <2>1. \A x, y \in Nat : x + y \in Nat
    OBVIOUS
  <2> QED
    BY <1>2, <2>1
<1>4. s + w.o.pending <= t /\ Below(w.o.buffer, s + w.o.pending)
  BY DEF Within
<1> HIDE DEF f, v, l, s
<1>5. s + n <= t + l /\ s <= t
  <2>1. \A x, y \in Nat : x + y <= t => x + (y + l) <= t + l /\ x <= t
    BY <1>2
  <2> QED
    BY <1>2, <1>4, <2>1
<1>6. Below(f, s + n)
  <2>1. CASE lines = <<>>
    <3>1. f = w.o.buffer /\ l = 0
      BY <1>2, <2>1, ConcatEmptySeq DEF f, l, Bytes
    <3>2. s + n = s + w.o.pending
      BY <1>2, <3>1
    <3> QED
      BY <1>4, <3>1, <3>2
  <2>2. CASE lines # <<>>
    <3>1. Last(f) = Last(lines)
      BY <1>2, <2>2, LastAppended DEF f
    <3>2. Len(lines) = 1
      <4>1. Len(lines) \in Nat /\ Len(lines) # 0
        BY <2>2, EmptySeq
      <4>2. \A x \in Nat : x # 0 /\ x <= 1 => x = 1
        OBVIOUS
      <4> QED
        BY <4>1, <4>2
    <3>3. Last(f).len = l
      BY <2>2, <3>1, <3>2 DEF Last, l, Bytes
    <3>4. \A x, y \in Nat : x + y <= t => (x + (y + l)) - l < MaxLength
      BY <1>2
    <3>5. (s + n) - l < MaxLength
      BY <1>2, <1>4, <3>4
    <3> QED
      BY <3>3, <3>5 DEF Below
  <2> QED
    BY <2>1, <2>2
<1> HIDE DEF n
<1>7. /\ Fine(more) /\ more.disk = w.disk /\ more.lost = w.lost
      /\ more.o.file = w.o.file /\ more.o.buffer = f /\ more.o.pending = n
      /\ more.o.length = w.o.length
  BY <1>2, <1>3 DEF Fine, Work, LogFileObject
<1> HIDE DEF more
<1>8. Within(t + l, more)
  BY <1>5, <1>6, <1>7 DEF Within, s
<1>9. CASE v = more
  BY <1>7, <1>8, <1>9 DEF v, l
<1>10. CASE v = Drain(more)
  <2>1. t + l \in Nat
    BY <1>2
  <2>2. /\ Within(t + l, v) /\ v.o.file = w.o.file /\ v.o.pending = 0
        /\ v.o.length = w.o.length /\ v.o.buffer = <<>> /\ Fine(v)
        /\ v.lost = w.lost \/ v.disk = w.disk
    BY <1>7, <1>8, <1>10, <2>1, WithinDrain
  <2>3. ASSUME v.disk = w.disk
        PROVE  Within(t, v)
    <3>1. w.disk[w.o.file].size + 0 <= t
      BY <1>2, <1>5 DEF s
    <3> QED
      BY <2>2, <2>3, <3>1 DEF Within
  <2> QED
    BY <2>2, <2>3 DEF v, l
<1> QED
  BY <1>1, <1>9, <1>10

\* Closing a file keeps the others within their limit.
LEMMA WithinFclose ==
  ASSUME NEW w, Fine(w), full \in BOOLEAN, NEW t \in Nat, Within(t, w)
  PROVE  LET v == fclose(w) IN
         /\ Fine(v) /\ v.o.file = 0 /\ v.o.length = w.o.length
         /\ v.o.pending = 0 /\ \A s : Within(s, v)
<1> DEFINE v == fclose(w)
           u == Drain(w)
<1>1. Fine(v) /\ v.o.file = 0
  BY FcloseProperties
<1>2. CASE w.o.file = 0
  <2>1. v = w
    BY <1>2 DEF fclose
  <2>2. w.o.pending = 0 /\ \A s : Within(s, w)
    BY <1>2 DEF Within
  <2> QED
    BY <1>1, <2>1, <2>2
<1>3. CASE w.o.file # 0
  <2>1. v = [u EXCEPT !.o.file = 0]
    BY <1>3 DEF fclose
  <2>2. Fine(u) /\ Within(t, u) /\ u.o.length = w.o.length /\ u.o.pending = 0
    BY WithinDrain
  <2> HIDE DEF u
  <2>3. v.disk = u.disk /\ v.o.length = u.o.length /\ v.o.pending = 0
    BY <2>1, <2>2 DEF Fine, Work, LogFileObject
  <2> HIDE DEF v
  <2>4. \A s : Within(s, v)
    BY <1>1, <2>2, <2>3, WithinClosed
  <2> QED
    BY <1>1, <2>2, <2>3, <2>4 DEF v
<1> QED
  BY <1>2, <1>3

\* What stays of an object when its file is rolled over or renamed.
LEMMA SizedClosed ==
  ASSUME LogFileAssumption, NEW w, Fine(w), full \in BOOLEAN, Sized(w)
  PROVE  /\ Sized(Roll(w)) /\ Roll(w).o.length = 0
         /\ Sized(Renamed(w)) /\ Renamed(w).o.length = w.o.length
<1> DEFINE u == fclose(w)
           v == Roll(w)
           r == Renamed(w)
<1>1. w.o.length \in Nat
  BY LengthTypes
<1>2. /\ Fine(u) /\ u.o.file = 0 /\ u.o.length = w.o.length
      /\ u.o.pending = 0 /\ \A s : Within(s, u)
  BY <1>1, WithinFclose DEF Sized
<1>3. v = [u EXCEPT !.o.length = 0, !.o.bytes = 0, !.o.attempt = Frequency - 1]
  BY DEF Roll
<1>4. r = IF w.o.file = 0 THEN w ELSE [u EXCEPT !.o.attempt = Frequency - 1]
  BY DEF Renamed
<1> HIDE DEF u, v, r
<1>5. /\ v.disk = u.disk /\ v.o.file = 0 /\ v.o.pending = 0
      /\ v.o.length = 0
  BY <1>2, <1>3 DEF Fine, Work, LogFileObject
<1>6. Sized(v)
  BY <1>2, <1>5, WithinClosed DEF Sized
<1>7. Sized(r) /\ r.o.length = w.o.length
  <2>1. CASE w.o.file = 0
    BY <1>4, <2>1
  <2>2. CASE w.o.file # 0
    <3>1. /\ r.disk = u.disk /\ r.o.file = 0 /\ r.o.pending = 0
          /\ r.o.length = w.o.length
      BY <1>2, <1>4, <2>2 DEF Fine, Work, LogFileObject
    <3> QED
      BY <1>2, <3>1, WithinClosed DEF Sized
  <2> QED
    BY <2>1, <2>2
<1> QED
  BY <1>5, <1>6, <1>7 DEF v, r

\* A flush changes no length.
LEMMA WithinFlush ==
  ASSUME NEW w, Fine(w), full \in BOOLEAN, clock \in Nat, LogBufSecs \in Nat,
         NEW t \in Nat, Within(t, w)
  PROVE  LET v == FlushUnlocked(w) IN
         Within(t, v) /\ v.o.length = w.o.length
<1> DEFINE u == Drain(w)
           v == FlushUnlocked(w)
<1>1. v = [IF w.o.file = 0 THEN w ELSE [u EXCEPT !.o.bytes = 0]
             EXCEPT !.o.next = clock + LogBufSecs]
  BY DEF FlushUnlocked
<1>2. /\ Within(t, u) /\ u.o.file = w.o.file /\ u.o.length = w.o.length
      /\ Fine(u)
  BY WithinDrain
<1> HIDE DEF u, v
<1>3. CASE w.o.file = 0
  <2>1. v = [w EXCEPT !.o.next = clock + LogBufSecs]
    BY <1>1, <1>3
  <2>2. /\ v.disk = w.disk /\ v.o.buffer = w.o.buffer
        /\ v.o.file = w.o.file /\ v.o.length = w.o.length
        /\ v.o.pending = w.o.pending
    BY <2>1 DEF Fine, Work, LogFileObject
  <2> QED
    BY <2>2, WithinAside DEF v
<1>4. CASE w.o.file # 0
  <2>1. v = [u EXCEPT !.o.bytes = 0, !.o.next = clock + LogBufSecs]
    BY <1>1, <1>2, <1>4 DEF Fine, Work
  <2>2. /\ v.disk = u.disk /\ v.o.buffer = u.o.buffer
        /\ v.o.file = u.o.file /\ v.o.length = u.o.length
        /\ v.o.pending = u.o.pending
    BY <1>2, <2>1 DEF Fine, Work, LogFileObject
  <2> QED
    BY <1>2, <2>2, WithinAside DEF v
<1> QED
  BY <1>3, <1>4

\* A counter that has room is exact.
LEMMA AddLengthExact ==
  ASSUME NEW n \in Nat, NEW k \in Nat, LengthModulus \in Nat \ {0},
         n + k < LengthModulus
  PROVE  AddLength(n, k) = n + k
BY DEF AddLength

\* A new file has its header at most.
LEMMA SizedCreated ==
  ASSUME TypeOK, LogFileAssumption, RoomForOne, NEW p \in Process,
         NEW o \in Object, NEW w, Fine(w), NEW time \in 0..MaxTime,
         NEW b \in Place, g_main_thread_pid'[p] \in Process,
         w.o.file = 0, w.o.buffer = <<>>, Sized(w), w.o.length < MaxLength
  PROVE  LET v == Created(p, o, w, time, b) IN
         /\ Fine(v) /\ Within(HeaderLen, v) /\ v.o.file # 0
         /\ v.o.length = w.o.length + HeaderLen
<1> DEFINE n == NameOf(p, o, b, time)
           f == [name |-> n, of |-> o, lines |-> <<>>, size |-> 0]
           d == Append(w.disk, f)
           r == [w.o EXCEPT !.base = b, !.file = Len(w.disk) + 1, !.attempt = 0]
           opened == [w EXCEPT !.disk = d, !.o = r]
           h == <<Header(p)>>
           out == fwrite(opened, h)
           v == Created(p, o, w, time, b)
<1>1. n \in FileName
  <2>1. obj[p][o] \in LogFileObject
    BY DEF TypeOK
  <2> QED
    BY <2>1 DEF NameOf, FileName, LogFileObject
<1>2. f \in File /\ f.lines = <<>> /\ f.size = 0
  BY <1>1 DEF File
<1>3. w \in Work /\ w.disk \in Seq(File) /\ w.o \in LogFileObject
      /\ Len(w.disk) \in Nat /\ w.o.length \in Nat
  BY LengthTypes DEF Fine
<1>4. /\ d \in Seq(File) /\ Len(d) = Len(w.disk) + 1
      /\ d[Len(w.disk) + 1] = f /\ \A i \in 1..Len(w.disk) : d[i] = w.disk[i]
  BY <1>2, <1>3, AppendProperties
<1>5. r \in LogFileObject /\ r.file = Len(w.disk) + 1
      /\ r.buffer = w.o.buffer /\ r.length = w.o.length
      /\ r.pending = w.o.pending
  <2>1. 0 \in 0..(Frequency - 1) /\ Len(w.disk) + 1 \in Nat
    BY <1>3 DEF LogFileAssumption
  <2>2. r \in LogFileObject
    BY <1>3, <2>1, FieldProperties
  <2> QED
    BY <1>3, <2>2 DEF LogFileObject
<1>6. opened = [w EXCEPT !.disk = d, !.o.base = b,
                         !.o.file = Len(w.disk) + 1, !.o.attempt = 0]
  BY <1>3 DEF Work
<1>7. v = [fwrite([w EXCEPT !.disk = d, !.o.base = b,
                            !.o.file = Len(w.disk) + 1, !.o.attempt = 0],
                  h)
             EXCEPT !.o.length = AddLength(@, HeaderLen),
                    !.o.bytes = @ + HeaderLen]
  BY DEF Created
<1>8. /\ h \in Seq(Line) /\ Len(h) = 1 /\ full \in BOOLEAN
      /\ Bytes(h) = HeaderLen
  BY DEF Header, Line, TypeOK, LogFileAssumption, Bytes
<1>9. Fine(v) /\ Heads(p, w, v)
  BY AdvancesCreated DEF Advances
<1> HIDE DEF n, f, d, r, h, v
<1>10. Fine(opened) /\ opened.disk = d /\ opened.o = r
  <2>1. opened \in Work /\ opened.disk = d /\ opened.o = r
    BY <1>3, <1>4, <1>5 DEF Work
  <2> QED
    BY SMTT(60), <1>3, <1>4, <1>5, <2>1 DEF Fine
<1> HIDE DEF opened
<1>11. Within(0, opened)
  <2>1. w.o.pending = 0
        /\ \A i \in 1..Len(w.disk) : Below(w.disk[i].lines, w.disk[i].size)
    BY DEF Sized, Within
  <2>2. Below(<<>>, 0)
    BY DEF Below
  <2>3. \A i \in 1..Len(d) : Below(d[i].lines, d[i].size)
    <3> SUFFICES ASSUME NEW i \in 1..Len(d)
                 PROVE  Below(d[i].lines, d[i].size)
      OBVIOUS
    <3>1. CASE i = Len(w.disk) + 1
      BY <1>2, <1>4, <2>2, <3>1
    <3>2. CASE i # Len(w.disk) + 1
      <4>1. i \in 1..Len(w.disk)
        BY <1>3, <1>4, <3>2
      <4> QED
        BY <1>4, <2>1, <4>1
    <3> QED
      BY <3>1, <3>2
  <2>4. r.file # 0 /\ d[r.file].size + r.pending = 0 /\ r.buffer = <<>>
    BY <1>2, <1>3, <1>4, <1>5, <2>1
  <2>5. Below(r.buffer, d[r.file].size + r.pending)
    BY <2>2, <2>4
  <2> QED
    BY <1>10, <2>3, <2>4, <2>5 DEF Within
<1>12. Fine(out) /\ Within(HeaderLen, out)
  <2>1. opened.o.file # 0 /\ MaxLength \in Nat /\ 0 \in Nat /\ 0 < MaxLength
        /\ 0 + HeaderLen = HeaderLen /\ Len(h) <= 1
    BY <1>3, <1>5, <1>8, <1>10 DEF LogFileAssumption
  <2>2. Fine(out) /\ Within(0 + Bytes(h), out)
    BY <1>8, <1>10, <1>11, <2>1, WithinFwrite
  <2> HIDE DEF out
  <2> QED
    BY <1>8, <2>1, <2>2
<1>13. v = [out EXCEPT !.o.length = AddLength(@, HeaderLen),
                       !.o.bytes = @ + HeaderLen]
  BY <1>6, <1>7
<1> HIDE DEF out
<1>14. /\ v.disk = out.disk /\ v.o.file = out.o.file
       /\ v.o.buffer = out.o.buffer /\ v.o.pending = out.o.pending
  BY <1>12, <1>13 DEF Fine, Work, LogFileObject
<1>15. Within(HeaderLen, v)
  BY <1>12, <1>14, WithinAside
<1>16. v.o.length = w.o.length + HeaderLen
  <2>1. /\ MaxLength + HeaderLen + 0 <= LengthModulus /\ HeaderLen \in Nat
        /\ MaxLength \in Nat /\ LengthModulus \in Nat \ {0}
    BY DEF RoomForOne, LogFileAssumption
  <2>2. w.o.length + HeaderLen < LengthModulus
    BY <1>3, <2>1
  <2>3. AddLength(w.o.length, HeaderLen) = w.o.length + HeaderLen
    BY <1>3, <2>1, <2>2, AddLengthExact
  <2> QED
    BY <1>9, <2>3 DEF Heads
<1> QED
  BY <1>9, <1>15, <1>16 DEF v, Heads

\* A step leaves the object it is about within its limit.
Fits(p, o) ==
  \E v : obj' = [obj EXCEPT ![p][o] = v.o] /\ disk' = v.disk /\ Sized(v)

\* What else changes of an object does not make it longer.
LEMMA SizedAside ==
  ASSUME NEW w, NEW v, Sized(w), v.disk = w.disk, v.o.file = w.o.file,
         v.o.buffer = w.o.buffer, v.o.pending = w.o.pending,
         v.o.length = w.o.length
  PROVE  Sized(v)
BY WithinAside DEF Sized

\* However the output ends, what is added to a file is counted.
LEMMA OutputFits ==
  ASSUME TypeOK, LogFileAssumption, NEW p \in Process, NEW o \in Object,
         NEW w, Fine(w), NEW force, NEW lines \in Seq(Line),
         Len(lines) <= 1, w.o.file # 0, NEW t \in Nat, Within(t, w),
         t < MaxLength, t <= w.o.length,
         w.o.length + Bytes(lines) < LengthModulus,
         Output(p, o, w, force, lines)
  PROVE  Fits(p, o)
<1> DEFINE w0 == [w EXCEPT !.lost = FALSE]
           out == fwrite(w0, lines)
           l == Bytes(lines)
           n == w.o.length
           r == [out.o EXCEPT !.length = AddLength(@, l), !.bytes = @ + l]
           counted == [out EXCEPT !.o.length = AddLength(@, l),
                                  !.o.bytes = @ + l, !.lost = @ \/ w.lost]
           v == IF Due(counted.o, force) THEN FlushUnlocked(counted)
                ELSE counted
<1>1. /\ full \in BOOLEAN /\ clock \in Nat /\ LogBufSecs \in Nat
      /\ l \in Nat /\ MaxLength \in Nat /\ LengthModulus \in Nat \ {0}
  BY BytesProperties DEF TypeOK, LogFileAssumption
<1>2. /\ Fine(w0) /\ w0.disk = w.disk /\ w0.o = w.o /\ w0.lost = FALSE
      /\ n \in Nat
  <2>1. Fine(w0) /\ w0.disk = w.disk /\ w0.o = w.o /\ w0.lost = FALSE
    BY DEF Fine, Work
  <2> QED
    BY <1>1, <2>1, LengthTypes
<1> HIDE DEF w0
<1>3. /\ Fine(out) /\ Within(t + l, out)
      /\ out.o.file = w.o.file /\ out.o.length = n
      /\ out.lost => Within(t, out)
  <2>1. Within(t, w0)
    BY <1>2, WithinAside
  <2>2. /\ Fine(out) /\ Within(t + Bytes(lines), out)
        /\ out.o.file = w0.o.file /\ out.o.length = w0.o.length
        /\ out.lost = w0.lost \/ Within(t, out)
    BY <1>1, <1>2, <2>1, WithinFwrite
  <2> HIDE DEF out
  <2> QED
    BY <1>2, <2>2
<1>4. t + l \in Nat /\ n + l \in Nat /\ t + l <= n + l
  <2> HIDE DEF l, n
  <2> QED
    BY <1>1, <1>2 DEF n
<1> HIDE DEF out
<1>5. CASE Commit(p, o, w, {"full"})
  <2>1. Sized(w)
    BY <1>2, WithinMore DEF Sized
  <2> QED
    BY <1>5, <2>1 DEF Commit, Fits
<1>6. CASE out.lost /\ Commit(p, o, out, {})
  <2>1. Sized(out)
    BY <1>2, <1>3, <1>6, WithinMore DEF Sized
  <2> QED
    BY <1>6, <2>1 DEF Commit, Fits
<1>7. CASE Commit(p, o, v, {})
  <2>1. out.o \in LogFileObject /\ out \in Work /\ out.o.bytes \in Nat
    BY <1>3 DEF Fine, Work, LogFileObject
  <2>2. AddLength(out.o.length, l) = n + l
    BY <1>1, <1>2, <1>3, AddLengthExact
  <2>3. /\ AddLength(out.o.length, l) \in 0..(LengthModulus - 1)
        /\ out.o.bytes + l \in Nat
    <3>1. \A x, y \in Nat : x + y \in Nat
      OBVIOUS
    <3>2. out.o.length \in Nat
      BY <1>2, <1>3
    <3> QED
      BY <1>1, <2>1, <3>1, <3>2, AddLengthProperties
  <2> HIDE DEF l, n
  <2>4. /\ r \in LogFileObject /\ r.file = out.o.file
        /\ r.buffer = out.o.buffer /\ r.pending = out.o.pending
        /\ r.length = n + l
    <3>1. r \in LogFileObject
      BY <2>1, <2>3, FieldProperties
    <3>2. r.length = AddLength(out.o.length, l)
      BY <2>1 DEF LogFileObject
    <3>3. /\ r.file = out.o.file /\ r.buffer = out.o.buffer
          /\ r.pending = out.o.pending
      BY <2>1 DEF LogFileObject
    <3> QED
      BY <2>2, <3>1, <3>2, <3>3
  <2>5. counted = [[out EXCEPT !.o = r] EXCEPT !.lost = out.lost \/ w.lost]
    BY <2>1 DEF Work, LogFileObject
  <2> HIDE DEF r, counted
  <2>6. (out.lost \/ w.lost) \in BOOLEAN
    OBVIOUS
  <2>7. counted \in Work /\ counted.o = r /\ counted.disk = out.disk
    BY <2>1, <2>4, <2>5, <2>6 DEF Work
  <2>8. Fine(counted)
    BY <1>3, <2>4, <2>7 DEF Fine
  <2>9. Within(t + l, counted)
    BY <1>3, <2>4, <2>7, WithinAside
  <2>10. Within(n + l, counted)
    BY <1>4, <2>8, <2>9, WithinMore
  <2>11. Sized(counted)
    BY <2>4, <2>7, <2>10 DEF Sized
  <2>12. Sized(FlushUnlocked(counted))
    <3>1. /\ Within(n + l, FlushUnlocked(counted))
          /\ FlushUnlocked(counted).o.length = counted.o.length
      BY <1>1, <1>4, <2>8, <2>10, WithinFlush
    <3> QED
      BY <2>4, <2>7, <3>1 DEF Sized
  <2>13. Sized(v)
    BY <2>11, <2>12
  <2> HIDE DEF v
  <2> QED
    BY <1>7, <2>13 DEF Commit, Fits
<1>8. \/ Commit(p, o, w, {"full"})
      \/ out.lost /\ Commit(p, o, out, {})
      \/ Commit(p, o, v, {})
  BY DEF Output, w0, out
<1> QED
  BY <1>5, <1>6, <1>7, <1>8

\* What a Write begins with has room for a message.
LEMMA BegunSized ==
  ASSUME Inv, ContentInv, LogFileAssumption, NEW p \in alive, NEW o \in Object,
         Sized(Memory(p, o))
  PROVE  LET w == Begun(p, o) IN
         /\ Fine(w) /\ Sized(w)
         /\ w.o.length \in Nat /\ w.o.length < MaxLength
         /\ w.o.file = 0 => w.o.buffer = <<>>
<1> DEFINE m == Memory(p, o)
           w == Begun(p, o)
<1>1. p \in Process /\ TypeOK /\ full \in BOOLEAN /\ MaxLength \in Nat \ {0}
  BY DEF Inv, TypeOK, LogFileAssumption
<1>2. /\ Fine(m) /\ Fine(w) /\ Advances(p, o, number, number, m, w)
      /\ m.o = obj[p][o]
      /\ \/ w = m /\ ~TooLong(obj[p][o])
         \/ w.o.length = 0
  BY <1>1, BegunLeaves
<1>3. w \in {m, Roll(m)}
  BY DEF Begun
<1>4. Ordered(p, o, number, m)
  BY DEF ContentInv, OrderInv
<1> HIDE DEF m, w
<1>5. Sized(w)
  BY <1>1, <1>2, <1>3, SizedClosed DEF m
<1>6. w.o.length \in Nat
  BY <1>2, LengthTypes
<1>7. w.o.length < MaxLength
  BY <1>1, <1>2, <1>6 DEF TooLong
<1>8. w.o.file = 0 => w.o.buffer = <<>>
  BY <1>2, <1>4 DEF Advances, Ordered, OwnFile
<1> QED
  BY <1>2, <1>5, <1>6, <1>7, <1>8 DEF w

\* Every Write leaves the object within its limit.
LEMMA WriteFits ==
  ASSUME Inv, ContentInv, LogFileAssumption, RoomForOne, NEW p \in alive,
         NEW o \in Object, Sized(Memory(p, o)), NEW force,
         NEW time \in 0..MaxTime, NEW lines \in Seq(Line), Len(lines) <= 1,
         Bytes(lines) \in MessageLen \cup {0},
         Write(p, o, force, time, lines)
  PROVE  Fits(p, o)
<1> DEFINE w == Begun(p, o)
           n == w.o.length
           l == Bytes(lines)
<1>1. p \in Process /\ TypeOK
  BY DEF Inv, TypeOK
<1>2. /\ Fine(w) /\ Sized(w) /\ n \in Nat /\ n < MaxLength
      /\ w.o.file = 0 => w.o.buffer = <<>>
  BY BegunSized
<1>3. /\ MaxLength \in Nat /\ HeaderLen \in Nat /\ LengthModulus \in Nat
      /\ HeaderLen < MaxLength /\ l \in Nat
      /\ MaxLength + HeaderLen + l <= LengthModulus
  BY BytesProperties DEF LogFileAssumption, RoomForOne
<1>4. CASE WriteIgnored(p, o)
  <2>1. obj' = [obj EXCEPT ![p][o] = Memory(p, o).o] /\ disk' = Memory(p, o).disk
    BY <1>1, <1>4 DEF WriteIgnored, Memory, TypeOK
  <2> QED
    BY <2>1 DEF Fits
<1>5. CASE WriteSkipped(p, o)
  <2> DEFINE v == [w EXCEPT !.o.attempt = @ + 1]
  <2>1. Commit(p, o, v, {})
    BY <1>5 DEF WriteSkipped
  <2> HIDE DEF w
  <2>2. /\ v.disk = w.disk /\ v.o.file = w.o.file
        /\ v.o.buffer = w.o.buffer /\ v.o.length = w.o.length
        /\ v.o.pending = w.o.pending
    BY <1>2 DEF Fine, Work, LogFileObject
  <2> HIDE DEF v
  <2>3. Sized(v)
    BY <1>2, <2>2, SizedAside
  <2> QED
    BY <2>1, <2>3 DEF Commit, Fits
<1>6. ASSUME NEW refused, WriteUncreated(p, o, time, refused)
      PROVE  Fits(p, o)
  <2> DEFINE v == Failed(w)
  <2>1. \E other : Commit(p, o, v, other)
    BY <1>6 DEF WriteUncreated
  <2> HIDE DEF w
  <2>2. /\ v.disk = w.disk /\ v.o.file = w.o.file
        /\ v.o.buffer = w.o.buffer /\ v.o.length = w.o.length
        /\ v.o.pending = w.o.pending
    BY <1>2 DEF Failed, Fine, Work, LogFileObject
  <2> HIDE DEF v
  <2>3. Sized(v)
    BY <1>2, <2>2, SizedAside
  <2> QED
    BY <2>1, <2>3 DEF Commit, Fits
<1>7. CASE WriteToFile(p, o, force, lines)
  <2>1. w.o.file # 0 /\ Output(p, o, w, force, lines)
    BY <1>7 DEF WriteToFile
  <2> HIDE DEF w
  <2>2. Within(n, w)
    BY <1>2 DEF Sized
  <2>3. n + l < LengthModulus /\ n <= n
    <3> HIDE DEF n, l
    <3> QED
      BY <1>2, <1>3
  <2> QED
    BY <1>1, <1>2, <2>1, <2>2, <2>3, OutputFits
<1>8. ASSUME NEW refused,
             WriteToNewFile(p, o, force, time, lines, refused)
      PROVE  Fits(p, o)
  <2>1. w.o.file = 0 /\ CheckPid(p, o)
    BY <1>8 DEF WriteToNewFile
  <2>2. g_main_thread_pid'[p] \in Process
    BY <1>1, <2>1 DEF CheckPid, TypeOK
  <2>3. PICK i \in 1..Len(Candidates(w.o)) :
          Output(p, o, Created(p, o, w, time, Candidates(w.o)[i]),
                 force, lines)
    BY <1>8 DEF WriteToNewFile, Creatable
  <2> DEFINE b == Candidates(w.o)[i]
             u == Created(p, o, w, time, b)
             k == u.o.length
  <2> HIDE DEF w
  <2>4. b \in Place
    BY <1>2, CandidatesProperties DEF Fine, Work
  <2> HIDE DEF b
  <2>5. /\ Fine(u) /\ Within(HeaderLen, u) /\ u.o.file # 0
        /\ k = n + HeaderLen
    BY <1>1, <1>2, <2>1, <2>2, <2>4, SizedCreated
  <2>6. Output(p, o, u, force, lines)
    BY <2>3 DEF b
  <2> HIDE DEF n, u
  <2>7. k + l < LengthModulus /\ HeaderLen <= k
    <3> HIDE DEF k, l
    <3> QED
      BY <1>2, <1>3, <2>5
  <2> QED
    BY <1>1, <1>3, <2>5, <2>6, <2>7, OutputFits
<1> QED
  BY <1>4, <1>5, <1>6, <1>7, <1>8 DEF Write

\* And so does every call of the client.
LEMMA ClientFits ==
  ASSUME Inv, LogFileAssumption, NEW p \in Process, NEW o \in Object,
         Sized(Memory(p, o)),
         Flush(p, o) \/ SetBasename(p, o) \/ SetExtension(p, o)
  PROVE  Fits(p, o)
<1> DEFINE m == Memory(p, o)
<1>1. /\ Fine(m) /\ full \in BOOLEAN /\ clock \in Nat /\ LogBufSecs \in Nat
      /\ TypeOK
  BY MemoryProperties DEF Inv, TypeOK, LogFileAssumption
<1> HIDE DEF m
<1>2. ASSUME NEW u, u \in {m, Renamed(m)}
      PROVE  u.o \in LogFileObject /\ Sized(u) /\ u \in Work
  <2>1. Fine(m) /\ Fine(Renamed(m))
    BY <1>1, RenamedProperties
  <2>2. Sized(m) /\ Sized(Renamed(m))
    BY <1>1, SizedClosed DEF m
  <2> QED
    BY <1>2, <2>1, <2>2 DEF Fine, Work
<1>3. CASE Flush(p, o)
  <2> DEFINE v == FlushUnlocked(m)
  <2>1. Commit(p, o, v, {})
    BY <1>3 DEF Flush, Change, m
  <2>2. m.o.length \in Nat
    BY <1>1, LengthTypes
  <2>3. Within(m.o.length, v) /\ v.o.length = m.o.length
    BY <1>1, <2>2, WithinFlush DEF Sized, m
  <2> HIDE DEF v
  <2>4. Sized(v)
    BY <2>3 DEF Sized, m
  <2> QED
    BY <2>1, <2>4 DEF Commit, Fits
<1>4. CASE SetBasename(p, o)
  <2>1. PICK b \in Basename :
          Change(p, o, [IF obj[p][o].base # b THEN Renamed(m) ELSE m
                          EXCEPT !.o.selected = TRUE, !.o.base = b])
    BY <1>4 DEF SetBasename, m
  <2> DEFINE u == IF obj[p][o].base # b THEN Renamed(m) ELSE m
             v == [u EXCEPT !.o.selected = TRUE, !.o.base = b]
  <2>2. Commit(p, o, v, {})
    BY <2>1 DEF Change
  <2>3. u.o \in LogFileObject /\ Sized(u) /\ u \in Work
    BY <1>2
  <2> HIDE DEF u
  <2>4. /\ v.disk = u.disk /\ v.o.file = u.o.file
        /\ v.o.buffer = u.o.buffer /\ v.o.length = u.o.length
        /\ v.o.pending = u.o.pending
    BY <2>3 DEF Work, LogFileObject
  <2> HIDE DEF v
  <2>5. Sized(v)
    BY <2>3, <2>4, SizedAside
  <2> QED
    BY <2>2, <2>5 DEF Commit, Fits
<1>5. CASE SetExtension(p, o)
  <2>1. PICK e \in Extension : Change(p, o, [Renamed(m) EXCEPT !.o.ext = e])
    BY <1>5 DEF SetExtension, m
  <2> DEFINE u == Renamed(m)
             v == [u EXCEPT !.o.ext = e]
  <2>2. Commit(p, o, v, {})
    BY <2>1 DEF Change
  <2>3. u.o \in LogFileObject /\ Sized(u) /\ u \in Work
    BY <1>2
  <2> HIDE DEF u
  <2>4. /\ v.disk = u.disk /\ v.o.file = u.o.file
        /\ v.o.buffer = u.o.buffer /\ v.o.length = u.o.length
        /\ v.o.pending = u.o.pending
    BY <2>3 DEF Work, LogFileObject
  <2> HIDE DEF v
  <2>5. Sized(v)
    BY <2>3, <2>4, SizedAside
  <2> QED
    BY <2>2, <2>5 DEF Commit, Fits
<1> QED
  BY <1>3, <1>4, <1>5

\* Every object of every process is within its limit.
SizeInv == \A p \in Process, o \in Object : Sized(Memory(p, o))

\* The files of the other objects get no longer.
LEMMA OthersSized ==
  ASSUME NEW p, NEW o, NEW r, r # o, NEW w, NEW u, NEW v, Fine(w),
         u.o = w.o, u.disk = v.disk, Grown(p, o, w.disk, v.disk),
         OwnFile(r, w.disk, w.o), Sized(w), Sized(v)
  PROVE  Sized(u)
<1> DEFINE d == w.disk
           e == u.disk
           a == w.o.file
<1>1. a # 0 => a \in 1..Len(d)
  BY LengthTypes
<1>2. \A i \in 1..Len(e) : Below(e[i].lines, e[i].size)
  BY DEF Sized, Within
<1>3. a # 0 => e[a].size = d[a].size
  <2>1. a # 0 => d[a].of # o
    BY DEF OwnFile
  <2>2. Grown(p, o, d, e)
    OBVIOUS
  <2> HIDE DEF a, d, e
  <2> QED
    BY <1>1, <2>1, <2>2 DEF Grown
<1> QED
  BY <1>2, <1>3 DEF Sized, Within

\* A step of the only process keeps all objects within their limits.
LEMMA SizedStep ==
  ASSUME Inv, Inv', ContentInv, SizeInv, LogFileAssumption,
         Process = {Parent}, NEW p \in alive, NEW o \in Object, Fits(p, o),
         NEW c, NEW lines, NEW x, Leaves(p, o, c, lines, x)
  PROVE  SizeInv'
<1>1. PICK v : obj' = [obj EXCEPT ![p][o] = v.o] /\ disk' = v.disk /\ Sized(v)
  BY DEF Fits
<1>2. /\ TypeOK /\ TypeOK' /\ p = Parent /\ p \in Process
      /\ obj \in [Process -> [Object -> LogFileObject]]
  BY DEF Inv, TypeOK
<1>3. Grown(p, o, disk, disk')
  <2>1. Advances(p, o, number, c, Memory(p, o), x) /\ disk' = x.disk
    BY DEF Leaves
  <2>2. Ordered(p, o, number, Memory(p, o)) /\ Memory(p, o).disk = disk
    BY DEF ContentInv, OrderInv, Memory
  <2> QED
    BY <2>1, <2>2 DEF Advances
<1> SUFFICES ASSUME NEW r \in Object
             PROVE  Sized(Memory(p, r))'
  BY <1>2 DEF SizeInv
<1> DEFINE u == [o |-> obj'[p][r], disk |-> disk', lost |-> FALSE]
           z == [o |-> obj'[p][o], disk |-> disk', lost |-> FALSE]
<1>5. z.o = v.o /\ z.disk = v.disk
  BY <1>1, <1>2
<1>6. Sized(z)
  BY <1>1, <1>5 DEF Sized, Within
<1>7. Sized(u)
  <2>1. CASE r = o
    BY <1>6, <2>1
  <2>2. CASE r # o
    <3> DEFINE w == Memory(p, r)
    <3>1. Fine(w) /\ w.o = obj[p][r] /\ w.disk = disk
      BY <1>2, MemoryProperties DEF Memory
    <3>2. Sized(w)
      BY <1>2 DEF SizeInv
    <3>3. Ordered(p, r, number, w)
      BY DEF ContentInv, OrderInv
    <3>4. u.o = w.o /\ u.disk = z.disk /\ z.disk = disk'
      BY <1>1, <1>2, <2>2, <3>1
    <3> HIDE DEF w, u, z
    <3> QED
      BY <1>2, <1>3, <1>6, <2>2, <3>1, <3>2, <3>3, <3>4, OthersSized
      DEF Ordered
  <2> QED
    BY <2>1, <2>2
<1> QED
  BY <1>7 DEF Memory

\* What a Write of one process leaves in an object: a step of Leaves.
LEMMA WriteFitsAll ==
  ASSUME Inv, Inv', ContentInv, SizeInv, LogFileAssumption, RoomForOne,
         Process = {Parent}, NEW p \in alive, NEW o \in Object, NEW force,
         NEW c, NEW lines, NEW time \in 0..MaxTime,
         NewLines(p, number, c, lines),
         \A k \in 1..Len(lines) : lines[k].at = clock,
         Bytes(lines) \in MessageLen \cup {0},
         Write(p, o, force, time, lines)
  PROVE  SizeInv'
<1>1. p \in Process /\ lines \in Seq(Line) /\ Len(lines) <= 1
      /\ c \in Nat /\ number <= c
  BY DEF Inv, TypeOK, NewLines
<1>2. Sized(Memory(p, o))
  BY <1>1 DEF SizeInv
<1>3. Fits(p, o)
  BY <1>1, <1>2, WriteFits
<1>4. \E l, v : Leaves(p, o, c, l, v)
  BY <1>1, WriteContents, IgnoredLeaves
<1> QED
  BY <1>3, <1>4, SizedStep

\* Every step of a program that does not fork keeps its files within limits.
LEMMA NextSize ==
  ASSUME Inv, Inv', ContentInv, SizeInv, LogFileAssumption, RoomForOne,
         Process = {Parent}, [Next]_vars
  PROVE  SizeInv'
<1>1. /\ alive = {Parent} /\ number \in Nat /\ number <= number
  BY DEF Inv, PidInv, TypeOK
<1>2. ASSUME NEW p \in Process, NEW o \in Object, WriteMessage(p, o)
      PROVE  SizeInv'
  <2>1. PICK force \in BOOLEAN, time \in {clock - 1, clock} \ {0},
             len \in MessageLen :
          /\ p \in alive /\ number < MaxMessages
          /\ Write(p, o, force, time,
                   <<[n |-> number + 1, by |-> p, at |-> clock, len |-> len]>>)
    BY <1>2 DEF WriteMessage
  <2> DEFINE l == [n |-> number + 1, by |-> p, at |-> clock, len |-> len]
             lines == <<l>>
             c == number + 1
  <2>2. /\ number \in Nat /\ c \in Nat /\ number <= c /\ c > number
        /\ time \in 0..MaxTime /\ c \in 0..MaxMessages /\ clock \in 0..MaxTime
        /\ len \in Nat
    BY <2>1 DEF Inv, TypeOK, LogFileAssumption
  <2>3. l \in Line /\ l.n = c /\ l.by = p /\ l.at = clock /\ l.len = len
    BY <2>2 DEF Line
  <2>4. lines \in Seq(Line) /\ Len(lines) = 1 /\ lines[1] = l
        /\ lines # <<>>
    BY <2>3
  <2>5. Write(p, o, force, time, lines)
    BY <2>1
  <2> HIDE DEF l, lines, c
  <2>6. NewLines(p, number, c, lines)
        /\ \A k \in 1..Len(lines) : lines[k].at = clock
    <3>1. \A k \in 1..Len(lines) : lines[k] = l
      BY <2>4
    <3>2. c <= c
      BY <2>2
    <3> QED
      BY <2>2, <2>3, <2>4, <3>1, <3>2 DEF NewLines
  <2>7. Bytes(lines) \in MessageLen \cup {0}
    BY <2>3, <2>4 DEF Bytes
  <2> QED
    BY <2>1, <2>2, <2>5, <2>6, <2>7, WriteFitsAll
<1>3. ASSUME NEW p \in Process, NEW o \in Object, WriteFlush(p, o)
      PROVE  SizeInv'
  <2> DEFINE lines == <<>>
  <2>1. p \in alive /\ Write(p, o, TRUE, 0, lines)
    BY <1>3 DEF WriteFlush
  <2>2. 0 \in 0..MaxTime
    BY DEF LogFileAssumption
  <2>3. lines \in Seq(Line) /\ Len(lines) = 0
        /\ Bytes(lines) \in MessageLen \cup {0}
    BY DEF Bytes
  <2> HIDE DEF lines
  <2>4. NewLines(p, number, number, lines)
        /\ \A k \in 1..Len(lines) : lines[k].at = clock
    <3>1. 1..Len(lines) = {} /\ Len(lines) <= 1
      BY <2>3
    <3> QED
      BY <1>1, <2>3, <3>1 DEF NewLines
  <2> QED
    BY <2>1, <2>2, <2>3, <2>4, WriteFitsAll
<1>4. ASSUME NEW p \in Process, NEW o \in Object,
             Flush(p, o) \/ SetBasename(p, o) \/ SetExtension(p, o)
      PROVE  SizeInv'
  <2>1. p \in alive
    BY <1>4 DEF Flush, SetBasename, SetExtension, Change
  <2>2. \E v : Leaves(p, o, number, <<>>, v)
    BY <1>4, ClientLeaves
  <2>3. Fits(p, o)
    BY <1>4, ClientFits DEF SizeInv
  <2> QED
    BY <2>1, <2>2, <2>3, SizedStep
<1>5. ~(\E p, q \in Process : Fork(p, q))
  BY <1>1 DEF Fork
<1>6. CASE UNCHANGED <<obj, disk>>
  <2>1. \A p \in Process, o \in Object : Memory(p, o)' = Memory(p, o)
    BY <1>6 DEF Memory
  <2> SUFFICES ASSUME NEW p \in Process, NEW o \in Object
               PROVE  Sized(Memory(p, o))'
    BY DEF SizeInv
  <2>2. Sized(Memory(p, o)) /\ Memory(p, o)' = Memory(p, o)
    BY <2>1 DEF SizeInv
  <2> QED
    BY <2>2 DEF Sized, Within
<1> QED
  BY <1>2, <1>3, <1>4, <1>5, <1>6
  DEF Next, Tick, DiskFillsOrFrees, Stop, vars

\* In a program that does not fork no file, with what is buffered for it, goes
\* over MaxLogSize() by more than part of its last message, whatever is
\* buffered, renamed, refused or lost; for lengths with which a header and a
\* message more do not wrap file_length_ around (Logger.cc:208, 334).
THEOREM SizeBounded ==
  ASSUME Process = {Parent}, RoomForOne
  PROVE  Spec => []SizeBound
<1>1. Init => SizeInv
  <2> SUFFICES ASSUME Init, NEW p \in Process, NEW o \in Object
               PROVE  Sized(Memory(p, o))
    BY DEF SizeInv
  <2>1. /\ obj[p][o].file = 0 /\ obj[p][o].pending = 0 /\ disk = <<>>
        /\ Len(disk) = 0
    BY DEF Init, NewObject
  <2> DEFINE m == Memory(p, o)
  <2>2. m.o.file = 0 /\ m.o.pending = 0 /\ m.disk = disk
    BY <2>1 DEF Memory
  <2> HIDE DEF m
  <2>3. 1..Len(m.disk) = {}
    BY <2>1, <2>2
  <2>4. Sized(m)
    BY <2>2, <2>3 DEF Sized, Within
  <2> QED
    BY <2>4 DEF m
<1>2. Inv /\ Inv' /\ ContentInv /\ SizeInv /\ [Next]_vars => SizeInv'
  BY NextSize, LogFileAssumption
<1>3. Inv /\ ContentInv /\ SizeInv => SizeBound
  <2> SUFFICES ASSUME Inv, ContentInv, SizeInv
               PROVE  SizeBound
    OBVIOUS
  <2>1. ASSUME NEW i \in 1..Len(disk), disk[i].lines # <<>>
        PROVE  disk[i].size - Last(disk[i].lines).len < MaxLength
    <3> DEFINE o == disk[i].of
               m == Memory(Parent, o)
    <3>1. disk[i] \in File
      BY ElementOfSeq DEF Inv, TypeOK
    <3>2. Parent \in Process /\ o \in Object
      BY <3>1, LogFileAssumption DEF LogFileAssumption, File
    <3>3. Within(m.o.length, m) /\ m.disk = disk
      BY <3>2 DEF SizeInv, Sized, Memory
    <3> HIDE DEF m, o
    <3>4. Below(disk[i].lines, disk[i].size)
      BY <3>3 DEF Within
    <3> QED
      BY <2>1, <3>4 DEF Below
  <2>2. ASSUME NEW p \in alive, NEW o \in Object, obj[p][o].buffer # <<>>
        PROVE  (disk[obj[p][o].file].size + obj[p][o].pending)
                 - Last(obj[p][o].buffer).len < MaxLength
    <3> DEFINE m == Memory(p, o)
    <3>1. p \in Process /\ m.o = obj[p][o] /\ m.disk = disk
      BY DEF Inv, TypeOK, Memory
    <3>2. Within(m.o.length, m) /\ OwnFile(o, m.disk, m.o)
      BY <3>1 DEF SizeInv, Sized, ContentInv, OrderInv, Ordered
    <3> HIDE DEF m
    <3>3. m.o.file # 0
      BY <2>2, <3>1, <3>2 DEF OwnFile
    <3>4. Below(m.o.buffer, m.disk[m.o.file].size + m.o.pending)
      BY <3>2, <3>3 DEF Within
    <3> DEFINE f == obj[p][o].buffer
               n == disk[obj[p][o].file].size + obj[p][o].pending
    <3>5. f # <<>> /\ Below(f, n)
      BY <2>2, <3>1, <3>4
    <3> HIDE DEF f, n
    <3>6. n - Last(f).len < MaxLength
      BY <3>5 DEF Below
    <3> QED
      BY <3>6 DEF f, n
  <2> QED
    BY <2>1, <2>2 DEF SizeBound
<1> QED
  BY <1>1, <1>2, <1>3, ContentInvariance, PTL DEF Spec

-----------------------------------------------------------------------------
(* The flush of a FATAL message.  It does nothing to an object that is      *)
(* switched off, so such an object must have no file, and nothing buffered. *)

\* An object that has a file has a name for it.
Named(r) == r.file # 0 => r.base # NoName
NamedInv == \A p \in Process, o \in Object : Named(obj[p][o])

\* v has the file of w, and its name.
SameBase(w, v) == v.o.file = w.o.file /\ v.o.base = w.o.base

\* stdio and a flush keep the file and its name; a write that loses something
\* has emptied the buffer.
LEMMA StdioBase ==
  ASSUME NEW w, Fine(w), full \in BOOLEAN, clock \in Nat, LogBufSecs \in Nat,
         NEW lines \in Seq(Line)
  PROVE  /\ SameBase(w, Drain(w)) /\ SameBase(w, fwrite(w, lines))
         /\ fwrite(w, lines).lost =>
              w.lost \/ fwrite(w, lines).o.buffer = <<>>
         /\ SameBase(w, FlushUnlocked(w))
         /\ w.o.file # 0 => FlushUnlocked(w).o.buffer = <<>>
<1>1. ASSUME NEW u, Fine(u)
      PROVE  /\ Fine(Drain(u)) /\ SameBase(u, Drain(u))
             /\ Drain(u).o.buffer = <<>>
  <2> DEFINE v == Drain(u)
  <2>1. Fine(v) /\ v.o = [u.o EXCEPT !.buffer = <<>>, !.pending = 0]
    BY <1>1, DrainEffect
  <2>2. u.o \in LogFileObject
    BY <1>1 DEF Fine, Work
  <2> HIDE DEF v
  <2>3. SameBase(u, v) /\ v.o.buffer = <<>>
    BY <2>1, <2>2 DEF SameBase, LogFileObject
  <2> QED
    BY <2>1, <2>3 DEF v
<1>2. /\ SameBase(w, fwrite(w, lines))
      /\ fwrite(w, lines).lost => w.lost \/ fwrite(w, lines).o.buffer = <<>>
  <2> DEFINE f == w.o.buffer \o lines
             n == w.o.pending + Bytes(lines)
             more == [w EXCEPT !.o.buffer = f, !.o.pending = n]
  <2>1. f \in Seq(Line) /\ n \in Nat
    BY ConcatProperties, BytesProperties DEF Fine, Work, LogFileObject
  <2>2. fwrite(w, lines) \in {more, Drain(more)}
    BY DEF fwrite
  <2> HIDE DEF f, n
  <2>3. Fine(more) /\ SameBase(w, more) /\ more.lost = w.lost
    BY <2>1 DEF Fine, Work, LogFileObject, SameBase
  <2> HIDE DEF more
  <2>4. SameBase(more, Drain(more)) /\ Drain(more).o.buffer = <<>>
    BY <1>1, <2>3
  <2> QED
    BY <2>2, <2>3, <2>4 DEF SameBase
<1>3. SameBase(w, FlushUnlocked(w))
      /\ (w.o.file # 0 => FlushUnlocked(w).o.buffer = <<>>)
  <2> DEFINE u == Drain(w)
             v == FlushUnlocked(w)
  <2>1. v = [IF w.o.file = 0 THEN w ELSE [u EXCEPT !.o.bytes = 0]
               EXCEPT !.o.next = clock + LogBufSecs]
    BY DEF FlushUnlocked
  <2>2. Fine(u) /\ SameBase(w, u) /\ u.o.buffer = <<>>
    BY <1>1
  <2> HIDE DEF u, v
  <2>3. CASE w.o.file = 0
    <3>1. v = [w EXCEPT !.o.next = clock + LogBufSecs]
      BY <2>1, <2>3
    <3> QED
      BY <2>3, <3>1 DEF SameBase, Fine, Work, LogFileObject, v
  <2>4. CASE w.o.file # 0
    <3>1. v = [u EXCEPT !.o.bytes = 0, !.o.next = clock + LogBufSecs]
      BY <2>1, <2>2, <2>4 DEF Fine, Work
    <3>2. v.o.file = u.o.file /\ v.o.base = u.o.base /\ v.o.buffer = <<>>
      BY <2>2, <3>1 DEF Fine, Work, LogFileObject
    <3> QED
      BY <2>2, <3>2 DEF SameBase, v
  <2> QED
    BY <2>3, <2>4
<1> QED
  BY <1>1, <1>2, <1>3

\* The output keeps the file and its name; forced, it empties the buffer,
\* unless writing is stopped and so something has gone wrong.
LEMMA OutputBase ==
  ASSUME TypeOK, LogFileAssumption, NEW p \in Process, NEW o \in Object,
         NEW w, Fine(w), NEW force \in BOOLEAN, NEW lines \in Seq(Line),
         w.o.file # 0, Output(p, o, w, force, lines)
  PROVE  \E v : /\ obj' = [obj EXCEPT ![p][o] = v.o] /\ SameBase(w, v)
                /\ force /\ (troubles' = {} \/ ~stop_writing[p])
                     => v.o.buffer = <<>>
<1> DEFINE w0 == [w EXCEPT !.lost = FALSE]
           out == fwrite(w0, lines)
           l == Bytes(lines)
           r == [out.o EXCEPT !.length = AddLength(@, l), !.bytes = @ + l]
           counted == [out EXCEPT !.o.length = AddLength(@, l),
                                  !.o.bytes = @ + l, !.lost = @ \/ w.lost]
           v == IF Due(counted.o, force) THEN FlushUnlocked(counted)
                ELSE counted
<1>1. /\ full \in BOOLEAN /\ clock \in Nat /\ LogBufSecs \in Nat
      /\ l \in Nat
  BY BytesProperties DEF TypeOK, LogFileAssumption
<1>2. Fine(w0) /\ SameBase(w, w0) /\ ~w0.lost
  BY DEF Fine, Work, SameBase
<1> HIDE DEF w0
<1>3. Fine(out) /\ SameBase(w, out) /\ (out.lost => out.o.buffer = <<>>)
  <2>1. SameObject(w0, out)
    BY <1>1, <1>2, FwriteProperties
  <2>2. SameBase(w0, out) /\ (out.lost => out.o.buffer = <<>>)
    BY <1>1, <1>2, StdioBase
  <2> QED
    BY <1>2, <2>1, <2>2 DEF SameObject, SameBase
<1> HIDE DEF out
<1>4. CASE stop_writing[p] /\ Commit(p, o, w, {"full"})
  BY <1>4 DEF Commit, SameBase
<1>5. CASE out.lost /\ Commit(p, o, out, {})
  BY <1>3, <1>5 DEF Commit
<1>6. CASE Commit(p, o, v, {})
  <2>1. out.o \in LogFileObject /\ out \in Work
    BY <1>3 DEF Fine, Work
  <2>2. out.o.length \in Nat /\ out.o.bytes + l \in Nat
    <3> DEFINE x == out.o
    <3>1. x \in LogFileObject
      BY <2>1
    <3> HIDE DEF x
    <3>2. x.length \in Nat /\ x.bytes \in Nat
      BY <3>1 DEF LogFileObject
    <3>3. x.bytes + l \in Nat
      BY <1>1, <3>2
    <3> QED
      BY <3>2, <3>3 DEF x
  <2>3. AddLength(out.o.length, l) \in 0..(LengthModulus - 1)
    BY <1>1, <2>1, <2>2, AddLengthProperties
  <2> HIDE DEF l
  <2>4. r \in LogFileObject
    BY <2>1, <2>2, <2>3, FieldProperties
  <2>5. r.file = out.o.file /\ r.base = out.o.base
    BY <2>1 DEF LogFileObject
  <2>6. counted = [[out EXCEPT !.o = r] EXCEPT !.lost = out.lost \/ w.lost]
    BY <2>1 DEF Work, LogFileObject
  <2> HIDE DEF r, counted
  <2>7. (out.lost \/ w.lost) \in BOOLEAN
    OBVIOUS
  <2>8. counted \in Work /\ counted.o = r /\ counted.disk = out.disk
    BY <2>1, <2>4, <2>6, <2>7 DEF Work
  <2>9. Fine(counted) /\ SameBase(w, counted) /\ counted.o.file # 0
    BY <1>3, <2>5, <2>8 DEF Fine, SameBase
  <2>10. /\ SameBase(counted, FlushUnlocked(counted))
         /\ FlushUnlocked(counted).o.buffer = <<>>
    BY <1>1, <2>9, StdioBase
  <2>11. SameBase(w, v)
    BY <2>9, <2>10 DEF SameBase
  <2>12. force => v.o.buffer = <<>>
    BY <2>10 DEF Due
  <2> HIDE DEF v
  <2> QED
    BY <1>6, <2>11, <2>12 DEF Commit
<1>7. \/ stop_writing[p] /\ Commit(p, o, w, {"full"})
      \/ out.lost /\ Commit(p, o, out, {})
      \/ Commit(p, o, v, {})
  BY DEF Output, w0, out
<1> QED
  BY <1>4, <1>5, <1>6, <1>7

\* A new file has the name it was created with.
LEMMA CreatedBase ==
  ASSUME TypeOK, LogFileAssumption, NEW p \in Process, NEW o \in Object,
         NEW w, Fine(w), NEW time \in 0..MaxTime, NEW b \in Place,
         g_main_thread_pid'[p] \in Process
  PROVE  LET v == Created(p, o, w, time, b) IN
         Fine(v) /\ v.o.file # 0 /\ v.o.base = b
<1> DEFINE n == NameOf(p, o, b, time)
           f == [name |-> n, of |-> o, lines |-> <<>>, size |-> 0]
           d == Append(w.disk, f)
           r == [w.o EXCEPT !.base = b, !.file = Len(w.disk) + 1, !.attempt = 0]
           opened == [w EXCEPT !.disk = d, !.o = r]
           h == <<Header(p)>>
           out == fwrite(opened, h)
           v == Created(p, o, w, time, b)
<1>1. n \in FileName
  <2>1. obj[p][o] \in LogFileObject
    BY DEF TypeOK
  <2> QED
    BY <2>1 DEF NameOf, FileName, LogFileObject
<1>2. f \in File
  BY <1>1 DEF File
<1>3. w \in Work /\ w.disk \in Seq(File) /\ w.o \in LogFileObject
      /\ Len(w.disk) \in Nat
  BY DEF Fine, Work
<1>4. d \in Seq(File) /\ Len(d) = Len(w.disk) + 1
  BY <1>2, <1>3, AppendProperties
<1>5. r \in LogFileObject /\ r.file = Len(w.disk) + 1 /\ r.base = b
  <2>1. 0 \in 0..(Frequency - 1) /\ Len(w.disk) + 1 \in Nat
    BY <1>3 DEF LogFileAssumption
  <2>2. r \in LogFileObject
    BY <1>3, <2>1, FieldProperties
  <2> QED
    BY <1>3, <2>2 DEF LogFileObject
<1>6. opened = [w EXCEPT !.disk = d, !.o.base = b,
                         !.o.file = Len(w.disk) + 1, !.o.attempt = 0]
  BY <1>3 DEF Work
<1>7. v = [fwrite([w EXCEPT !.disk = d, !.o.base = b,
                            !.o.file = Len(w.disk) + 1, !.o.attempt = 0],
                  h)
             EXCEPT !.o.length = AddLength(@, HeaderLen),
                    !.o.bytes = @ + HeaderLen]
  BY DEF Created
<1>8. /\ h \in Seq(Line) /\ full \in BOOLEAN /\ clock \in Nat
      /\ LogBufSecs \in Nat
  BY DEF Header, Line, TypeOK, LogFileAssumption
<1>9. Fine(v) /\ v.o.file = Len(w.disk) + 1
  BY CreatedProperties
<1> HIDE DEF n, f, d, r, h, v
<1>10. Fine(opened) /\ opened.o = r
  <2>1. opened \in Work /\ opened.disk = d /\ opened.o = r
    BY <1>3, <1>4, <1>5 DEF Work
  <2> QED
    BY SMTT(60), <1>3, <1>4, <1>5, <2>1 DEF Fine
<1> HIDE DEF opened
<1>11. Fine(out) /\ out.o.base = b
  <2>1. SameObject(opened, out) /\ SameBase(opened, out)
    BY <1>8, <1>10, FwriteProperties, StdioBase
  <2> QED
    BY <1>5, <1>10, <2>1 DEF SameObject, SameBase
<1>12. v = [out EXCEPT !.o.length = AddLength(@, HeaderLen),
                       !.o.bytes = @ + HeaderLen]
  BY <1>6, <1>7
<1> HIDE DEF out
<1>13. v.o.base = b
  BY <1>11, <1>12 DEF Fine, Work, LogFileObject
<1> QED
  BY <1>3, <1>9, <1>13 DEF v

\* What a Write begins with is the object, or has no file.
LEMMA BegunBase ==
  ASSUME TypeOK, LogFileAssumption, NEW p \in Process, NEW o \in Object
  PROVE  LET w == Begun(p, o) IN
         /\ Fine(w) /\ (w = Memory(p, o) \/ w.o.file = 0)
         /\ w.o.base = obj[p][o].base /\ w.o.selected = obj[p][o].selected
<1> DEFINE m == Memory(p, o)
           u == fclose(m)
           w == Begun(p, o)
<1>1. Fine(m) /\ m.o = obj[p][o] /\ full \in BOOLEAN
  BY MemoryProperties DEF TypeOK
<1>2. Fine(w) /\ (w = m \/ w.o.file = 0)
  BY BegunLeaves
<1>3. /\ Fine(u) /\ u.o.base = m.o.base /\ u.o.selected = m.o.selected
  <2> DEFINE d == Drain(m)
  <2>1. Fine(u)
    BY <1>1, FcloseProperties
  <2>2. Fine(d) /\ d.o = [m.o EXCEPT !.buffer = <<>>, !.pending = 0]
    BY <1>1, DrainEffect
  <2>3. u = IF m.o.file = 0 THEN m ELSE [d EXCEPT !.o.file = 0]
    BY DEF fclose
  <2> HIDE DEF d, u, m
  <2> QED
    BY <1>1, <2>1, <2>2, <2>3 DEF Fine, Work, LogFileObject
<1> DEFINE r == [u EXCEPT !.o.length = 0, !.o.bytes = 0,
                          !.o.attempt = Frequency - 1]
<1>4. w = m \/ w = r
  BY DEF Begun, Roll
<1> HIDE DEF m, u, w
<1>5. r.o.base = u.o.base /\ r.o.selected = u.o.selected
  BY <1>3 DEF Fine, Work, LogFileObject
<1> HIDE DEF r
<1>6. w.o.base = m.o.base /\ w.o.selected = m.o.selected
  BY <1>3, <1>4, <1>5
<1> QED
  BY <1>1, <1>2, <1>6 DEF m, w

\* A Write leaves an object named; forced, it leaves nothing in the buffer
\* unless writing is stopped and so something has gone wrong.
LEMMA WriteBase ==
  ASSUME Inv, ContentInv, NamedInv, LogFileAssumption, NEW p \in alive,
         NEW o \in Object, NEW force \in BOOLEAN, NEW time \in 0..MaxTime,
         NEW lines \in Seq(Line), Write(p, o, force, time, lines)
  PROVE  \E r : /\ obj' = [obj EXCEPT ![p][o] = r] /\ Named(r)
                /\ force /\ (troubles' = {} \/ ~stop_writing[p])
                     => r.buffer = <<>>
<1> DEFINE w == Begun(p, o)
           m == Memory(p, o)
           q == obj[p][o]
<1>1. p \in Process /\ TypeOK /\ q \in LogFileObject
      /\ obj \in [Process -> [Object -> LogFileObject]]
  BY DEF Inv, TypeOK
<1>2. Named(q) /\ OwnFile(o, disk, q)
  BY <1>1 DEF NamedInv, ContentInv, OrderInv, Ordered, Memory
<1>3. /\ Fine(w) /\ (w = m \/ w.o.file = 0)
      /\ w.o.base = q.base /\ w.o.selected = q.selected
  BY <1>1, BegunBase
<1>4. w.o.file = 0 => w.o.buffer = <<>>
  <2>1. Advances(p, o, number, number, m, w)
    BY <1>1, BegunLeaves
  <2>2. Ordered(p, o, number, m)
    BY DEF ContentInv, OrderInv
  <2> QED
    BY <2>1, <2>2 DEF Advances, Ordered, OwnFile
<1>5. CASE WriteIgnored(p, o)
  <2>1. q.file = 0
    BY <1>2, <1>5 DEF WriteIgnored, Deselected, Named
  <2>2. q.buffer = <<>>
    BY <1>2, <2>1 DEF OwnFile
  <2>3. obj' = [obj EXCEPT ![p][o] = q]
    BY <1>1, <1>5 DEF WriteIgnored
  <2> QED
    BY <1>2, <2>2, <2>3
<1>6. CASE WriteSkipped(p, o)
  <2> DEFINE v == [w EXCEPT !.o.attempt = @ + 1]
  <2>1. Commit(p, o, v, {}) /\ w.o.file = 0
    BY <1>6 DEF WriteSkipped, Skips
  <2> HIDE DEF w
  <2>2. v.o.file = w.o.file /\ v.o.buffer = w.o.buffer
    BY <1>3 DEF Fine, Work, LogFileObject
  <2> HIDE DEF v
  <2> QED
    BY <1>4, <2>1, <2>2 DEF Commit, Named
<1>7. ASSUME NEW refused, WriteUncreated(p, o, time, refused)
      PROVE  \E r : /\ obj' = [obj EXCEPT ![p][o] = r] /\ Named(r)
                    /\ force /\ (troubles' = {} \/ ~stop_writing[p])
                         => r.buffer = <<>>
  <2> DEFINE v == Failed(w)
             why == IF refused = {} THEN "exists" ELSE "refused"
  <2>1. Commit(p, o, v, {why}) /\ w.o.file = 0
    BY <1>7 DEF WriteUncreated
  <2> HIDE DEF w, why
  <2>2. v.o.file = w.o.file /\ v.o.buffer = w.o.buffer
    BY <1>3 DEF Failed, Fine, Work, LogFileObject
  <2> HIDE DEF v
  <2>3. obj' = [obj EXCEPT ![p][o] = v.o]
    BY <2>1 DEF Commit
  <2> QED
    BY <1>4, <2>1, <2>2, <2>3 DEF Named
<1>8. CASE WriteToFile(p, o, force, lines)
  <2>1. w.o.file # 0 /\ Output(p, o, w, force, lines)
    BY <1>8 DEF WriteToFile
  <2>2. Named(w.o)
    BY <1>2, <1>3, <2>1 DEF Named, Memory
  <2> HIDE DEF w
  <2>3. PICK v : /\ obj' = [obj EXCEPT ![p][o] = v.o] /\ SameBase(w, v)
                 /\ force /\ (troubles' = {} \/ ~stop_writing[p])
                      => v.o.buffer = <<>>
    BY <1>1, <1>3, <2>1, OutputBase
  <2>4. Named(v.o)
    BY <2>2, <2>3 DEF Named, SameBase
  <2> QED
    BY <2>3, <2>4
<1>9. ASSUME NEW refused,
             WriteToNewFile(p, o, force, time, lines, refused)
      PROVE  \E r : /\ obj' = [obj EXCEPT ![p][o] = r] /\ Named(r)
                    /\ force /\ (troubles' = {} \/ ~stop_writing[p])
                         => r.buffer = <<>>
  <2>1. w.o.file = 0 /\ CheckPid(p, o) /\ ~Deselected(q)
    BY <1>9 DEF WriteToNewFile
  <2>2. g_main_thread_pid'[p] \in Process
    BY <1>1, <2>1 DEF CheckPid, TypeOK
  <2>3. PICK i \in 1..Len(Candidates(w.o)) :
          Output(p, o, Created(p, o, w, time, Candidates(w.o)[i]),
                 force, lines)
    BY <1>9 DEF WriteToNewFile, Creatable
  <2> DEFINE b == Candidates(w.o)[i]
             u == Created(p, o, w, time, b)
  <2> HIDE DEF w
  <2>4. b \in Place /\ b # NoName
    <3>1. b \in Place
      BY <1>3, CandidatesProperties DEF Fine, Work
    <3>2. w.o.selected => w.o.base # NoName
      BY <1>3, <2>1 DEF Deselected
    <3>3. \A k \in 1..Len(Dirs) : Dirs[k] # NoName
      BY DEF LogFileAssumption
    <3>4. i \in 1..Len(IF w.o.selected THEN <<w.o.base>> ELSE Dirs)
          /\ b = (IF w.o.selected THEN <<w.o.base>> ELSE Dirs)[i]
      BY <2>3 DEF Candidates
    <3> QED
      BY <3>1, <3>2, <3>3, <3>4
  <2> HIDE DEF b
  <2>5. Fine(u) /\ u.o.file # 0 /\ u.o.base = b
    BY <1>1, <1>3, <2>2, <2>4, CreatedBase
  <2>6. Output(p, o, u, force, lines)
    BY <2>3 DEF b
  <2> HIDE DEF u
  <2>7. PICK v : /\ obj' = [obj EXCEPT ![p][o] = v.o] /\ SameBase(u, v)
                 /\ force /\ (troubles' = {} \/ ~stop_writing[p])
                      => v.o.buffer = <<>>
    BY <1>1, <2>5, <2>6, OutputBase
  <2>8. Named(v.o)
    BY <2>4, <2>5, <2>7 DEF Named, SameBase
  <2> QED
    BY <2>7, <2>8
<1> QED
  BY <1>5, <1>6, <1>7, <1>8, <1>9 DEF Write

\* A call of the client leaves an object named.
LEMMA ClientBase ==
  ASSUME Inv, NamedInv, LogFileAssumption, NEW p \in Process, NEW o \in Object,
         Flush(p, o) \/ SetBasename(p, o) \/ SetExtension(p, o)
  PROVE  \E r : obj' = [obj EXCEPT ![p][o] = r] /\ Named(r)
<1> DEFINE m == Memory(p, o)
<1>1. /\ Fine(m) /\ m.o = obj[p][o] /\ full \in BOOLEAN /\ clock \in Nat
      /\ LogBufSecs \in Nat
  BY MemoryProperties DEF Inv, TypeOK, LogFileAssumption
<1>2. Named(m.o)
  BY <1>1 DEF NamedInv
<1>3. Fine(Renamed(m)) /\ Renamed(m).o.file = 0
  <2> HIDE DEF m
  <2> QED
    BY <1>1, RenamedProperties
<1>4. CASE Flush(p, o)
  <2> DEFINE v == FlushUnlocked(m)
  <2>1. Commit(p, o, v, {})
    BY <1>4 DEF Flush, Change
  <2> HIDE DEF m
  <2>2. SameBase(m, v)
    <3>1. <<>> \in Seq(Line)
      OBVIOUS
    <3> QED
      BY <1>1, <3>1, StdioBase
  <2> HIDE DEF v
  <2> QED
    BY <1>2, <2>1, <2>2 DEF Commit, Named, SameBase
<1>5. CASE SetBasename(p, o)
  <2>1. PICK b \in Basename :
          Change(p, o, [IF obj[p][o].base # b THEN Renamed(m) ELSE m
                          EXCEPT !.o.selected = TRUE, !.o.base = b])
    BY <1>5 DEF SetBasename
  <2> DEFINE u == IF obj[p][o].base # b THEN Renamed(m) ELSE m
             v == [u EXCEPT !.o.selected = TRUE, !.o.base = b]
  <2>2. Commit(p, o, v, {})
    BY <2>1 DEF Change
  <2> HIDE DEF m
  <2>3. Fine(u) /\ (u.o.file = 0 \/ (u = m /\ m.o.base = b))
    BY <1>1, <1>3
  <2> HIDE DEF u
  <2>4. v.o.file = u.o.file /\ v.o.base = b
    BY <2>3 DEF Fine, Work, LogFileObject
  <2> HIDE DEF v
  <2>5. Named(v.o)
    BY <1>2, <2>3, <2>4 DEF Named
  <2> QED
    BY <2>2, <2>5 DEF Commit
<1>6. CASE SetExtension(p, o)
  <2>1. PICK e \in Extension : Change(p, o, [Renamed(m) EXCEPT !.o.ext = e])
    BY <1>6 DEF SetExtension
  <2> DEFINE u == Renamed(m)
             v == [u EXCEPT !.o.ext = e]
  <2>2. Commit(p, o, v, {})
    BY <2>1 DEF Change
  <2> HIDE DEF u
  <2>3. v.o.file = 0
    BY <1>3 DEF Fine, Work, LogFileObject, u
  <2> HIDE DEF v
  <2> QED
    BY <2>2, <2>3 DEF Commit, Named
<1> QED
  BY <1>4, <1>5, <1>6

\* Every step keeps the objects named.
LEMMA NamedNext ==
  ASSUME Inv, ContentInv, NamedInv, LogFileAssumption, [Next]_vars
  PROVE  NamedInv'
<1>1. obj \in [Process -> [Object -> LogFileObject]] /\ alive \subseteq Process
  BY DEF Inv, TypeOK
<1>2. ASSUME NEW p \in Process, NEW o \in Object, NEW r, Named(r),
             obj' = [obj EXCEPT ![p][o] = r]
      PROVE  NamedInv'
  <2> SUFFICES ASSUME NEW q \in Process, NEW x \in Object
               PROVE  Named(obj'[q][x])
    BY DEF NamedInv, Named
  <2>1. obj'[q][x] \in {r, obj[q][x]}
    BY <1>1, <1>2
  <2> QED
    BY <1>2, <2>1 DEF NamedInv
<1>3. ASSUME NEW p \in Process, NEW o \in Object, WriteMessage(p, o)
      PROVE  NamedInv'
  <2>1. PICK force \in BOOLEAN, time \in {clock - 1, clock} \ {0},
             len \in MessageLen :
          /\ p \in alive /\ number < MaxMessages
          /\ Write(p, o, force, time,
                   <<[n |-> number + 1, by |-> p, at |-> clock, len |-> len]>>)
    BY <1>3 DEF WriteMessage
  <2> DEFINE l == [n |-> number + 1, by |-> p, at |-> clock, len |-> len]
             lines == <<l>>
  <2>2. /\ time \in 0..MaxTime /\ number + 1 \in 0..MaxMessages
        /\ clock \in 0..MaxTime /\ len \in Nat
    BY <2>1 DEF Inv, TypeOK, LogFileAssumption
  <2>3. lines \in Seq(Line)
    BY <2>2 DEF Line
  <2>4. Write(p, o, force, time, lines)
    BY <2>1
  <2> HIDE DEF l, lines
  <2>5. PICK r : obj' = [obj EXCEPT ![p][o] = r] /\ Named(r)
    BY <2>1, <2>2, <2>3, <2>4, WriteBase
  <2> QED
    BY <1>2, <2>5
<1>4. ASSUME NEW p \in Process, NEW o \in Object, WriteFlush(p, o)
      PROVE  NamedInv'
  <2> DEFINE lines == <<>>
  <2>1. p \in alive /\ Write(p, o, TRUE, 0, lines)
    BY <1>4 DEF WriteFlush
  <2>2. 0 \in 0..MaxTime /\ lines \in Seq(Line) /\ TRUE \in BOOLEAN
    BY DEF LogFileAssumption
  <2> HIDE DEF lines
  <2>3. PICK r : obj' = [obj EXCEPT ![p][o] = r] /\ Named(r)
    BY <2>1, <2>2, WriteBase
  <2> QED
    BY <1>2, <2>3
<1>5. ASSUME NEW p \in Process, NEW o \in Object,
             Flush(p, o) \/ SetBasename(p, o) \/ SetExtension(p, o)
      PROVE  NamedInv'
  BY <1>2, <1>5, ClientBase
<1>6. ASSUME NEW p \in Process, NEW q \in Process, Fork(p, q)
      PROVE  NamedInv'
  <2>1. obj' = [obj EXCEPT ![q] = obj[p]]
    BY <1>6 DEF Fork
  <2> QED
    BY <1>1, <2>1 DEF NamedInv, Named
<1>7. CASE UNCHANGED obj
  BY <1>7 DEF NamedInv, Named
<1> QED
  BY <1>3, <1>4, <1>5, <1>6, <1>7
  DEF Next, Tick, DiskFillsOrFrees, Stop, vars

\* Write(true, 0, "", 0) leaves nothing in the buffer unless writing is stopped;
\* while no creation failed and the disk never was full, every message that was
\* written for the object is on disk then, except what the other processes have
\* in their own buffers: whether the file was open, too long, renamed, deselected
\* or inherited, nothing is left for abort() to lose (LogMessage.cc:243-249,
\* Logger.cc:187-350).
THEOREM FatalFlushReachesDisk == Spec => FatalReachesDisk
<1>1. Init => NamedInv
  BY DEF Init, NewObject, NamedInv, Named
<1>2. Inv /\ ContentInv /\ NamedInv /\ [Next]_vars => NamedInv'
  BY NamedNext, LogFileAssumption
<1>3. ASSUME Inv, ContentInv, ContentInv', NamedInv, NEW p \in Process,
             NEW o \in Object, WriteFlush(p, o)
      PROVE  /\ ~stop_writing[p] => obj'[p][o].buffer = <<>>
             /\ troubles' = {} =>
                  accepted'[o] \subseteq (Written(o) \cup Elsewhere(p, o))'
  <2> DEFINE lines == <<>>
  <2>1. p \in alive /\ Write(p, o, TRUE, 0, lines)
    BY <1>3 DEF WriteFlush
  <2>2. /\ 0 \in 0..MaxTime /\ lines \in Seq(Line) /\ TRUE \in BOOLEAN
        /\ obj \in [Process -> [Object -> LogFileObject]]
    BY <1>3, LogFileAssumption DEF Inv, TypeOK, LogFileAssumption
  <2> HIDE DEF lines
  <2>3. troubles' = {} \/ ~stop_writing[p] => obj'[p][o].buffer = <<>>
    <3>1. PICK r : /\ obj' = [obj EXCEPT ![p][o] = r]
                   /\ troubles' = {} \/ ~stop_writing[p] => r.buffer = <<>>
      BY <1>3, <2>1, <2>2, WriteBase, LogFileAssumption
    <3>2. obj'[p][o] = r
      BY <1>3, <2>2, <3>1
    <3> QED
      BY <1>3, <3>1, <3>2
  <2> SUFFICES ASSUME troubles' = {}, NEW n \in accepted'[o],
                      n \notin Elsewhere(p, o)'
               PROVE  n \in Written(o)'
    BY <2>3
  <2>4. Kept(o, n)'
    BY <1>3 DEF ContentInv, KeptInv
  <2>5. ASSUME NEW q \in alive', InBuffer(obj'[q][o].buffer, n)
        PROVE  FALSE
    <3>1. PICK k \in 1..Len(obj'[q][o].buffer) : obj'[q][o].buffer[k].n = n
      BY <2>5 DEF InBuffer
    <3>2. q # p
      <4> SUFFICES ASSUME q = p
                   PROVE  FALSE
        OBVIOUS
      <4>1. 1..Len(obj'[q][o].buffer) = {}
        BY <2>3
      <4> QED
        BY <3>1, <4>1
    <3>3. n \in {m.n : m \in Buffered(q, o)'} /\ q \in alive' \ {p}
      BY <3>1, <3>2 DEF Buffered
    <3> QED
      BY <3>3 DEF Elsewhere
  <2>6. OnDisk(o, disk', n)
    BY <2>4, <2>5 DEF Kept
  <2>7. PICK i \in 1..Len(disk') : /\ disk'[i].of = o
                                   /\ \E k \in 1..Len(disk'[i].lines) :
                                        disk'[i].lines[k].n = n
    BY <2>6 DEF OnDisk
  <2>8. PICK k \in 1..Len(disk'[i].lines) : disk'[i].lines[k].n = n
    BY <2>7
  <2>9. <<i, k>> \in Places' /\ At(<<i, k>>)' = disk'[i].lines[k]
    BY <2>8 DEF Places, At
  <2> QED
    BY <2>7, <2>8, <2>9 DEF Written
<1>4. Inv /\ ContentInv /\ ContentInv' /\ NamedInv /\ [Next]_vars =>
        [\A p \in Process, o \in Object :
           WriteFlush(p, o) =>
             /\ ~stop_writing[p] => obj'[p][o].buffer = <<>>
             /\ troubles' = {} =>
                  accepted'[o] \subseteq (Written(o) \cup Elsewhere(p, o))']_vars
  BY <1>3
<1> QED
  BY <1>1, <1>2, <1>4, ContentInvariance, PTL DEF Spec, FatalReachesDisk
=============================================================================
