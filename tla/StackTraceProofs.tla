-------------------------- MODULE StackTraceProofs --------------------------
(***************************************************************************)
(* Proofs about the stack trace, for any files, maps and stacks, any       *)
(* buffers and any way in which the reads are cut: the types, the lines of *)
(* the maps, the callers that are found; and that each is given the name   *)
(* that the maps and the symbol tables give it, and no assertion ends the  *)
(* program, unless a call failed or a file was cut short.                  *)
(*                                                                         *)
(* TraceInv is inductive, and enough for the first three.  For the others, *)
(* MapInv says which of the maps were looked at, SearchInv the same of the *)
(* headers and symbols of the open file, and that what Symbolize returns   *)
(* is what is expected; they are inductive relative to TraceInv.           *)
(***************************************************************************)
EXTENDS StackTraceProps, SequenceTheorems, WellFoundedInduction, TLAPS

-----------------------------------------------------------------------------
(* Numbers.                                                                *)

\* A set of naturals has a least element.
LEMMA LeastOf ==
  ASSUME NEW S, S \subseteq Nat, S # {}
  PROVE  Min(S) \in S /\ \A j \in S : Min(S) <= j
<1>1. PICK i \in S : \A j \in S : ~(<<j, i>> \in OpToRel(<, Nat))
  BY NatLessThanWellFounded, WFMin
<1>2. \A j \in S : ~(j < i)
  BY <1>1 DEF OpToRel
<1>3. \A j \in S : i <= j
  BY <1>2
<1> QED
  BY <1>3 DEF Min

\* What is in a set of naturals and not above its elements is the least.
LEMMA LeastIs ==
  ASSUME NEW S, S \subseteq Nat, NEW l \in S, \A j \in S : l <= j
  PROVE  Min(S) = l
<1>1. Min(S) \in S /\ Min(S) <= l
  BY LeastOf
<1>2. l <= Min(S) /\ l \in Nat /\ Min(S) \in Nat
  BY <1>1
<1> QED
  BY <1>1, <1>2

\* The smaller of two integers.
LEMMA MinOfTwo ==
  ASSUME NEW a \in Int, NEW b \in Int
  PROVE  Min({a, b}) = IF a <= b THEN a ELSE b
<1> DEFINE l == IF a <= b THEN a ELSE b
<1>1. l \in {a, b} /\ \A j \in {a, b} : l <= j
  OBVIOUS
<1>2. \A x \in {a, b} : (\A j \in {a, b} : x <= j) => x = l
  OBVIOUS
<1> QED
  BY <1>1, <1>2 DEF Min

\* The greater of two integers.
LEMMA MaxOfTwo ==
  ASSUME NEW a \in Int, NEW b \in Int
  PROVE  Max({a, b}) = IF a >= b THEN a ELSE b
<1> DEFINE l == IF a >= b THEN a ELSE b
<1>1. l \in {a, b} /\ \A j \in {a, b} : l >= j
  OBVIOUS
<1>2. \A x \in {a, b} : (\A j \in {a, b} : x >= j) => x = l
  OBVIOUS
<1> QED
  BY <1>1, <1>2 DEF Max

\* Whole entries.
LEMMA Multiple ==
  ASSUME NEW m \in Nat, NEW e \in Nat, e > 0
  PROVE  m * e \in Nat /\ (m * e) % e = 0 /\ (m * e) \div e = m
BY SMTT(30)

\* More entries take no fewer bytes.
LEMMA Product ==
  ASSUME NEW a \in Nat, NEW b \in Nat, NEW e \in Nat, a <= b
  PROVE  a * e \in Nat /\ b * e \in Nat /\ a * e <= b * e
         /\ (b - a) * e = b * e - a * e
<1>1. (b - a) * e >= 0
  BY SMTT(30)
<1>2. (b - a) * e = b * e - a * e
  BY SMTT(30)
<1>3. a * e \in Nat /\ b * e \in Nat
  BY SMTT(30)
<1> DEFINE x == a * e
           y == b * e
           z == (b - a) * e
<1>4. z \in Int
  BY <1>2, <1>3
<1> HIDE DEF x, y, z
<1>5. z >= 0 /\ z = y - x /\ x \in Nat /\ y \in Nat
  BY <1>1, <1>2, <1>3 DEF x, y, z
<1>6. x <= y
  BY <1>5
<1> QED
  BY <1>5, <1>6 DEF x, y, z

\* Entries, and the bytes left over.
LEMMA Divided ==
  ASSUME NEW l \in Nat, NEW e \in Nat, e > 0
  PROVE  l \div e \in Nat /\ l % e \in 0..(e - 1) /\ l = ((l \div e) * e) + (l % e)
BY SMTT(30)

-----------------------------------------------------------------------------
(* The lines of /proc/self/maps.                                           *)

\* A file of lines, and where they end.
LEMMA EndsIncrease ==
  ASSUME NEW m \in Maps
  PROVE  /\ Len(m) \in Nat /\ \A k \in 1..Len(m) : m[k] \in Line
         /\ \A k \in 0..Len(m) : EndOf(m, k) \in Nat
         /\ \A i, j \in 0..Len(m) : i < j => EndOf(m, i) < EndOf(m, j)
<1>1. m \in Seq(Line) /\ \A k \in 1..Len(m) : EndOf(m, k - 1) < EndOf(m, k)
  BY SymbolizeAssumption DEF SymbolizeAssumption
<1>2. Len(m) \in Nat /\ \A k \in 1..Len(m) : m[k] \in Line
  BY <1>1, ElementOfSeq, LenProperties
<1>3. ASSUME NEW k \in 0..Len(m) PROVE EndOf(m, k) \in Nat
  <2>1. CASE k = 0
    BY <2>1 DEF EndOf
  <2>2. CASE k # 0
    <3>1. k \in 1..Len(m)
      BY <2>2
    <3> QED
      BY <1>2, <2>2, <3>1 DEF EndOf, Line
  <2> QED
    BY <2>1, <2>2
<1>4. ASSUME NEW i \in 0..Len(m),
             \E j \in 0..Len(m) : i < j /\ ~(EndOf(m, i) < EndOf(m, j))
      PROVE  FALSE
  <2> DEFINE B == {j \in 0..Len(m) : i < j /\ ~(EndOf(m, i) < EndOf(m, j))}
             b == Min(B)
  <2>1. B \subseteq Nat /\ B # {}
    BY <1>2, <1>4
  <2> HIDE DEF B
  <2>2. b \in B /\ \A j \in B : b <= j
    BY <2>1, LeastOf
  <2> HIDE DEF b
  <2>3. b \in 0..Len(m) /\ i < b /\ ~(EndOf(m, i) < EndOf(m, b))
    BY <2>2 DEF B
  <2>4. b \in 1..Len(m) /\ b - 1 \in 0..Len(m) /\ i <= b - 1
    BY <1>2, <2>3
  <2>5. EndOf(m, b - 1) < EndOf(m, b)
    BY <1>1, <2>4
  <2>6. EndOf(m, i) \in Nat /\ EndOf(m, b - 1) \in Nat /\ EndOf(m, b) \in Nat
    BY <1>3, <2>3, <2>4
  <2>7. CASE i = b - 1
    BY <2>3, <2>5, <2>7
  <2>8. CASE i # b - 1
    <3>1. b - 1 \notin B
      BY <1>2, <2>2, <2>4
    <3>2. EndOf(m, i) < EndOf(m, b - 1)
      BY <2>4, <2>8, <3>1 DEF B
    <3> QED
      BY <2>3, <2>5, <2>6, <3>2
  <2> QED
    BY <2>7, <2>8
<1> QED
  BY <1>2, <1>3, <1>4

\* The first line feed behind the n-th line is that of the next one, when it
\* is before to.
LEMMA NextFeed ==
  ASSUME maps \in Maps, NEW n \in 0..Len(maps), NEW to \in Nat
  PROVE  /\ LineFeed(EndOf(maps, n), to) # {}
              <=> n < Len(maps) /\ EndOf(maps, n + 1) <= to
         /\ LineFeed(EndOf(maps, n), to) # {} =>
              Min(LineFeed(EndOf(maps, n), to)) = EndOf(maps, n + 1) - 1
<1> DEFINE E(k) == EndOf(maps, k)
           S == LineFeed(E(n), to)
<1>1. /\ Len(maps) \in Nat /\ \A k \in 0..Len(maps) : E(k) \in Nat
      /\ \A i, j \in 0..Len(maps) : i < j => E(i) < E(j)
  BY EndsIncrease
<1>2. DOMAIN maps = 1..Len(maps)
  BY SymbolizeAssumption, LenProperties DEF SymbolizeAssumption
<1>3. S = {e \in {E(k) - 1 : k \in 1..Len(maps)} : E(n) <= e /\ e < to}
  BY <1>2 DEF LineFeed, LineFeeds
<1> HIDE DEF E, S
<1>4. ASSUME NEW e \in S
      PROVE  n < Len(maps) /\ E(n + 1) - 1 <= e /\ e < to /\ e \in Nat
  <2>1. PICK k \in 1..Len(maps) : e = E(k) - 1 /\ E(n) <= e /\ e < to
    BY <1>3
  <2>2. k \in 0..Len(maps) /\ E(k) \in Nat /\ E(n) \in Nat /\ k # 0
    BY <1>1, <2>1
  <2>3. n < k
    <3>1. CASE k = n
      BY <2>1, <2>2, <3>1
    <3>2. CASE k < n
      <4>1. E(k) < E(n)
        BY <1>1, <2>2, <3>2
      <4> QED
        BY <2>1, <2>2, <4>1
    <3> QED
      BY <1>1, <3>1, <3>2
  <2>4. n + 1 \in 0..Len(maps) /\ E(n + 1) \in Nat /\ n < Len(maps)
    BY <1>1, <2>3
  <2>5. E(n + 1) <= E(k)
    BY <1>1, <2>2, <2>3, <2>4
  <2>6. e \in Nat
    BY <2>1, <2>2
  <2> QED
    BY <2>1, <2>2, <2>4, <2>5, <2>6
<1>5. ASSUME n < Len(maps), E(n + 1) <= to
      PROVE  E(n + 1) - 1 \in S
  <2>1. n + 1 \in 1..Len(maps) /\ n + 1 \in 0..Len(maps)
    BY <1>1, <1>5
  <2>2. E(n) < E(n + 1) /\ E(n) \in Nat /\ E(n + 1) \in Nat
    BY <1>1, <2>1
  <2>3. E(n) <= E(n + 1) - 1 /\ E(n + 1) - 1 < to
    BY <1>5, <2>2
  <2> QED
    BY <1>3, <2>1, <2>3
<1>6. ASSUME S # {} PROVE n < Len(maps) /\ E(n + 1) <= to
  <2>1. PICK e \in S : TRUE
    BY <1>6
  <2>2. n < Len(maps) /\ E(n + 1) - 1 <= e /\ e < to /\ e \in Nat
    BY <1>4
  <2>3. E(n + 1) \in Nat
    BY <1>1, <2>2
  <2> QED
    BY <2>2, <2>3
<1>7. ASSUME S # {} PROVE Min(S) = E(n + 1) - 1
  <2>1. E(n + 1) - 1 \in S
    BY <1>5, <1>6, <1>7
  <2>2. S \subseteq Nat /\ \A e \in S : E(n + 1) - 1 <= e
    BY <1>4
  <2> QED
    BY <2>1, <2>2, LeastIs
<1> QED
  BY <1>5, <1>6, <1>7 DEF E, S

-----------------------------------------------------------------------------
(* The invariant of a call of Symbolize, without what it looks for.        *)

Labels == {"idle", "read", "open", "ReadLine", "refilled", "line",
           "FileGetElfType", "ehdr", "headers", "gotHeaders", "strtab",
           "symbols", "gotSymbols", "name", "return", "abort"}

\* A read is over, and what it was made for goes on.
Then == {"refilled", "FileGetElfType", "ehdr", "gotHeaders", "strtab",
         "gotSymbols", "name"}
Phase == IF loc = "read" THEN rd.then ELSE loc
InMap == {"open", "ReadLine", "refilled", "line"}
InTables == {"ehdr", "headers", "gotHeaders", "strtab", "symbols", "gotSymbols",
             "name"}
InFile == {"FileGetElfType"} \cup InTables

Header == [type : SectionType, off : Nat, n : Nat, link : Nat]
Types ==
  /\ loc \in Labels /\ pc \in Nat /\ room \in Nat /\ maps \in Maps
  /\ object \in DOMAIN File \cup {NoFile}
  /\ rd \in [want : Nat, left : Nat, got : Nat, len : Int,
             then : Then \cup {"idle"}]
  /\ bol \in Nat /\ eol \in Nat /\ eod \in Nat
  /\ lines \in Seq(Nat \X Nat)
  /\ startAddress \in Nat
  /\ section \in [kind : Kind, hdr : Header, str : Header, i : Nat]
  /\ answer.found \in BOOLEAN /\ answer.demangled \in BOOLEAN
  /\ errors \in 0..MaxErrors

\* A read gets what it was asked for, unless the file ends or it fails.
Asked(count, left) == rd.want = count /\ rd.got + rd.left = left
ReadInv ==
  /\ rd.got <= rd.want /\ rd.len \in -1..rd.want
  /\ loc = "read" => rd.then \in Then
  /\ loc \in Then =>
       \/ rd.len = -1 /\ errors > 0
       \/ rd.len = rd.got /\ (rd.got = rd.want \/ rd.left = 0)

\* The callback has written, or not yet; an object file is open.
PlaceInv ==
  /\ Phase \in InMap \cup {"FileGetElfType"} => room = Room
  /\ Phase \in InTables => room = Room - Callback
  /\ Phase \in InFile => object \in DOMAIN File

\* The reader is at the line behind those it has returned, or at the last of
\* them; what is in its buffer of the next one has no line feed.
Total == EndOf(maps, Len(maps))
Behind == EndOf(maps, Len(lines))
LineInv ==
  /\ Len(lines) \in 0..Len(maps) /\ LinesInOrder
  /\ eod <= Total /\ bol <= eod /\ eod - bol <= LineBuf
  /\ IF Len(lines) = 0 THEN bol = 0 /\ eol = 0 /\ eod = 0
     ELSE eol + 1 = Behind /\ Behind <= eod /\ bol <= Behind
  /\ Phase = "open" => Len(lines) = 0
  /\ Phase = "line" => Len(lines) > 0 /\ bol = EndOf(maps, Len(lines) - 1)
  /\ Phase = "refilled" =>
       /\ bol = Behind /\ Asked(LineBuf - (eod - bol), Total - eod)
       /\ Len(lines) < Len(maps) => eod < EndOf(maps, Len(lines) + 1)
ReaderInv == Types /\ ReadInv /\ PlaceInv /\ LineInv

\* What Read does.
LEMMA Reads ==
  ASSUME NEW count, NEW left \in Int, NEW label, Read(count, left, label)
  PROVE  /\ loc' = "read"
         /\ rd' = [want |-> count, left |-> IF left >= 0 THEN left ELSE 0,
                   got |-> 0, len |-> 0, then |-> label]
<1>1. Max({left, 0}) = IF left >= 0 THEN left ELSE 0
  BY MaxOfTwo
<1> QED
  BY <1>1 DEF Read

\* The section headers and the symbols of a file.
LEMMA FileTypes ==
  ASSUME NEW path \in DOMAIN File
  PROVE  /\ File[path].size \in Nat /\ File[path].shoff \in Nat
         /\ File[path].shnum \in Nat
         /\ File[path].elf \in BOOLEAN /\ File[path].dyn \in BOOLEAN
         /\ \A o : Pick(File[path].headers, o, NoHeader) \in Header
         /\ DOMAIN File[path].headers \subseteq Nat
         /\ DOMAIN File[path].symbols \subseteq Nat
         /\ \A o \in DOMAIN File[path].symbols :
              File[path].symbols[o] \in [value : Nat, size : Nat, name : Nat]
         /\ \A o \in DOMAIN File[path].names :
              /\ File[path].names[o].len \in Nat
              /\ File[path].names[o].demangled \in Nat
<1>1. ObjectFile(File[path])
  BY SymbolizeAssumption DEF SymbolizeAssumption
<1>2. NoHeader \in Header
  BY DEF NoHeader, Header, SectionType
<1> QED
  BY <1>1, <1>2 DEF ObjectFile, Pick, Header

\* A read goes on, or ends: that it is the same read.
LEMMA TypesReading ==
  ASSUME ReaderInv, ReadSome \/ ReadEnds \/ ReadError
  PROVE  /\ Types' /\ ReadInv' /\ Phase' = Phase
         /\ rd'.want = rd.want /\ rd'.got + rd'.left = rd.got + rd.left
         /\ loc = "read" /\ loc' \in {"read"} \cup Then
         /\ errors' >= errors
         /\ UNCHANGED <<input, object, reader, startAddress, section, answer>>
<1>1. /\ loc = "read" /\ rd.then \in Then
      /\ UNCHANGED <<input, object, reader, startAddress, section, answer>>
      /\ rd \in [want : Nat, left : Nat, got : Nat, len : Int,
                 then : Then \cup {"idle"}]
      /\ rd.got <= rd.want /\ rd.len \in -1..rd.want
      /\ errors \in 0..MaxErrors /\ MaxErrors \in Nat
  BY SymbolizeAssumption
  DEF ReaderInv, ReadInv, Types, ReadSome, ReadEnds, ReadError, Reading,
      SymbolizeAssumption
<1>2. CASE ReadSome
  <2>1. Min({rd.want - rd.got, rd.left}) =
          IF rd.want - rd.got <= rd.left THEN rd.want - rd.got ELSE rd.left
    BY <1>1, MinOfTwo
  <2>2. PICK k \in 1..Min({rd.want - rd.got, rd.left}) :
          rd' = [rd EXCEPT !.got = rd.got + k, !.left = rd.left - k]
    BY <1>2 DEF ReadSome
  <2>3. k \in Nat /\ k <= rd.left /\ rd.got + k <= rd.want
    BY <1>1, <2>1
  <2>4. /\ rd' \in [want : Nat, left : Nat, got : Nat, len : Int,
                    then : Then \cup {"idle"}]
        /\ rd'.want = rd.want /\ rd'.got + rd'.left = rd.got + rd.left
        /\ rd'.got <= rd'.want /\ rd'.len = rd.len /\ rd'.then = rd.then
    <3>1. /\ rd.got \in Nat /\ rd.left \in Nat
          /\ rd.got + k \in Nat /\ rd.left - k \in Nat
      BY <1>1, <2>3
    <3>2. /\ rd'.got = rd.got + k /\ rd'.left = rd.left - k
          /\ rd'.want = rd.want /\ rd'.len = rd.len /\ rd'.then = rd.then
      BY <1>1, <2>2
    <3>3. rd'.got + rd'.left = rd.got + rd.left
      BY <2>3, <3>1, <3>2
    <3>4. rd' \in [want : Nat, left : Nat, got : Nat, len : Int,
                   then : Then \cup {"idle"}]
      BY <1>1, <2>2, <3>1
    <3> QED
      BY <2>3, <3>2, <3>3, <3>4
  <2>5. UNCHANGED <<loc, errors>>
    BY <1>2 DEF ReadSome
  <2>6. "read" \notin Then
    BY DEF Then
  <2> QED
    BY <1>1, <2>4, <2>5, <2>6
    DEF ReaderInv, Types, ReadInv, Phase, input, reader
<1>3. CASE ReadEnds \/ ReadError
  <2>1. /\ loc' = rd.then
        /\ \/ /\ rd' = [rd EXCEPT !.len = rd.got] /\ errors' = errors
              /\ rd.got = rd.want \/ rd.left = 0
           \/ /\ rd' = [rd EXCEPT !.len = -1] /\ errors' = errors + 1
              /\ errors < MaxErrors
    BY <1>3 DEF ReadEnds, ReadError
  <2>2. /\ rd' \in [want : Nat, left : Nat, got : Nat, len : Int,
                    then : Then \cup {"idle"}]
        /\ rd'.want = rd.want /\ rd'.got = rd.got /\ rd'.left = rd.left
        /\ rd'.len \in -1..rd.want /\ rd'.then = rd.then
    BY <1>1, <2>1
  <2>3. errors' \in 0..MaxErrors /\ errors' >= errors
    BY <1>1, <2>1
  <2>4. \/ rd'.len = -1 /\ errors' > 0
        \/ rd'.len = rd'.got /\ (rd'.got = rd'.want \/ rd'.left = 0)
    BY <1>1, <2>1
  <2>5. loc' \in Labels /\ loc' # "read" /\ loc' \in Then
    BY <1>1, <2>1 DEF Then, Labels
  <2>6. Types'
    BY <1>1, <2>2, <2>3, <2>5 DEF ReaderInv, Types, input, reader
  <2>7. ReadInv'
    BY <1>1, <2>2, <2>4, <2>5 DEF ReadInv
  <2>8. Phase' = Phase
    BY <1>1, <2>1, <2>5 DEF Phase
  <2> QED
    BY <1>1, <2>2, <2>3, <2>5, <2>6, <2>7, <2>8
<1> QED
  BY <1>2, <1>3

\* A read begins, for what label is.
LEMMA ReadBegins ==
  ASSUME NEW count \in Nat, NEW left \in Int, NEW label \in Then,
         Read(count, left, label)
  PROVE  /\ loc' = "read" /\ Phase' = label /\ ReadInv'
         /\ rd' \in [want : Nat, left : Nat, got : Nat, len : Int,
                     then : Then \cup {"idle"}]
         /\ rd'.want = count
         /\ rd'.got + rd'.left = IF left >= 0 THEN left ELSE 0
<1> DEFINE l == IF left >= 0 THEN left ELSE 0
<1>1. /\ loc' = "read"
      /\ rd' = [want |-> count, left |-> l, got |-> 0, len |-> 0, then |-> label]
      /\ l \in Nat
  BY Reads
<1> HIDE DEF l
<1>2. "read" \notin Then
  BY DEF Then
<1>3. Phase' = label
  BY <1>1 DEF Phase
<1>4. ReadInv'
  BY <1>1, <1>2 DEF ReadInv
<1>5. /\ rd' \in [want : Nat, left : Nat, got : Nat, len : Int,
                  then : Then \cup {"idle"}]
      /\ rd'.want = count /\ rd'.got + rd'.left = l
  BY <1>1
<1> QED
  BY <1>1, <1>3, <1>4, <1>5 DEF l

\* Nothing is read.
LEMMA ReadRests ==
  ASSUME ReadInv, UNCHANGED rd, loc' \notin {"read"} \cup Then
  PROVE  ReadInv' /\ Phase' = loc'
BY DEF ReadInv, Phase

\* The lines of the maps are left alone.
LEMMA LineRests ==
  ASSUME LineInv, UNCHANGED <<maps, reader>>,
         Phase' \notin {"open", "line", "refilled"}
  PROVE  LineInv'
BY DEF LineInv, LinesInOrder, Total, Behind, reader

\* The place is what it was, or none.
LEMMA PlaceRests ==
  ASSUME PlaceInv, UNCHANGED <<room, object>>,
         \/ Phase' \in InMap /\ Phase \in InMap
         \/ Phase' \in InTables /\ Phase \in InTables
         \/ Phase' \notin InMap \cup InFile
  PROVE  PlaceInv'
BY DEF PlaceInv, InMap, InTables, InFile

\* A read goes on, ends or fails.
LEMMA ReaderReading ==
  ASSUME ReaderInv, ReadSome \/ ReadEnds \/ ReadError
  PROVE  ReaderInv'
<1>1. /\ Types' /\ ReadInv' /\ Phase' = Phase
      /\ rd'.want = rd.want /\ rd'.got + rd'.left = rd.got + rd.left
      /\ UNCHANGED <<input, object, reader>>
  BY TypesReading
<1>2. PlaceInv'
  BY <1>1 DEF ReaderInv, PlaceInv, input
<1>3. LineInv'
  BY <1>1
  DEF ReaderInv, LineInv, LinesInOrder, Total, Behind, reader, input, Asked
<1> QED
  BY <1>1, <1>2, <1>3 DEF ReaderInv

\* The first call of open.
LEMMA ReaderOpens ==
  ASSUME ReaderInv, OpenMaps
  PROVE  ReaderInv'
<1>1. /\ loc = "open" /\ loc' = "ReadLine" /\ Phase = "open"
      /\ UNCHANGED <<input, rd, reader, object, startAddress, section, answer, errors>>
  BY DEF OpenMaps, InMaps, Phase
<1>2. ReadInv' /\ Phase' = "ReadLine"
  BY <1>1, ReadRests DEF ReaderInv, Then
<1>3. LineInv' /\ PlaceInv'
  BY <1>1, <1>2, LineRests, PlaceRests DEF ReaderInv, input, InMap
<1>4. Types'
  BY <1>1 DEF ReaderInv, Types, input, reader, Labels
<1> QED
  BY <1>2, <1>3, <1>4 DEF ReaderInv

\* Nothing was found.
LEMMA ReaderFails ==
  ASSUME ReaderInv, Fail, UNCHANGED <<input, object, rd, reader>>,
         startAddress' \in Nat,
         section' \in [kind : Kind, hdr : Header, str : Header, i : Nat],
         errors' \in 0..MaxErrors
  PROVE  ReaderInv' /\ Phase' = "return"
<1>1. loc' = "return" /\ answer' = NotFound
  BY DEF Fail
<1>2. ReadInv' /\ Phase' = "return"
  BY <1>1, ReadRests DEF ReaderInv, Then
<1>3. LineInv' /\ PlaceInv'
  BY <1>1, <1>2, LineRests, PlaceRests DEF ReaderInv, input, InMap, InFile, InTables
<1>4. Types'
  BY <1>1 DEF ReaderInv, Types, input, reader, Labels, NotFound
<1> QED
  BY <1>2, <1>3, <1>4 DEF ReaderInv

\* Where the reader is.
LEMMA LineFacts ==
  ASSUME Types, LineInv
  PROVE  /\ Len(lines) \in Nat /\ Len(maps) \in Nat /\ Len(lines) <= Len(maps)
         /\ Total \in Nat /\ Behind \in Nat
         /\ bol <= Behind /\ Behind <= eod
         /\ Behind = IF eod = 0 THEN 0 ELSE eol + 1
<1>1. /\ Len(maps) \in Nat /\ \A k \in 0..Len(maps) : EndOf(maps, k) \in Nat
      /\ \A i, j \in 0..Len(maps) : i < j => EndOf(maps, i) < EndOf(maps, j)
  BY EndsIncrease DEF Types
<1>2. Len(lines) \in 0..Len(maps) /\ Len(maps) \in 0..Len(maps) /\ 0 \in 0..Len(maps)
  BY <1>1 DEF LineInv
<1>3. Total \in Nat /\ Behind \in Nat
  BY <1>1, <1>2 DEF Total, Behind
<1>4. CASE Len(lines) = 0
  <2>1. Behind = 0
    BY <1>4 DEF Behind, EndOf
  <2> QED
    BY <1>1, <1>2, <1>3, <1>4, <2>1 DEF LineInv
<1>5. CASE Len(lines) # 0
  <2>1. Behind > 0
    BY <1>1, <1>2, <1>3, <1>5 DEF Behind
  <2>2. eol + 1 = Behind /\ Behind <= eod /\ bol <= Behind
    BY <1>5 DEF LineInv
  <2> QED
    BY <1>1, <1>2, <1>3, <2>1, <2>2 DEF Types
<1> QED
  BY <1>4, <1>5

\* A line is returned when it ends before the buffer does.
LEMMA LineReturned ==
  ASSUME Types, LineInv, UNCHANGED maps, bol' = Behind, eod' \in Nat,
         eod <= eod', eod' <= Total, eod' - bol' <= LineBuf,
         LineFeed(Behind, eod') # {}, Returns(Behind, eod'), Phase' = "line"
  PROVE  /\ LineInv' /\ Len(lines') = Len(lines) + 1
         /\ Len(lines) < Len(maps)
         /\ lines' \in Seq(Nat \X Nat) /\ bol' \in Nat /\ eol' \in Nat
         /\ \A k \in 1..Len(lines) : lines'[k] = lines[k]
<1> PICK n : n = Len(lines)
  OBVIOUS
<1> PICK m : m = maps
  OBVIOUS
<1>1. /\ n \in Nat /\ Len(m) \in Nat /\ n <= Len(m) /\ n \in 0..Len(m)
      /\ Behind = EndOf(m, n) /\ Behind \in Nat /\ Total = EndOf(m, Len(m))
      /\ Total \in Nat /\ lines \in Seq(Nat \X Nat)
  BY LineFacts DEF Behind, Total, LineInv, Types
<1>2. /\ n < Len(m) /\ EndOf(m, n + 1) <= eod'
      /\ Min(LineFeed(Behind, eod')) = EndOf(m, n + 1) - 1
  BY <1>1, NextFeed DEF Types
<1>3. n + 1 \in 0..Len(m) /\ EndOf(m, n + 1) \in Nat /\ EndOf(m, n) < EndOf(m, n + 1)
  <2>1. n + 1 \in 0..Len(m) /\ n < n + 1
    BY <1>1, <1>2
  <2>2. m \in Maps
    BY DEF Types
  <2> QED
    BY <1>1, <2>1, <2>2, EndsIncrease
<1>4. /\ eol' = EndOf(m, n + 1) - 1 /\ eol' \in Nat
      /\ lines' = Append(lines, <<EndOf(m, n), EndOf(m, n + 1) - 1>>)
  <2>1. eol' = Min(LineFeed(Behind, eod')) /\ Behind = EndOf(m, n)
        /\ lines' = Append(lines, <<Behind, eol'>>)
    BY <1>1 DEF Returns
  <2>2. eol' = EndOf(m, n + 1) - 1
    BY <1>2, <2>1
  <2>3. EndOf(m, n) \in Nat /\ EndOf(m, n + 1) \in Nat
          /\ EndOf(m, n) < EndOf(m, n + 1)
    BY <1>1, <1>3
  <2>4. EndOf(m, n + 1) - 1 \in Nat
    BY <2>3
  <2> QED
    BY <2>1, <2>2, <2>4
<1>5. <<EndOf(m, n), EndOf(m, n + 1) - 1>> \in Nat \X Nat
  BY <1>1, <1>3
<1>6. /\ lines' \in Seq(Nat \X Nat) /\ Len(lines') = n + 1
      /\ lines'[n + 1] = <<EndOf(m, n), EndOf(m, n + 1) - 1>>
      /\ \A k \in 1..n : lines'[k] = lines[k]
  BY <1>1, <1>4, <1>5, AppendProperties
<1>7. \A k \in 1..n : lines[k] = <<EndOf(m, k - 1), EndOf(m, k) - 1>>
  BY <1>1, LenProperties DEF LineInv, LinesInOrder
<1>8. \A k \in 1..(n + 1) : lines'[k] = <<EndOf(m, k - 1), EndOf(m, k) - 1>>
  <2> SUFFICES ASSUME NEW k \in 1..(n + 1)
               PROVE  lines'[k] = <<EndOf(m, k - 1), EndOf(m, k) - 1>>
    OBVIOUS
  <2>1. CASE k = n + 1
    <3>1. k - 1 = n
      BY <1>1, <2>1
    <3> QED
      BY <1>6, <2>1, <3>1
  <2>2. CASE k # n + 1
    <3>1. k \in 1..n
      BY <1>1, <2>2
    <3> QED
      BY <1>6, <1>7, <3>1
  <2> QED
    BY <2>1, <2>2
<1>9. DOMAIN lines' = 1..(n + 1)
  BY <1>6, LenProperties
<1>10. LinesInOrder'
  BY <1>8, <1>9 DEF LinesInOrder
<1>11. Behind' = EndOf(m, n + 1) /\ Total' = Total
  BY <1>6 DEF Behind, Total
<1>12. bol' = EndOf(m, Len(lines') - 1)
  <2>1. Len(lines') - 1 = n
    BY <1>1, <1>6
  <2> QED
    BY <1>1, <2>1
<1>13. eol' + 1 = Behind' /\ Behind' <= eod' /\ bol' <= Behind' /\ bol' <= eod'
  BY SMTT(60), <1>1, <1>2, <1>3, <1>4, <1>11
<1>14. Len(lines') \in 0..Len(maps') /\ Len(lines') > 0
  <2>1. maps' = m
    OBVIOUS
  <2>2. Len(lines') = n + 1
    BY <1>6
  <2>3. n + 1 \in 0..Len(m) /\ n + 1 > 0
    BY <1>1, <1>3
  <2> QED
    BY <2>1, <2>2, <2>3
<1>15. LineInv'
  BY <1>10, <1>11, <1>12, <1>13, <1>14 DEF LineInv
<1> QED
  BY <1>1, <1>2, <1>4, <1>6, <1>15

\* The next line of the buffer, or a read for it.
LEMMA ReaderReadsLine ==
  ASSUME ReaderInv, ReadLine
  PROVE  /\ ReaderInv'
         /\ \/ /\ Phase' = "refilled" /\ UNCHANGED lines
            \/ /\ loc' = "line" /\ Len(lines') = Len(lines) + 1
               /\ Len(lines) < Len(maps)
         /\ bol' = Behind /\ loc = "ReadLine"
<1>1. /\ loc = "ReadLine" /\ Phase = "ReadLine" /\ bol' = Behind
      /\ UNCHANGED <<input, object, startAddress, section, errors, eod, answer>>
      /\ Behind = IF eod = 0 THEN 0 ELSE eol + 1
  BY LineFacts DEF ReaderInv, ReadLine, InMaps, Phase
<1>2. /\ eod \in Nat /\ Behind \in Nat /\ Total \in Nat /\ bol \in Nat
      /\ bol <= Behind /\ Behind <= eod /\ eod <= Total /\ eod - bol <= LineBuf
      /\ LineBuf \in Nat
  BY LineFacts, SymbolizeAssumption DEF ReaderInv, Types, LineInv, SymbolizeAssumption
<1>3. PlaceInv /\ LineInv /\ Types /\ ReadInv /\ UNCHANGED maps
  BY <1>1 DEF ReaderInv, input
<1>4. CASE LineFeed(Behind, eod) # {}
  <2>1. Returns(Behind, eod) /\ UNCHANGED rd /\ loc' = "line"
    BY <1>1, <1>4 DEF ReadLine, Returns
  <2>2. ReadInv' /\ Phase' = "line"
    BY <1>3, <2>1, ReadRests DEF Then
  <2>3. eod' = eod /\ eod' - bol' <= LineBuf
    BY <1>1, <1>2
  <2>4. /\ LineInv' /\ Len(lines') = Len(lines) + 1 /\ Len(lines) < Len(maps)
        /\ lines' \in Seq(Nat \X Nat) /\ bol' \in Nat /\ eol' \in Nat
    BY <1>1, <1>2, <1>3, <1>4, <2>1, <2>2, <2>3, LineReturned
  <2>5. Types'
    BY <1>1, <1>2, <1>3, <2>1, <2>4 DEF Types, input, Labels
  <2>6. PlaceInv'
    BY <1>1, <1>3, <2>2, PlaceRests DEF input, InMap
  <2> QED
    BY <1>1, <2>1, <2>2, <2>4, <2>5, <2>6 DEF ReaderInv
<1>5. CASE LineFeed(Behind, eod) = {}
  <2> DEFINE c == LineBuf - (eod - Behind)
             r == Total - eod
  <2>1. c \in Nat /\ r \in Nat
    BY <1>2
  <2>2. /\ Read(c, r, "refilled") /\ UNCHANGED <<eol, lines>>
    BY <1>1, <1>5 DEF ReadLine, Total
  <2>3. "refilled" \in Then
    BY DEF Then
  <2>4. PICK cc \in Nat : cc = c
    BY <2>1
  <2>5. PICK rr \in Nat : rr = r
    BY <2>1
  <2> HIDE DEF c, r
  <2>6. /\ loc' = "read" /\ Phase' = "refilled" /\ ReadInv'
        /\ rd' \in [want : Nat, left : Nat, got : Nat, len : Int,
                    then : Then \cup {"idle"}]
        /\ rd'.want = cc /\ rd'.got + rd'.left = rr
    <3>1. rr \in Int /\ Read(cc, rr, "refilled")
      BY <2>2, <2>4, <2>5
    <3> QED
      BY <2>3, <2>5, <3>1, ReadBegins
  <2>7. ~(Len(lines) < Len(maps) /\ EndOf(maps, Len(lines) + 1) <= eod)
    BY <1>2, <1>3, <1>5, NextFeed DEF Types, LineInv, Behind
  <2>8. Len(lines) < Len(maps) => eod < EndOf(maps, Len(lines) + 1)
    <3>1. SUFFICES ASSUME Len(lines) < Len(maps)
                   PROVE  eod < EndOf(maps, Len(lines) + 1)
      OBVIOUS
    <3>2. Len(lines) + 1 \in 0..Len(maps)
      BY <1>3, <3>1, LineFacts
    <3>3. EndOf(maps, Len(lines) + 1) \in Nat
      BY <1>3, <3>2, EndsIncrease DEF Types
    <3> QED
      BY <1>2, <2>7, <3>1, <3>3
  <2>9. /\ Behind' = Behind /\ Total' = Total /\ LinesInOrder'
    BY <1>3, <2>2 DEF Behind, Total, LineInv, LinesInOrder
  <2>10. cc = LineBuf - (eod' - bol') /\ rr = Total' - eod'
    BY <1>1, <2>4, <2>5, <2>9 DEF c, r
  <2>11. /\ Len(lines) = 0 => bol' = 0
         /\ eod' - bol' <= LineBuf /\ bol' <= eod'
    BY <1>1, <1>2 DEF Behind, EndOf
  <2>12. LineInv'
    <3>1. Len(lines') \in 0..Len(maps') /\ eod' <= Total'
      BY <1>1, <1>3, <2>2, <2>9 DEF LineInv
    <3>2. IF Len(lines') = 0 THEN bol' = 0 /\ eol' = 0 /\ eod' = 0
          ELSE eol' + 1 = Behind' /\ Behind' <= eod' /\ bol' <= Behind'
      BY <1>1, <1>2, <1>3, <2>2, <2>9, <2>11 DEF LineInv
    <3>3. bol' = Behind' /\ Asked(LineBuf - (eod - bol), Total - eod)'
      BY <1>1, <2>6, <2>9, <2>10 DEF Asked
    <3>4. Len(lines') < Len(maps') => eod' < EndOf(maps', Len(lines') + 1)
      BY <1>1, <1>3, <2>2, <2>8
    <3> QED
      BY <2>6, <2>9, <2>11, <3>1, <3>2, <3>3, <3>4 DEF LineInv
  <2>13. Types'
    BY <1>1, <1>2, <1>3, <2>2, <2>6 DEF Types, input, Labels
  <2>14. PlaceInv'
    BY <1>1, <1>3, <2>6, PlaceRests DEF input, InMap
  <2> QED
    BY <1>1, <2>2, <2>6, <2>12, <2>13, <2>14 DEF ReaderInv
<1> QED
  BY <1>4, <1>5

\* What was read behind the rest of a line ends it.
LEMMA ReaderRefills ==
  ASSUME ReaderInv, ReadLineRefilled
  PROVE  /\ ReaderInv' /\ loc = "refilled" /\ loc' = "line"
         /\ Len(lines') = Len(lines) + 1 /\ Len(lines) < Len(maps)
<1>1. /\ loc = "refilled" /\ Phase = "refilled" /\ rd.len > 0
      /\ LineFeed(bol, eod + rd.len) # {}
      /\ eod' = eod + rd.len /\ Returns(bol, eod') /\ loc' = "line"
      /\ UNCHANGED <<input, object, startAddress, section, errors, rd, bol, answer>>
  BY DEF ReadLineRefilled, InMaps, Phase, Returns
<1>2. PlaceInv /\ LineInv /\ Types /\ ReadInv /\ UNCHANGED maps
  BY <1>1 DEF ReaderInv, input
<1>3. ReadInv' /\ Phase' = "line"
  BY <1>1, <1>2, ReadRests DEF Then
<1>4. /\ bol = Behind /\ rd.want = LineBuf - (eod - bol)
      /\ rd.got + rd.left = Total - eod
  BY <1>1, <1>2 DEF LineInv, Asked
<1>5. /\ rd.len = rd.got /\ rd.len <= rd.want
      /\ rd.got \in Nat /\ rd.left \in Nat /\ rd.want \in Nat
  BY <1>1, <1>2 DEF ReadInv, Types, Then
<1>6. /\ bol \in Nat /\ eod \in Nat /\ Total \in Nat /\ LineBuf \in Nat
      /\ bol <= eod
  BY <1>2, LineFacts, SymbolizeAssumption
  DEF Types, LineInv, SymbolizeAssumption
<1>7. /\ eod' \in Nat /\ eod <= eod' /\ eod' <= Total /\ eod' - bol <= LineBuf
  BY <1>1, <1>4, <1>5, <1>6
<1>8. /\ LineInv' /\ Len(lines') = Len(lines) + 1 /\ Len(lines) < Len(maps)
      /\ lines' \in Seq(Nat \X Nat) /\ bol' \in Nat /\ eol' \in Nat
  <2>1. bol' = Behind /\ bol' = bol
    BY <1>1, <1>4
  <2>2. LineFeed(Behind, eod') # {} /\ Returns(Behind, eod')
    BY <1>1, <1>4
  <2> QED
    BY <1>2, <1>3, <1>7, <2>1, <2>2, LineReturned
<1>9. Types'
  BY <1>1, <1>2, <1>7, <1>8 DEF Types, input, Labels
<1>10. PlaceInv'
  BY <1>1, <1>2, <1>3, PlaceRests DEF input, InMap
<1> QED
  BY <1>1, <1>3, <1>8, <1>9, <1>10 DEF ReaderInv

\* What ReadLine returned is the line that it is at.
LEMMA IsParsed ==
  ASSUME ReaderInv, loc = "line"
  PROVE  /\ Parsed = {Len(lines)} /\ L = maps[Len(lines)] /\ L \in Line
         /\ Len(lines) \in 1..Len(maps)
<1> PICK n : n = Len(lines)
  OBVIOUS
<1>1. /\ n \in 1..Len(maps) /\ n - 1 \in 0..Len(maps) /\ n \in 0..Len(maps)
      /\ bol = EndOf(maps, n - 1) /\ eol + 1 = EndOf(maps, n)
      /\ Len(maps) \in Nat
  <2>1. Phase = "line" /\ LineInv /\ Types
    BY DEF Phase, ReaderInv
  <2>2. Len(lines) > 0 /\ bol = EndOf(maps, Len(lines) - 1)
    BY <2>1 DEF LineInv
  <2>3. eol + 1 = Behind
    BY <2>1, <2>2 DEF LineInv
  <2>4. n \in Nat /\ Len(maps) \in Nat /\ n <= Len(maps) /\ n > 0
    BY <2>1, <2>2, LineFacts
  <2> QED
    BY <2>2, <2>3, <2>4 DEF Behind
<1>2. maps \in Maps
  BY DEF ReaderInv, Types
<1>3. /\ DOMAIN maps = 1..Len(maps) /\ maps[n] \in Line
  BY <1>1, <1>2, EndsIncrease, SymbolizeAssumption, LenProperties
  DEF SymbolizeAssumption
<1>4. \A i, j \in 0..Len(maps) : i < j => EndOf(maps, i) < EndOf(maps, j)
  BY <1>2, EndsIncrease
<1>5. \A k \in 0..Len(maps) : EndOf(maps, k) \in Nat
  BY <1>2, EndsIncrease
<1>6. ASSUME NEW k \in Parsed PROVE k = n
  <2>1. k \in 0..Len(maps) /\ EndOf(maps, k) = EndOf(maps, n)
    BY <1>1, <1>3 DEF Parsed
  <2>2. EndOf(maps, k) \in Nat /\ EndOf(maps, n) \in Nat /\ k \in Nat /\ n \in Nat
    BY <1>1, <1>5, <2>1
  <2>3. ~(k < n) /\ ~(n < k)
    BY <1>1, <1>4, <2>1, <2>2
  <2> QED
    BY <2>2, <2>3
<1>7. n \in Parsed
  BY <1>1, <1>3 DEF Parsed
<1>8. Parsed = {n}
  BY <1>6, <1>7
<1>9. Min(Parsed) = n
  BY <1>1, <1>8, LeastIs
<1> QED
  BY <1>1, <1>3, <1>8, <1>9 DEF L

\* The map does not hold the pc.
LEMMA ReaderSkips ==
  ASSUME ReaderInv, SkipMap
  PROVE  ReaderInv' /\ loc = "line" /\ loc' = "ReadLine" /\ ~Holds(maps[Len(lines)])
<1>1. /\ loc = "line" /\ Phase = "line" /\ loc' = "ReadLine" /\ ~Holds(L)
      /\ startAddress' = L.start
      /\ UNCHANGED <<input, object, rd, reader, section, answer, errors>>
  BY DEF SkipMap, Phase
<1>2. L \in Line /\ L = maps[Len(lines)]
  BY <1>1, IsParsed
<1>3. ReadInv' /\ Phase' = "ReadLine"
  BY <1>1, ReadRests DEF ReaderInv, Then
<1>4. LineInv' /\ PlaceInv'
  BY <1>1, <1>3, LineRests, PlaceRests DEF ReaderInv, input, InMap
<1>5. Types'
  BY <1>1, <1>2 DEF ReaderInv, Types, input, reader, Labels, Line
<1> QED
  BY <1>1, <1>2, <1>3, <1>4, <1>5 DEF ReaderInv

\* The ends of a call without an object file.
LEMMA ReaderGivesUp ==
  ASSUME ReaderInv, ReadLineFails \/ OpenFails \/ NoObject
  PROVE  ReaderInv' /\ loc' = "return" /\ answer' = NotFound
<1>1. /\ Fail /\ UNCHANGED <<input, object, rd, reader, startAddress, section>>
      /\ errors' \in 0..MaxErrors
  <2>1. errors \in 0..MaxErrors /\ MaxErrors \in Nat
    BY SymbolizeAssumption DEF ReaderInv, Types, SymbolizeAssumption
  <2>2. CASE ReadLineFails
    BY <2>1, <2>2 DEF ReadLineFails, InMaps
  <2>3. CASE NoObject
    BY <2>1, <2>3 DEF NoObject, InMaps
  <2>4. CASE OpenFails
    <3>1. errors' \in 0..MaxErrors
      BY <2>1, <2>4 DEF OpenFails
    <3> QED
      BY <2>4, <3>1 DEF OpenFails
  <2> QED
    BY <2>2, <2>3, <2>4
<1> QED
  BY <1>1, ReaderFails DEF Fail, ReaderInv, Types

\* The map that holds the pc.
LEMMA ReaderFinds ==
  ASSUME ReaderInv, OpenObject
  PROVE  /\ ReaderInv' /\ Phase' = "FileGetElfType" /\ loc = "line"
         /\ Holds(maps[Len(lines)]) /\ object' = maps[Len(lines)].path
         /\ startAddress' = maps[Len(lines)].start /\ object' # NoFile
         /\ rd'.want = Entry /\ rd'.got + rd'.left = File[object'].size
<1>1. /\ loc = "line" /\ loc' = "read" /\ Holds(L) /\ L.path # NoFile
      /\ startAddress' = L.start /\ object' = L.path
      /\ rd' = [want |-> Entry, left |-> File[L.path].size, got |-> 0,
                len |-> 0, then |-> "FileGetElfType"]
      /\ UNCHANGED <<input, reader, section, answer, errors>>
  BY DEF OpenObject
<1>2. L \in Line /\ L = maps[Len(lines)]
  BY <1>1, IsParsed
<1>3. L.path \in DOMAIN File /\ L.start \in Nat
  BY <1>1, <1>2 DEF Line
<1>4. File[L.path].size \in Nat /\ Entry \in Nat
  BY <1>3, FileTypes, SymbolizeAssumption DEF SymbolizeAssumption
<1>5. Phase' = "FileGetElfType" /\ "read" \notin Then
  BY <1>1 DEF Phase, Then
<1>6. /\ rd' \in [want : Nat, left : Nat, got : Nat, len : Int,
                  then : Then \cup {"idle"}]
  BY <1>1, <1>4 DEF Then
<1>7. /\ rd'.got <= rd'.want /\ rd'.len \in -1..rd'.want /\ rd'.then \in Then
      /\ rd'.want = Entry /\ rd'.got + rd'.left = File[object'].size
  BY <1>1, <1>4 DEF Then
<1>8. ReadInv'
  BY <1>1, <1>5, <1>7 DEF ReadInv
<1>9. LineInv'
  BY <1>1, <1>5, LineRests DEF ReaderInv, input
<1>10. PlaceInv'
  <2>1. room = Room
    BY <1>1 DEF ReaderInv, PlaceInv, Phase, InMap
  <2> QED
    BY <1>1, <1>3, <1>5, <2>1 DEF PlaceInv, InMap, InFile, InTables, input
<1>11. Types'
  BY <1>1, <1>3, <1>6 DEF ReaderInv, Types, input, reader, Labels
<1> QED
  BY <1>1, <1>2, <1>5, <1>7, <1>8, <1>9, <1>10, <1>11 DEF ReaderInv

\* In an object file: what the steps leave alone.
LEMMA ReaderInFile ==
  ASSUME ReaderInv, InObject, ReadInv', Phase \in InTables, Phase' \in InTables,
         loc' \in Labels, answer' = answer,
         rd' \in [want : Nat, left : Nat, got : Nat, len : Int,
                  then : Then \cup {"idle"}],
         section' \in [kind : Kind, hdr : Header, str : Header, i : Nat]
  PROVE  ReaderInv'
<1>1. UNCHANGED <<input, object, reader, startAddress, errors>>
  BY DEF InObject
<1>2. LineInv' /\ PlaceInv'
  BY <1>1, LineRests, PlaceRests DEF ReaderInv, input, InTables
<1>3. Types'
  BY <1>1 DEF ReaderInv, Types, input, reader
<1> QED
  BY <1>2, <1>3 DEF ReaderInv

\* The file that is read.
LEMMA InFileFacts ==
  ASSUME ReaderInv, Phase \in InFile
  PROVE  /\ object \in DOMAIN File
         /\ F.size \in Nat /\ F.shoff \in Nat /\ F.shnum \in Nat
         /\ Entry \in Nat /\ Entry > 0
         /\ \A k : HeaderAt(k) \in Header
         /\ \A k \in Nat : k * Entry \in Nat
         /\ section \in [kind : Kind, hdr : Header, str : Header, i : Nat]
         /\ section.i \in Nat /\ section.hdr \in Header
<1>1. object \in DOMAIN File
  BY DEF ReaderInv, PlaceInv
<1>2. Entry \in Nat \ {0}
  BY SymbolizeAssumption DEF SymbolizeAssumption
<1>3. \A k \in Nat : k * Entry \in Nat
  BY <1>2, Multiple
<1> QED
  BY SMTT(60), <1>1, <1>2, <1>3, FileTypes DEF F, HeaderAt, ReaderInv, Types

\* The second read of the ELF header.
LEMMA ReaderOfElf ==
  ASSUME ReaderInv, FileGetElfType
  PROVE  /\ ReaderInv' /\ Phase' = "ehdr" /\ Phase = "FileGetElfType" /\ F.elf
         /\ rd'.want = Entry /\ rd'.got + rd'.left = F.size
<1>1. /\ loc = "FileGetElfType" /\ Phase = "FileGetElfType" /\ F.elf
      /\ room' = room - Callback /\ Read(Entry, F.size - 0, "ehdr")
      /\ UNCHANGED <<pc, maps, object, reader, startAddress, section, answer,
                     errors>>
  BY DEF FileGetElfType, ReadFromOffset, Phase
<1>2. F.size \in Nat /\ Entry \in Nat /\ object \in DOMAIN File
  BY <1>1, InFileFacts DEF InFile
<1>3. F.size - 0 \in Int /\ F.size - 0 = F.size /\ "ehdr" \in Then
  BY <1>2 DEF Then
<1>4. /\ loc' = "read" /\ Phase' = "ehdr" /\ ReadInv'
      /\ rd' \in [want : Nat, left : Nat, got : Nat, len : Int,
                  then : Then \cup {"idle"}]
      /\ rd'.want = Entry /\ rd'.got + rd'.left = F.size
  <2> PICK size \in Nat : size = F.size
    BY <1>2
  <2>1. Read(Entry, size, "ehdr") /\ size \in Int
    BY <1>1, <1>3
  <2> QED
    BY <1>2, <1>3, <2>1, ReadBegins
<1>5. room = Room /\ Callback \in Nat /\ Room \in Nat /\ Callback <= Room
  BY <1>1, SymbolizeAssumption, StackAssumption
  DEF ReaderInv, PlaceInv, SymbolizeAssumption, StackAssumption
<1>6. room' \in Nat /\ room' = Room - Callback
  BY <1>1, <1>5
<1>7. LineInv'
  BY <1>1, <1>4, LineRests DEF ReaderInv
<1>8. PlaceInv'
  BY <1>1, <1>2, <1>4, <1>6 DEF PlaceInv, InMap, InFile, InTables
<1>9. Types'
  BY <1>1, <1>4, <1>6 DEF ReaderInv, Types, reader, Labels
<1> QED
  BY <1>1, <1>4, <1>7, <1>8, <1>9 DEF ReaderInv

\* A read in an object file.
LEMMA ReaderReads ==
  ASSUME ReaderInv, InObject, answer' = answer, NEW offset \in Nat,
         NEW count \in Nat, NEW label \in Then, label \in InTables,
         ReadFromOffset(offset, count, label), Phase \in InTables,
         section' \in [kind : Kind, hdr : Header, str : Header, i : Nat]
  PROVE  /\ ReaderInv' /\ loc' = "read" /\ Phase' = label /\ rd'.want = count
         /\ rd'.got + rd'.left =
              IF offset <= F.size THEN F.size - offset ELSE 0
<1>1. F.size \in Nat
  BY InFileFacts DEF InFile
<1> PICK left \in Int : left = F.size - offset
  BY <1>1
<1>2. Read(count, left, label)
  BY DEF ReadFromOffset
<1>3. /\ loc' = "read" /\ Phase' = label /\ ReadInv'
      /\ rd' \in [want : Nat, left : Nat, got : Nat, len : Int,
                  then : Then \cup {"idle"}]
      /\ rd'.want = count
      /\ rd'.got + rd'.left = IF left >= 0 THEN left ELSE 0
  BY <1>2, ReadBegins
<1>4. "read" \in Labels
  BY DEF Labels
<1>5. ReaderInv'
  BY <1>3, <1>4, ReaderInFile
<1>6. left >= 0 <=> offset <= F.size
  BY <1>1
<1> QED
  BY <1>3, <1>5, <1>6

\* A step that reads nothing and goes on in the file.
LEMMA ReaderGoesOn ==
  ASSUME ReaderInv, InObject, answer' = answer, rd' = rd, Phase \in InTables,
         loc' \in {"headers", "symbols"},
         section' \in [kind : Kind, hdr : Header, str : Header, i : Nat]
  PROVE  ReaderInv' /\ Phase' = loc'
<1>1. ReadInv' /\ Phase' = loc'
  BY ReadRests DEF ReaderInv, Then
<1>2. /\ loc' \in InTables /\ loc' \in Labels
  BY DEF InTables, Labels
<1> QED
  BY <1>1, <1>2, ReaderInFile DEF ReaderInv, Types

\* A step that ends the call.
LEMMA ReaderEndsCall ==
  ASSUME ReaderInv, InObject, rd' = rd, loc' \in {"return", "abort"},
         answer'.found \in BOOLEAN, answer'.demangled \in BOOLEAN,
         section' \in [kind : Kind, hdr : Header, str : Header, i : Nat]
  PROVE  ReaderInv' /\ Phase' = loc'
<1>1. ReadInv' /\ Phase' = loc'
  BY ReadRests DEF ReaderInv, Then
<1>2. loc' \in Labels
  BY DEF Labels
<1>3. UNCHANGED <<input, object, reader, startAddress, errors>>
  BY DEF InObject
<1>4. LineInv' /\ PlaceInv'
  BY <1>1, <1>3, LineRests, PlaceRests DEF ReaderInv, input, InMap, InFile, InTables
<1>5. Types'
  BY <1>2, <1>3 DEF ReaderInv, Types, input, reader
<1> QED
  BY <1>1, <1>4, <1>5 DEF ReaderInv

\* The first buffer of section headers.
LEMMA ReaderOfTables ==
  ASSUME ReaderInv, ReadElfHeader
  PROVE  /\ ReaderInv' /\ Phase' = "headers" /\ Phase = "ehdr"
         /\ section' = Table("SHT_SYMTAB")
<1>1. /\ loc = "ehdr" /\ Phase = "ehdr" /\ section' = Table("SHT_SYMTAB")
      /\ loc' = "headers" /\ rd' = rd /\ answer' = answer /\ InObject
  BY DEF ReadElfHeader, Phase
<1>2. \A kind \in Kind :
        Table(kind) \in [kind : Kind, hdr : Header, str : Header, i : Nat]
  BY DEF Table, Header, NoHeader, SectionType
<1> QED
  BY <1>1, <1>2, ReaderGoesOn DEF InTables, Kind

\* A buffer of section headers.
LEMMA ReaderOfHeaders ==
  ASSUME ReaderInv, ReadHeaders
  PROVE  /\ ReaderInv' /\ loc' = "read" /\ Phase' = "gotHeaders" /\ Phase = "headers"
         /\ section.i < F.shnum /\ section' = section
         /\ rd'.want = Min({HeadersInBuf, F.shnum - section.i}) * Entry
         /\ rd'.got + rd'.left =
              IF F.shoff + section.i * Entry <= F.size
              THEN F.size - (F.shoff + section.i * Entry) ELSE 0
<1>1. /\ Phase = "headers" /\ section.i < F.shnum /\ section' = section
      /\ answer' = answer /\ InObject
      /\ ReadFromOffset(F.shoff + section.i * Entry,
                        Min({HeadersInBuf, F.shnum - section.i}) * Entry,
                        "gotHeaders")
  BY DEF ReadHeaders, Phase
<1>2. /\ F.shnum \in Nat /\ section.i \in Nat /\ F.shoff \in Nat
      /\ \A k \in Nat : k * Entry \in Nat
      /\ section \in [kind : Kind, hdr : Header, str : Header, i : Nat]
  BY <1>1, InFileFacts DEF InFile, InTables
<1>3. HeadersInBuf \in Nat
  BY SymbolizeAssumption DEF SymbolizeAssumption
<1> PICK n : n = Min({HeadersInBuf, F.shnum - section.i})
  OBVIOUS
<1>4. n \in Nat
  <2>1. F.shnum - section.i \in Nat
    BY <1>1, <1>2
  <2> QED
    BY <1>3, <2>1, MinOfTwo
<1>5. n * Entry \in Nat /\ F.shoff + section.i * Entry \in Nat
  <2>1. n * Entry \in Nat /\ section.i * Entry \in Nat
    BY <1>2, <1>4
  <2> QED
    BY <1>2, <2>1
<1>6. "gotHeaders" \in Then /\ "gotHeaders" \in InTables /\ "headers" \in InTables
  BY DEF Then, InTables
<1> PICK offset \in Nat : offset = F.shoff + section.i * Entry
  BY <1>5
<1> PICK count \in Nat : count = n * Entry
  BY <1>5
<1>7. ReadFromOffset(offset, count, "gotHeaders")
  BY <1>1
<1>8. /\ ReaderInv' /\ loc' = "read" /\ Phase' = "gotHeaders" /\ rd'.want = count
      /\ rd'.got + rd'.left = IF offset <= F.size THEN F.size - offset ELSE 0
  BY <1>1, <1>2, <1>6, <1>7, ReaderReads
<1> QED
  BY <1>1, <1>8

\* The first section header of the type, or the next buffer of them.
LEMMA ReaderOfHeader ==
  ASSUME ReaderInv, FindHeader,
         NEW n, n = rd.len \div Entry, NEW hits, hits = OfType(section.i, n)
  PROVE  /\ ReaderInv' /\ Phase = "gotHeaders" /\ loc = "gotHeaders"
         /\ rd.len \in Nat /\ n \in Nat /\ rd.len = n * Entry
         /\ \/ /\ hits = {} /\ Phase' = "headers" /\ loc' = "headers"
               /\ section' = [section EXCEPT !.i = section.i + n]
            \/ /\ hits # {} /\ Phase' = "strtab" /\ loc' = "read"
               /\ section' = [section EXCEPT !.hdr = HeaderAt(Min(hits)), !.i = 0]
               /\ Min(hits) \in hits
               /\ rd'.want = Entry
               /\ rd'.got + rd'.left =
                    IF F.shoff + HeaderAt(Min(hits)).link * Entry <= F.size
                    THEN F.size - (F.shoff + HeaderAt(Min(hits)).link * Entry) ELSE 0
<1>1. /\ loc = "gotHeaders" /\ Phase = "gotHeaders" /\ rd.len >= 0
      /\ rd.len % Entry = 0 /\ answer' = answer /\ InObject
  BY DEF FindHeader, Phase
<1>2. /\ F.shoff \in Nat /\ section.i \in Nat
      /\ \A k \in Nat : k * Entry \in Nat
      /\ \A k : HeaderAt(k) \in Header
      /\ section \in [kind : Kind, hdr : Header, str : Header, i : Nat]
      /\ Entry \in Nat /\ Entry > 0
  BY <1>1, InFileFacts DEF InFile, InTables
<1>3. rd.len \in Nat
  BY <1>1 DEF ReaderInv, Types
<1>4. n \in Nat /\ rd.len = n * Entry
  <2> PICK l \in Nat : l = rd.len
    BY <1>3
  <2>1. /\ l \div Entry \in Nat
        /\ l = ((l \div Entry) * Entry) + (l % Entry)
    BY <1>2, Divided
  <2>2. l % Entry = 0 /\ n = l \div Entry
    BY <1>1
  <2>3. n \in Nat /\ n * Entry \in Nat
    BY <1>2, <2>1, <2>2
  <2>4. l = n * Entry + 0
    BY <2>1, <2>2
  <2> QED
    BY <2>3, <2>4
<1>5. hits \subseteq Nat
  BY <1>2, <1>4 DEF OfType
<1>6. CASE hits = {}
  <2>1. /\ section' = [section EXCEPT !.i = section.i + n]
        /\ loc' = "headers" /\ rd' = rd
    BY <1>6 DEF FindHeader
  <2>2. section.i + n \in Nat
    BY <1>2, <1>4
  <2>3. section' \in [kind : Kind, hdr : Header, str : Header, i : Nat]
    BY <1>2, <2>1, <2>2
  <2>4. Phase \in InTables
    BY <1>1 DEF InTables
  <2> QED
    BY <1>1, <1>3, <1>4, <1>6, <2>1, <2>3, <2>4, ReaderGoesOn
<1>7. CASE hits # {}
  <2> PICK h \in Header : h = HeaderAt(Min(hits))
    BY <1>2
  <2>1. /\ section' = [section EXCEPT !.hdr = h, !.i = 0]
        /\ ReadFromOffset(F.shoff + h.link * Entry, Entry, "strtab")
    BY <1>7 DEF FindHeader
  <2>2. section' \in [kind : Kind, hdr : Header, str : Header, i : Nat]
    BY <1>2, <2>1
  <2>3. F.shoff + h.link * Entry \in Nat
    <3>1. h.link \in Nat
      BY DEF Header
    <3>2. h.link * Entry \in Nat
      BY <1>2, <3>1
    <3> QED
      BY <1>2, <3>2
  <2> PICK offset \in Nat : offset = F.shoff + h.link * Entry
    BY <2>3
  <2>4. ReadFromOffset(offset, Entry, "strtab")
    BY <2>1
  <2>5. "strtab" \in Then /\ "strtab" \in InTables /\ Phase \in InTables
    BY <1>1 DEF Then, InTables
  <2>6. /\ ReaderInv' /\ loc' = "read" /\ Phase' = "strtab" /\ rd'.want = Entry
        /\ rd'.got + rd'.left = IF offset <= F.size THEN F.size - offset ELSE 0
    BY <1>1, <1>2, <2>2, <2>4, <2>5, ReaderReads
  <2>7. Min(hits) \in hits
    BY <1>5, <1>7, LeastOf
  <2> QED
    BY <1>1, <1>3, <1>4, <1>7, <2>1, <2>6, <2>7
<1> QED
  BY <1>6, <1>7

\* The header of the strings.
LEMMA ReaderOfStrtab ==
  ASSUME ReaderInv, GotStrtab
  PROVE  /\ ReaderInv' /\ Phase = "strtab" /\ loc = "strtab"
         /\ \/ /\ Exact /\ Phase' = "symbols" /\ loc' = "symbols"
               /\ section' = [section EXCEPT !.str =
                    Pick(F.headers, F.shoff + section.hdr.link * Entry, NoHeader)]
            \/ ~Exact /\ loc' = "return"
<1>1. loc = "strtab" /\ Phase = "strtab" /\ InObject /\ rd' = rd
  BY DEF GotStrtab, Phase
<1>2. /\ section \in [kind : Kind, hdr : Header, str : Header, i : Nat]
      /\ object \in DOMAIN File
  BY <1>1, InFileFacts DEF InFile, InTables
<1>3. CASE Exact
  <2> PICK s : s = Pick(F.headers, F.shoff + section.hdr.link * Entry, NoHeader)
    OBVIOUS
  <2>1. s \in Header
    BY <1>2, FileTypes DEF F
  <2>2. /\ section' = [section EXCEPT !.str = s] /\ loc' = "symbols"
        /\ answer' = answer
    BY <1>3 DEF GotStrtab
  <2>3. section' \in [kind : Kind, hdr : Header, str : Header, i : Nat]
    BY <1>2, <2>1, <2>2
  <2>4. Phase \in InTables
    BY <1>1 DEF InTables
  <2> QED
    BY <1>1, <1>3, <2>2, <2>3, <2>4, ReaderGoesOn
<1>4. CASE ~Exact
  <2>1. loc' = "return" /\ answer' = NotFound /\ section' = section
    BY <1>4 DEF GotStrtab, Fail
  <2> QED
    BY <1>1, <1>2, <1>4, <2>1, ReaderEndsCall DEF NotFound
<1> QED
  BY <1>3, <1>4

\* A buffer of symbols.
LEMMA ReaderOfSymbols ==
  ASSUME ReaderInv, ReadSymbols
  PROVE  /\ ReaderInv' /\ loc' = "read" /\ Phase' = "gotSymbols" /\ Phase = "symbols"
         /\ section.i < section.hdr.n /\ section' = section
         /\ rd'.want = SymbolsInBuf * Entry
         /\ rd'.got + rd'.left =
              IF section.hdr.off + section.i * Entry <= F.size
              THEN F.size - (section.hdr.off + section.i * Entry) ELSE 0
<1>1. /\ Phase = "symbols" /\ section.i < section.hdr.n /\ section' = section
      /\ answer' = answer /\ InObject
      /\ ReadFromOffset(section.hdr.off + section.i * Entry, SymbolsInBuf * Entry,
                        "gotSymbols")
  BY DEF ReadSymbols, Phase
<1>2. /\ section.i \in Nat /\ section.hdr \in Header
      /\ \A k \in Nat : k * Entry \in Nat
      /\ section \in [kind : Kind, hdr : Header, str : Header, i : Nat]
  BY <1>1, InFileFacts DEF InFile, InTables
<1>3. SymbolsInBuf \in Nat
  BY SymbolizeAssumption DEF SymbolizeAssumption
<1>4. SymbolsInBuf * Entry \in Nat /\ section.hdr.off + section.i * Entry \in Nat
  <2>1. SymbolsInBuf * Entry \in Nat /\ section.i * Entry \in Nat
    BY <1>2, <1>3
  <2>2. section.hdr.off \in Nat
    BY <1>2 DEF Header
  <2> QED
    BY <2>1, <2>2
<1>5. "gotSymbols" \in Then /\ "gotSymbols" \in InTables /\ "symbols" \in InTables
  BY DEF Then, InTables
<1> PICK offset \in Nat : offset = section.hdr.off + section.i * Entry
  BY <1>4
<1> PICK count \in Nat : count = SymbolsInBuf * Entry
  BY <1>4
<1>6. ReadFromOffset(offset, count, "gotSymbols")
  BY <1>1
<1>7. /\ ReaderInv' /\ loc' = "read" /\ Phase' = "gotSymbols" /\ rd'.want = count
      /\ rd'.got + rd'.left = IF offset <= F.size THEN F.size - offset ELSE 0
  BY <1>1, <1>2, <1>5, <1>6, ReaderReads
<1> QED
  BY <1>1, <1>7

\* Where the name of the symbol is.
NameAt == section.str.off + F.symbols[SymbolAt(section.i)].name

\* The first symbol that covers the pc, or the next buffer of them.
LEMMA ReaderOfSymbol ==
  ASSUME ReaderInv, FindSymbol,
         NEW n, n = rd.len \div Entry, NEW hits, hits = Matching(section.i, n)
  PROVE  /\ ReaderInv' /\ Phase = "gotSymbols" /\ loc = "gotSymbols"
         /\ rd.len \in Nat /\ n \in Nat /\ rd.len = n * Entry
         /\ \/ /\ hits = {} /\ Phase' = "symbols" /\ loc' = "symbols"
               /\ section' = [section EXCEPT !.i = section.i + n]
            \/ /\ hits # {} /\ Phase' = "name" /\ loc' = "read"
               /\ section' = [section EXCEPT !.i = Min(hits)]
               /\ Min(hits) \in hits /\ \A k \in hits : Min(hits) <= k
               /\ rd'.want = room /\ NameAt' \in Nat
               /\ rd'.got + rd'.left =
                    IF NameAt' <= F.size THEN F.size - NameAt' ELSE 0
<1>1. /\ loc = "gotSymbols" /\ Phase = "gotSymbols" /\ rd.len >= 0
      /\ rd.len % Entry = 0 /\ answer' = answer /\ InObject
  BY DEF FindSymbol, Phase
<1>2. /\ section.i \in Nat /\ object \in DOMAIN File
      /\ section \in [kind : Kind, hdr : Header, str : Header, i : Nat]
      /\ Entry \in Nat /\ Entry > 0
  BY <1>1, InFileFacts DEF InFile, InTables
<1>3. rd.len \in Nat
  BY <1>1 DEF ReaderInv, Types
<1>4. n \in Nat /\ rd.len = n * Entry
  <2> PICK l \in Nat : l = rd.len
    BY <1>3
  <2>1. /\ l \div Entry \in Nat
        /\ l = ((l \div Entry) * Entry) + (l % Entry)
    BY <1>2, Divided
  <2>2. l % Entry = 0 /\ n = l \div Entry
    BY <1>1
  <2>3. n \in Nat /\ n * Entry \in Nat
    BY <1>2, <2>1, <2>2, Multiple
  <2>4. l = n * Entry + 0
    BY <2>1, <2>2
  <2> QED
    BY <2>3, <2>4
<1>5. hits \subseteq Nat
  BY <1>2, <1>4 DEF Matching
<1>6. CASE hits = {}
  <2>1. /\ section' = [section EXCEPT !.i = section.i + n]
        /\ loc' = "symbols" /\ rd' = rd
    BY <1>6 DEF FindSymbol
  <2>2. section.i + n \in Nat
    BY <1>2, <1>4
  <2>3. section' \in [kind : Kind, hdr : Header, str : Header, i : Nat]
    BY <1>2, <2>1, <2>2
  <2>4. Phase \in InTables
    BY <1>1 DEF InTables
  <2> QED
    BY <1>1, <1>3, <1>4, <1>6, <2>1, <2>3, <2>4, ReaderGoesOn
<1>7. CASE hits # {}
  <2>1. Min(hits) \in hits /\ \A k \in hits : Min(hits) <= k
    BY <1>5, <1>7, LeastOf
  <2> PICK least \in Nat : least = Min(hits)
    BY <1>5, <2>1
  <2>2. /\ SymbolAt(least) \in DOMAIN F.symbols
    BY <2>1 DEF Matching
  <2>3. F.symbols[SymbolAt(least)].name \in Nat /\ section.str.off \in Nat
    BY <1>2, <2>2, FileTypes DEF F, Header
  <2> PICK offset \in Nat : offset = section.str.off + F.symbols[SymbolAt(least)].name
    BY <2>3
  <2>4. /\ section' = [section EXCEPT !.i = least]
        /\ ReadFromOffset(offset, room, "name")
    BY <1>7 DEF FindSymbol
  <2>5. section' \in [kind : Kind, hdr : Header, str : Header, i : Nat]
    BY <1>2, <2>4
  <2>6. "name" \in Then /\ "name" \in InTables /\ Phase \in InTables /\ room \in Nat
    BY <1>1 DEF Then, InTables, ReaderInv, Types
  <2>7. /\ ReaderInv' /\ loc' = "read" /\ Phase' = "name" /\ rd'.want = room
        /\ rd'.got + rd'.left = IF offset <= F.size THEN F.size - offset ELSE 0
    BY <1>1, <2>4, <2>5, <2>6, ReaderReads
  <2>8. NameAt' = offset
    <3>1. /\ section'.i = least /\ section'.str = section.str
          /\ section'.hdr = section.hdr
      BY <1>2, <2>4
    <3>2. object' = object
      BY <1>1 DEF InObject
    <3> QED
      BY <3>1, <3>2 DEF NameAt, SymbolAt, F
  <2> QED
    BY <1>1, <1>3, <1>4, <1>7, <2>1, <2>4, <2>7, <2>8
<1> QED
  BY <1>6, <1>7

\* The next table, or no answer.
LEMMA ReaderNextTable ==
  ASSUME ReaderInv, InObject, rd' = rd, NextTable, Phase \in InTables
  PROVE  /\ ReaderInv'
         /\ \/ /\ section.kind = "SHT_SYMTAB" /\ section' = Table("SHT_DYNSYM")
               /\ loc' = "headers" /\ Phase' = "headers"
            \/ /\ section.kind = "SHT_DYNSYM" /\ loc' = "return"
               /\ answer' = NotFound
<1>1. section.kind \in Kind
      /\ section \in [kind : Kind, hdr : Header, str : Header, i : Nat]
  BY DEF ReaderInv, Types
<1>2. CASE section.kind = "SHT_SYMTAB"
  <2>1. /\ section' = Table("SHT_DYNSYM") /\ loc' = "headers" /\ answer' = answer
    BY <1>2 DEF NextTable
  <2>2. section' \in [kind : Kind, hdr : Header, str : Header, i : Nat]
    BY <2>1 DEF Table, Header, NoHeader, SectionType, Kind
  <2> QED
    BY <1>2, <2>1, <2>2, ReaderGoesOn
<1>3. CASE section.kind # "SHT_SYMTAB"
  <2>1. /\ section' = section /\ loc' = "return" /\ answer' = NotFound
    BY <1>3 DEF NextTable, Fail
  <2>2. ReaderInv'
    BY <1>1, <2>1, ReaderEndsCall DEF NotFound
  <2> QED
    BY <1>1, <1>3, <2>1, <2>2 DEF Kind
<1> QED
  BY <1>2, <1>3

\* The end of a table.
LEMMA ReaderTableEnds ==
  ASSUME ReaderInv, TableEnds
  PROVE  /\ ReaderInv' /\ Phase = "symbols" /\ section.i >= section.hdr.n
         /\ \/ /\ section.kind = "SHT_SYMTAB" /\ section' = Table("SHT_DYNSYM")
               /\ loc' = "headers" /\ Phase' = "headers"
            \/ /\ section.kind = "SHT_DYNSYM" /\ loc' = "return"
               /\ answer' = NotFound
<1>1. Phase = "symbols" /\ section.i >= section.hdr.n /\ NextTable
      /\ rd' = rd /\ InObject
  BY DEF TableEnds, Phase
<1> QED
  BY <1>1, ReaderNextTable DEF InTables

\* The name, or none.
LEMMA ReaderOfName ==
  ASSUME ReaderInv, GetName, NEW name, name = Pick(F.names, NameAt, NoText)
  PROVE  /\ ReaderInv' /\ Phase = "name" /\ loc = "name"
         /\ \/ /\ rd.len > name.len /\ loc' = "return"
               /\ answer' = [found |-> TRUE, name |-> name.text,
                             demangled |-> DemangleInplace(name)]
            \/ /\ 0 < rd.len /\ rd.len <= name.len /\ rd.len < room
               /\ loc' = "return"
               /\ answer' = [found |-> TRUE, name |-> Unknown, demangled |-> FALSE]
            \/ /\ rd.len <= name.len
               /\ \/ /\ section.kind = "SHT_SYMTAB" /\ section' = Table("SHT_DYNSYM")
                     /\ loc' = "headers" /\ Phase' = "headers"
                  \/ /\ section.kind = "SHT_DYNSYM" /\ loc' = "return"
                     /\ answer' = NotFound
<1>1. /\ loc = "name" /\ Phase = "name" /\ rd' = rd /\ InObject
  BY DEF GetName, Phase
<1>2. section \in [kind : Kind, hdr : Header, str : Header, i : Nat]
  BY DEF ReaderInv, Types
<1>3. CASE /\ rd.len > name.len
           /\ answer' = [found |-> TRUE, name |-> name.text,
                         demangled |-> DemangleInplace(name)]
           /\ loc' = "return" /\ UNCHANGED section
  <2>1. DemangleInplace(name) \in BOOLEAN
    BY DEF DemangleInplace
  <2>2. answer'.found \in BOOLEAN /\ answer'.demangled \in BOOLEAN
    BY <1>3, <2>1
  <2>3. ReaderInv'
    BY <1>1, <1>2, <1>3, <2>2, ReaderEndsCall
  <2> QED
    BY <1>1, <1>3, <2>3
<1>4. CASE /\ 0 < rd.len /\ rd.len <= name.len /\ rd.len < room
           /\ answer' = [found |-> TRUE, name |-> Unknown, demangled |-> FALSE]
           /\ loc' = "return" /\ UNCHANGED section
  <2>1. ReaderInv'
    BY <1>1, <1>2, <1>4, ReaderEndsCall
  <2> QED
    BY <1>1, <1>4, <2>1
<1>5. CASE rd.len <= name.len /\ NextTable
  BY <1>1, <1>5, ReaderNextTable DEF InTables
<1> QED
  BY <1>3, <1>4, <1>5 DEF GetName, NameAt

\* The ends of a call in an object file.
LEMMA ReaderEnds ==
  ASSUME ReaderInv, NotElf \/ NoSection \/ Ragged
  PROVE  ReaderInv' /\ loc' = (IF Ragged THEN "abort" ELSE "return")
<1>1. section \in [kind : Kind, hdr : Header, str : Header, i : Nat]
      /\ answer.found \in BOOLEAN /\ answer.demangled \in BOOLEAN
  BY DEF ReaderInv, Types
<1>2. CASE NotElf \/ NoSection
  <2>1. /\ loc' = "return" /\ answer' = NotFound /\ section' = section
        /\ rd' = rd /\ InObject
    BY <1>2 DEF NotElf, NoSection, Fail
  <2>2. ~Ragged
    BY <2>1 DEF Ragged
  <2> QED
    BY <1>1, <2>1, <2>2, ReaderEndsCall DEF NotFound
<1>3. CASE Ragged
  <2>1. /\ loc' = "abort" /\ answer' = answer /\ section' = section
        /\ rd' = rd /\ InObject
    BY <1>3 DEF Ragged
  <2> QED
    BY <1>1, <1>3, <2>1, ReaderEndsCall
<1> QED
  BY <1>2, <1>3

\* Every step of a call keeps the invariant.
LEMMA ReaderStep ==
  ASSUME ReaderInv, SymbolizeNext
  PROVE  ReaderInv'
<1>1. CASE ReadSome \/ ReadEnds \/ ReadError
  BY <1>1, ReaderReading
<1>2. CASE OpenMaps
  BY <1>2, ReaderOpens
<1>3. CASE OpenFails \/ ReadLineFails \/ NoObject
  BY <1>3, ReaderGivesUp
<1>4. CASE ReadLine
  BY <1>4, ReaderReadsLine
<1>5. CASE ReadLineRefilled
  BY <1>5, ReaderRefills
<1>6. CASE SkipMap
  BY <1>6, ReaderSkips
<1>7. CASE OpenObject
  BY <1>7, ReaderFinds
<1>8. CASE NotElf \/ NoSection \/ Ragged
  BY <1>8, ReaderEnds
<1>9. CASE FileGetElfType
  BY <1>9, ReaderOfElf
<1>10. CASE ReadElfHeader
  BY <1>10, ReaderOfTables
<1>11. CASE ReadHeaders
  BY <1>11, ReaderOfHeaders
<1>12. CASE FindHeader
  BY <1>12, ReaderOfHeader
<1>13. CASE GotStrtab
  BY <1>13, ReaderOfStrtab
<1>14. CASE ReadSymbols
  BY <1>14, ReaderOfSymbols
<1>15. CASE FindSymbol
  BY <1>15, ReaderOfSymbol
<1>16. CASE TableEnds
  BY <1>16, ReaderTableEnds
<1>17. CASE GetName
  BY <1>17, ReaderOfName
<1> QED
  BY <1>1, <1>2, <1>3, <1>4, <1>5, <1>6, <1>7, <1>8, <1>9, <1>10, <1>11,
     <1>12, <1>13, <1>14, <1>15, <1>16, <1>17 DEF SymbolizeNext

-----------------------------------------------------------------------------
(* The frames.                                                             *)

FrameTypes ==
  /\ at \in {"GetStackTrace", "DumpStackTrace", "DumpPCAndSymbol", "aborted"}
  /\ symbolize_stacktrace \in BOOLEAN
  /\ stack \in Stacks /\ skip_count \in 0..(SkipCount + 1)
  /\ result \in Seq(Nat \ {0})
  /\ \E S : printed \in Seq(S)

\* GetStackTrace has passed so many of the calls, skipped them or not; it is at
\* the frame of the next one, or behind the last.
Passed == SkipCount + 1 - skip_count + Len(result)
FrameInv ==
  /\ Len(result) <= MaxDepth /\ Passed <= Len(stack.calls)
  /\ skip_count > 0 => result = <<>>
  /\ \A k \in 1..Len(result) : result[k] = stack.calls[SkipCount + 1 + k]
  /\ sp \in DOMAIN stack.frame \cup {0}
  /\ IF Passed < Len(stack.calls) THEN sp = stack.pointers[Passed + 1]
     ELSE sp = 0 \/ Words(sp).ret = 0
  /\ at = "GetStackTrace" => printed = <<>>
  /\ at # "GetStackTrace" => ~MoreFrames

\* A stack that may be.
LEMMA StackFacts ==
  ASSUME NEW s \in Stacks
  PROVE  /\ s.calls \in Seq(Nat \ {0}) /\ Len(s.calls) \in Nat /\ Len(s.calls) > 0
         /\ s.top = s.pointers[1]
         /\ \A k \in 1..Len(s.calls) :
              /\ s.pointers[k] \in DOMAIN s.frame \ {0}
              /\ s.frame[s.pointers[k]].ret = s.calls[k]
              /\ s.calls[k] \in Nat \ {0}
              /\ s.pointers[k] \in Nat
              /\ s.frame[s.pointers[k]].next \in Nat
         /\ \A k \in 1..(Len(s.calls) - 1) :
              /\ s.frame[s.pointers[k]].next = s.pointers[k + 1]
              /\ s.pointers[k + 1] % Word = 0 /\ s.pointers[k] < s.pointers[k + 1]
              /\ s.pointers[k + 1] <= s.pointers[k] + MaxFrame
         /\ LET last == s.frame[s.pointers[Len(s.calls)]].next
                pointer == s.pointers[Len(s.calls)] IN
            \/ last <= pointer \/ last > pointer + MaxFrame \/ last % Word # 0
            \/ last \in DOMAIN s.frame /\ s.frame[last].ret = 0
<1>1. Stack(s)
  BY StackAssumption DEF StackAssumption
<1>2. /\ s.calls \in Seq(Nat \ {0}) /\ s.pointers \in Seq(DOMAIN s.frame \ {0})
      /\ Len(s.pointers) = Len(s.calls)
  BY <1>1 DEF Stack
<1>3. \A k \in 1..Len(s.calls) :
        s.pointers[k] \in DOMAIN s.frame \ {0} /\ s.calls[k] \in Nat \ {0}
  BY <1>2, ElementOfSeq
<1>4. Len(s.calls) \in Nat
  BY <1>2, LenProperties
<1>5. \A a \in DOMAIN s.frame : a \in Nat /\ s.frame[a].next \in Nat
  BY <1>1 DEF Stack
<1> QED
  BY <1>1, <1>2, <1>3, <1>4, <1>5 DEF Stack

\* Some return address is on it, and the first frame is the top.
LEMMA StackTop ==
  ASSUME NEW s \in Stacks
  PROVE  /\ s.calls \in Seq(Nat \ {0}) /\ Len(s.calls) \in Nat
         /\ Len(s.calls) > 0 /\ s.top = s.pointers[1]
BY StackFacts

\* What is in the k-th frame.
LEMMA FrameFacts ==
  ASSUME NEW s \in Stacks, NEW k \in 1..Len(s.calls)
  PROVE  /\ s.pointers[k] \in DOMAIN s.frame \ {0} /\ s.pointers[k] \in Nat
         /\ s.frame[s.pointers[k]].ret = s.calls[k]
         /\ s.calls[k] \in Nat \ {0}
         /\ s.frame[s.pointers[k]].next \in Nat
BY StackFacts

\* The frame that follows the k-th, if it is not the last one.
LEMMA NextFacts ==
  ASSUME NEW s \in Stacks, NEW k \in 1..(Len(s.calls) - 1)
  PROVE  /\ s.frame[s.pointers[k]].next = s.pointers[k + 1]
         /\ s.pointers[k + 1] % Word = 0 /\ s.pointers[k] < s.pointers[k + 1]
         /\ s.pointers[k + 1] <= s.pointers[k] + MaxFrame
BY StackFacts

\* The next frame is followed.
LEMMA FrameStep ==
  ASSUME FrameTypes, FrameInv, GetStackTrace
  PROVE  FrameTypes' /\ FrameInv'
<1> PICK n : n = Len(stack.calls)
  OBVIOUS
<1> PICK p : p = Passed
  OBVIOUS
<1>1. /\ at = "GetStackTrace" /\ MoreFrames /\ printed = <<>>
      /\ sp' = NextStackFrame(sp)
      /\ UNCHANGED <<at, symbolize_stacktrace, stack, printed>>
  BY DEF GetStackTrace, FrameInv
<1>2. /\ stack \in Stacks /\ skip_count \in Nat /\ skip_count <= SkipCount + 1
      /\ result \in Seq(Nat \ {0}) /\ Len(result) \in Nat
      /\ SkipCount \in Nat /\ MaxDepth \in Nat /\ MaxFrame \in Nat /\ n \in Nat
      /\ n > 0
  <2>1. /\ stack \in Stacks /\ skip_count \in Nat
        /\ skip_count <= SkipCount + 1 /\ result \in Seq(Nat \ {0})
        /\ SkipCount \in Nat /\ MaxDepth \in Nat /\ MaxFrame \in Nat
    BY StackAssumption DEF FrameTypes, StackAssumption
  <2> QED
    BY <2>1, StackTop, LenProperties
<1>3. /\ p \in Nat /\ p = SkipCount + 1 - skip_count + Len(result)
  BY <1>2 DEF Passed
<1>4. p < n
  <2>1. sp # 0 /\ Words(sp).ret # 0 /\ p <= n
    BY <1>1 DEF MoreFrames, FrameInv
  <2> QED
    BY <1>2, <1>3, <2>1 DEF FrameInv
<1>5. p + 1 \in 1..n /\ sp = stack.pointers[p + 1] /\ (p + 1 < n \/ p + 1 = n)
  <2>1. p \in Nat /\ n \in Nat /\ p < n
    BY <1>2, <1>3, <1>4
  <2>2. sp = stack.pointers[p + 1]
    BY <1>4 DEF FrameInv
  <2>3. p + 1 \in 1..n /\ (p + 1 < n \/ p + 1 = n)
    BY <2>1
  <2> QED
    BY <2>2, <2>3
<1>6. /\ sp \in DOMAIN stack.frame \ {0} /\ sp \in Nat
      /\ Words(sp) = stack.frame[sp]
      /\ Words(sp).ret = stack.calls[p + 1] /\ Words(sp).ret \in Nat \ {0}
      /\ Words(sp).next \in Nat
  <2>1. p + 1 \in 1..Len(stack.calls)
    BY <1>5
  <2> QED
    BY <1>2, <1>5, <2>1, FrameFacts DEF Words, Pick
<1> PICK new \in Nat : new = Words(sp).next
  BY <1>6
<1>7. sp' = IF new <= sp \/ new - sp > MaxFrame \/ new % Word # 0 THEN 0 ELSE new
  BY <1>1 DEF NextStackFrame
<1>8. p + 1 < n => sp' = stack.pointers[p + 2] /\ sp' \in DOMAIN stack.frame
  <2> SUFFICES ASSUME p + 1 < n
               PROVE  sp' = stack.pointers[p + 2] /\ sp' \in DOMAIN stack.frame
    OBVIOUS
  <2>1. p + 1 \in 1..(n - 1) /\ (p + 1) + 1 = p + 2 /\ p + 2 \in 1..n
    BY <1>2, <1>3
  <2>2. /\ stack.frame[stack.pointers[p + 1]].next = stack.pointers[p + 2]
        /\ stack.pointers[p + 2] % Word = 0
        /\ stack.pointers[p + 1] < stack.pointers[p + 2]
        /\ stack.pointers[p + 2] <= stack.pointers[p + 1] + MaxFrame
        /\ stack.pointers[p + 2] \in DOMAIN stack.frame
    <3> PICK q \in Nat : q = p + 1
      BY <1>3
    <3>1. /\ q \in 1..(Len(stack.calls) - 1) /\ q + 1 = p + 2
          /\ q + 1 \in 1..Len(stack.calls)
      BY <2>1
    <3> QED
      BY <1>2, <3>1, FrameFacts, NextFacts
  <2>4. new = stack.pointers[p + 2] /\ new % Word = 0 /\ sp < new
        /\ new <= sp + MaxFrame /\ new \in DOMAIN stack.frame
    BY <1>5, <1>6, <2>2
  <2>3. ~(new <= sp \/ new - sp > MaxFrame \/ new % Word # 0)
    BY <1>2, <1>6, <2>4
  <2> QED
    BY <1>7, <2>3, <2>4
<1>9. p + 1 = n => sp' = 0 \/ (sp' \in DOMAIN stack.frame /\ stack.frame[sp'].ret = 0)
  <2> SUFFICES ASSUME p + 1 = n, sp' # 0
               PROVE  sp' \in DOMAIN stack.frame /\ stack.frame[sp'].ret = 0
    OBVIOUS
  <2>1. ~(new <= sp \/ new - sp > MaxFrame \/ new % Word # 0) /\ sp' = new
    BY <1>7
  <2>2. ~(new <= sp \/ new > sp + MaxFrame \/ new % Word # 0)
    BY <1>2, <1>6, <2>1
  <2>3. sp = stack.pointers[n] /\ new = stack.frame[stack.pointers[n]].next
    BY <1>5, <1>6
  <2> QED
    BY <1>2, <2>1, <2>2, <2>3, StackFacts
<1>10. \/ /\ skip_count > 0 /\ skip_count' = skip_count - 1 /\ result' = result
       \/ /\ skip_count = 0 /\ skip_count' = 0
          /\ result' = Append(result, Words(sp).ret)
  BY <1>2 DEF GetStackTrace
<1>11. /\ result' \in Seq(Nat \ {0}) /\ Len(result') \in Nat
       /\ skip_count' \in 0..(SkipCount + 1)
       /\ Passed' = p + 1 /\ Len(result') <= MaxDepth
       /\ skip_count' > 0 => result' = <<>>
       /\ \A k \in 1..Len(result') : result'[k] = stack.calls[SkipCount + 1 + k]
  <2>1. Len(result) < MaxDepth
    BY <1>1 DEF MoreFrames
  <2>2. CASE skip_count > 0
    <3>1. skip_count' = skip_count - 1 /\ result' = result /\ result = <<>>
      BY <1>2, <1>10, <2>2 DEF FrameInv
    <3>2. skip_count' \in 0..(SkipCount + 1) /\ Passed' = p + 1
      BY <1>2, <1>3, <2>2, <3>1 DEF Passed
    <3> QED
      BY <1>2, <2>1, <3>1, <3>2 DEF FrameInv
  <2>3. CASE skip_count = 0
    <3> PICK ret \in Nat \ {0} : ret = Words(sp).ret
      BY <1>6
    <3>1. /\ result' \in Seq(Nat \ {0}) /\ Len(result') = Len(result) + 1
          /\ result'[Len(result) + 1] = ret
          /\ \A k \in 1..Len(result) : result'[k] = result[k]
      <4>1. result' = Append(result, ret)
        BY <1>10, <2>3
      <4> QED
        BY <1>2, <4>1, AppendProperties
    <3>2. p + 1 = SkipCount + 1 + (Len(result) + 1) /\ Passed' = p + 1
      BY <1>2, <1>3, <1>10, <2>3, <3>1 DEF Passed
    <3>3. ASSUME NEW k \in 1..Len(result')
          PROVE  result'[k] = stack.calls[SkipCount + 1 + k]
      <4>1. CASE k = Len(result) + 1
        <5>1. SkipCount + 1 + k = p + 1
          BY <3>2, <4>1
        <5> QED
          BY <1>6, <3>1, <4>1, <5>1
      <4>2. CASE k # Len(result) + 1
        <5>1. k \in 1..Len(result)
          BY <1>2, <3>1, <4>2
        <5> QED
          BY <3>1, <5>1 DEF FrameInv
      <4> QED
        BY <4>1, <4>2
    <3>4. Len(result') \in Nat /\ Len(result') <= MaxDepth
      BY <1>2, <2>1, <3>1
    <3>5. skip_count' = 0 /\ skip_count' \in 0..(SkipCount + 1)
      BY <1>2, <1>10, <2>3
    <3> QED
      BY <3>1, <3>2, <3>3, <3>4, <3>5
  <2> QED
    BY <1>2, <2>2, <2>3
<1>12. FrameTypes'
  BY <1>1, <1>11 DEF FrameTypes
<1>13. Passed' <= Len(stack'.calls) /\ Len(stack'.calls) = n
  BY SMTT(60), <1>1, <1>2, <1>3, <1>4, <1>11
<1>14. sp' \in DOMAIN stack'.frame \cup {0}
  BY <1>1, <1>5, <1>8, <1>9
<1>15. IF Passed' < n THEN sp' = stack'.pointers[Passed' + 1]
       ELSE sp' = 0 \/ Words(sp)'.ret = 0
  <2>1. CASE p + 1 < n
    <3>1. Passed' + 1 = p + 2
      BY <1>3, <1>11
    <3> QED
      BY <1>1, <1>8, <1>11, <2>1, <3>1
  <2>2. CASE p + 1 = n
    <3>1. ~(Passed' < n)
      BY <1>2, <1>3, <1>11, <2>2
    <3> QED
      BY <1>1, <1>9, <2>2, <3>1 DEF Words, Pick
  <2> QED
    BY <1>5, <2>1, <2>2
<1>16. FrameInv'
  BY <1>1, <1>11, <1>13, <1>14, <1>15 DEF FrameInv
<1> QED
  BY <1>12, <1>16

-----------------------------------------------------------------------------
(* The trace.                                                              *)

\* A line is printed, after a call of Symbolize or without one.
CallInv ==
  /\ Len(printed) <= Len(result)
  /\ at # "DumpPCAndSymbol" => loc = "idle"
  /\ at = "DumpPCAndSymbol" =>
       /\ loc # "idle" /\ symbolize_stacktrace
       /\ Len(printed) < Len(result) /\ pc = NextPC - 1
TraceInv == ReaderInv /\ FrameTypes /\ FrameInv /\ CallInv

\* A run begins in TraceInv.
LEMMA TraceStarts ==
  ASSUME Init
  PROVE  TraceInv
<1>1. /\ loc = "idle" /\ pc = 0 /\ room = 0 /\ maps \in Maps /\ object = NoFile
      /\ rd = NoRead /\ bol = 0 /\ eol = 0 /\ eod = 0 /\ lines = <<>>
      /\ startAddress = 0 /\ section = Table("SHT_SYMTAB")
      /\ answer = NotFound /\ errors = 0
  BY DEF Init, SymbolizeInit
<1>2. /\ MaxErrors \in Nat /\ LineBuf \in Nat /\ SkipCount \in Nat /\ MaxDepth \in Nat
  BY SymbolizeAssumption, StackAssumption
  DEF SymbolizeAssumption, StackAssumption
<1>3. Phase = "idle"
  BY <1>1 DEF Phase
<1>4. Types
  <2>1. Table("SHT_SYMTAB") \in [kind : Kind, hdr : Header, str : Header, i : Nat]
    BY DEF Table, Header, NoHeader, SectionType, Kind
  <2>2. <<>> \in Seq(Nat \X Nat) /\ errors \in 0..MaxErrors
    BY <1>1, <1>2, EmptySeq
  <2> QED
    BY <1>1, <2>1, <2>2 DEF Types, Labels, NoRead, NotFound
<1>5. ReadInv
  BY <1>1 DEF ReadInv, NoRead, Then
<1>6. PlaceInv
  BY <1>3 DEF PlaceInv, InMap, InTables, InFile
<1>7. LineInv
  <2>1. Len(lines) = 0 /\ DOMAIN lines = {}
    BY <1>1
  <2>2. Len(maps) \in Nat /\ Total \in Nat /\ Behind \in Nat /\ Behind = 0
    <3>1. Len(maps) \in Nat /\ Len(maps) \in 0..Len(maps)
      BY <1>1, EndsIncrease
    <3> QED
      BY <1>1, <2>1, <3>1, EndsIncrease DEF Total, Behind, EndOf
  <2> QED
    BY <1>1, <1>2, <1>3, <2>1, <2>2 DEF LineInv, LinesInOrder
<1>8. /\ stack \in Stacks /\ sp = stack.top /\ skip_count = SkipCount + 1
      /\ result = <<>> /\ printed = <<>> /\ at = "GetStackTrace"
      /\ symbolize_stacktrace \in BOOLEAN
  BY DEF Init
<1>9. FrameTypes
  BY <1>2, <1>8, EmptySeq DEF FrameTypes
<1>10. FrameInv
  <2>1. Len(result) = 0 /\ Passed = 0
    BY <1>2, <1>8 DEF Passed
  <2>2. /\ Len(stack.calls) \in Nat /\ Len(stack.calls) > 0 /\ sp = stack.pointers[1]
        /\ sp \in DOMAIN stack.frame
    <3>1. Len(stack.calls) \in Nat /\ Len(stack.calls) > 0 /\ sp = stack.pointers[1]
      BY <1>8, StackTop
    <3>2. 1 \in 1..Len(stack.calls)
      BY <3>1
    <3> QED
      BY <1>8, <3>1, <3>2, FrameFacts
  <2> QED
    BY <1>2, <1>8, <2>1, <2>2 DEF FrameInv
<1>11. CallInv
  BY <1>1, <1>8 DEF CallInv
<1> QED
  BY <1>4, <1>5, <1>6, <1>7, <1>9, <1>10, <1>11 DEF TraceInv, ReaderInv

\* A step of a call ends it or goes on with it.
LEMMA NotIdle ==
  ASSUME ReaderInv, SymbolizeNext
  PROVE  loc # "idle" /\ loc' # "idle"
<1>1. "idle" \notin Then
  BY DEF Then
<1>2. CASE ReadSome \/ ReadEnds \/ ReadError
  <2>1. loc = "read" /\ loc' \in {"read"} \cup Then
    BY <1>2, TypesReading
  <2> QED
    BY <1>1, <2>1
<1>3. CASE OpenMaps \/ OpenFails \/ ReadLine \/ ReadLineFails \/ ReadLineRefilled
           \/ SkipMap \/ NoObject \/ OpenObject \/ NotElf
  BY <1>3 DEF OpenMaps, OpenFails, ReadLine, ReadLineFails, ReadLineRefilled,
              SkipMap, NoObject, OpenObject, NotElf, Fail, Returns, Read
<1>4. CASE FileGetElfType \/ ReadElfHeader \/ ReadHeaders \/ NoSection
           \/ Ragged \/ FindHeader \/ GotStrtab
  BY <1>4 DEF FileGetElfType, ReadElfHeader, ReadHeaders, NoSection,
              Ragged, FindHeader, GotStrtab, Fail, Read, ReadFromOffset
<1>5. CASE ReadSymbols \/ FindSymbol \/ TableEnds \/ GetName
  BY <1>5 DEF ReadSymbols, FindSymbol, TableEnds, GetName, NextTable, Fail, Read,
              ReadFromOffset
<1> QED
  BY <1>2, <1>3, <1>4, <1>5 DEF SymbolizeNext

\* No step of a call changes its argument or the maps.
LEMMA InputStays ==
  ASSUME ReaderInv, SymbolizeNext
  PROVE  pc' = pc /\ maps' = maps
<1>1. CASE ReadSome \/ ReadEnds \/ ReadError
  BY <1>1, TypesReading DEF input
<1>2. CASE OpenMaps \/ OpenFails \/ ReadLine \/ ReadLineFails \/ ReadLineRefilled
           \/ SkipMap \/ NoObject \/ OpenObject
  BY <1>2 DEF OpenMaps, OpenFails, ReadLine, ReadLineFails, ReadLineRefilled,
              SkipMap, NoObject, OpenObject, InMaps, input
<1>3. CASE NotElf \/ FileGetElfType \/ ReadElfHeader \/ ReadHeaders \/ NoSection
           \/ Ragged \/ FindHeader \/ GotStrtab
  BY <1>3 DEF NotElf, FileGetElfType, ReadElfHeader, ReadHeaders, NoSection,
              Ragged, FindHeader, GotStrtab, InObject, input
<1>4. CASE ReadSymbols \/ FindSymbol \/ TableEnds \/ GetName
  BY <1>4 DEF ReadSymbols, FindSymbol, TableEnds, GetName, InObject, input
<1> QED
  BY <1>1, <1>2, <1>3, <1>4 DEF SymbolizeNext

\* What is called leaves the frames alone.
LEMMA FramesRest ==
  ASSUME FrameTypes, FrameInv, UNCHANGED frames,
         at' \in {"DumpStackTrace", "DumpPCAndSymbol", "aborted"},
         at # "GetStackTrace" \/ ~MoreFrames,
         \E S : printed' \in Seq(S)
  PROVE  FrameTypes' /\ FrameInv'
<1>1. UNCHANGED <<symbolize_stacktrace, stack, sp, skip_count, result>>
  BY DEF frames
<1>2. FrameTypes'
  BY <1>1 DEF FrameTypes
<1>3. ~MoreFrames'
  BY <1>1 DEF FrameInv, MoreFrames, Words
<1>4. FrameInv'
  BY <1>1, <1>3 DEF FrameInv, Passed, Words
<1> QED
  BY <1>2, <1>4

\* A line is added to the trace.
LEMMA PrintedMore ==
  ASSUME FrameTypes, NEW line, printed' = Append(printed, line)
  PROVE  /\ \E S : printed' \in Seq(S)
         /\ Len(printed) \in Nat /\ Len(printed') = Len(printed) + 1
         /\ DOMAIN printed = 1..Len(printed) /\ DOMAIN printed' = 1..Len(printed')
         /\ printed'[Len(printed) + 1] = line
         /\ \A k \in 1..Len(printed) : printed'[k] = printed[k]
<1>1. PICK S : printed \in Seq(S)
  BY DEF FrameTypes
<1>2. PICK T : T = S \cup {line}
  OBVIOUS
<1>3. printed \in Seq(T) /\ line \in T
  BY <1>1, <1>2, SeqMonotonic
<1> QED
  BY <1>3, AppendProperties, LenProperties

\* Nothing of a call is disturbed outside of it.
LEMMA ReaderIdle ==
  ASSUME ReaderInv, UNCHANGED vars
  PROVE  ReaderInv'
BY DEF ReaderInv, Types, ReadInv, PlaceInv, LineInv, LinesInOrder, Total, Behind,
       Phase, vars, reader, input, Asked

\* A call begins.
LEMMA ReaderCalled ==
  ASSUME ReaderInv, loc = "idle", loc' = "open", pc' \in Nat, room' = Room,
         bol' = 0, eol' = 0, eod' = 0, lines' = <<>>,
         UNCHANGED <<maps, object, rd, startAddress, section, answer, errors>>
  PROVE  ReaderInv'
<1>1. Room \in Nat /\ LineBuf \in Nat
  BY SymbolizeAssumption, StackAssumption DEF SymbolizeAssumption, StackAssumption
<1>2. ReadInv' /\ Phase' = "open"
  BY ReadRests DEF ReaderInv, Then
<1>3. PlaceInv'
  BY <1>2 DEF PlaceInv, InMap, InTables, InFile
<1>4. Types'
  BY <1>1, EmptySeq DEF ReaderInv, Types, Labels
<1>5. LineInv'
  <2>1. Len(lines') = 0 /\ DOMAIN lines' = {}
    OBVIOUS
  <2>2. Len(maps') \in Nat /\ Total' \in Nat /\ Behind' = 0
    <3>1. Len(maps') \in Nat /\ Len(maps') \in 0..Len(maps')
      BY <1>4, EndsIncrease DEF Types
    <3> QED
      BY <1>4, <2>1, <3>1, EndsIncrease DEF Types, Total, Behind, EndOf
  <2> QED
    BY <1>1, <1>2, <2>1, <2>2 DEF LineInv, LinesInOrder
<1> QED
  BY <1>2, <1>3, <1>4, <1>5 DEF ReaderInv

\* A call is over.
LEMMA ReaderDone ==
  ASSUME ReaderInv, loc' = "idle", object' = NoFile, rd' = NoRead,
         answer' = NotFound, startAddress' = 0, section' = Table("SHT_SYMTAB"),
         UNCHANGED <<input, reader, errors>>
  PROVE  ReaderInv'
<1>1. Phase' = "idle"
  BY DEF Phase
<1>2. ReadInv'
  BY DEF ReadInv, NoRead, Then
<1>3. PlaceInv'
  BY <1>1 DEF PlaceInv, InMap, InTables, InFile
<1>4. LineInv'
  BY <1>1, LineRests DEF ReaderInv, input
<1>5. Types'
  <2>1. Table("SHT_SYMTAB") \in [kind : Kind, hdr : Header, str : Header, i : Nat]
    BY DEF Table, Header, NoHeader, SectionType, Kind
  <2> QED
    BY <2>1 DEF ReaderInv, Types, input, reader, Labels, NoRead, NotFound
<1> QED
  BY <1>2, <1>3, <1>4, <1>5 DEF ReaderInv

\* Every step of a run keeps TraceInv.
LEMMA TraceStep ==
  ASSUME TraceInv, [Next]_allVars
  PROVE  TraceInv'
<1>1. ReaderInv /\ FrameTypes /\ FrameInv /\ CallInv
  BY DEF TraceInv
<1>2. CASE GetStackTrace
  <2>1. FrameTypes' /\ FrameInv'
    BY <1>1, <1>2, FrameStep
  <2>2. ReaderInv'
    BY <1>1, <1>2, ReaderIdle DEF GetStackTrace
  <2>3. at = "GetStackTrace" /\ at' = at /\ loc' = loc /\ printed' = printed
    BY <1>2 DEF GetStackTrace, vars
  <2>4. Len(printed') <= Len(result')
    <3>1. printed' = <<>> /\ result' \in Seq(Nat \ {0})
      BY <1>1, <2>1, <2>3 DEF FrameInv, FrameTypes
    <3> QED
      BY <3>1, LenProperties
  <2> QED
    BY <1>1, <2>1, <2>2, <2>3, <2>4 DEF CallInv, TraceInv
<1>3. CASE GetStackTraceEnds \/ DumpStackTraceEnds
  <2>1. /\ at' \in {"DumpStackTrace", "aborted"} /\ at # "DumpPCAndSymbol"
        /\ at # "GetStackTrace" \/ ~MoreFrames
        /\ UNCHANGED <<vars, frames, printed>>
    BY <1>3 DEF GetStackTraceEnds, DumpStackTraceEnds
  <2>2. FrameTypes' /\ FrameInv'
    BY <1>1, <2>1, FramesRest DEF FrameTypes
  <2>3. ReaderInv'
    BY <1>1, <2>1, ReaderIdle
  <2>4. CallInv'
    BY <1>1, <2>1 DEF CallInv, vars, frames
  <2> QED
    BY <2>2, <2>3, <2>4 DEF TraceInv
<1>4. CASE DumpPC
  <2>1. /\ at = "DumpStackTrace" /\ Len(printed) < Len(result)
        /\ printed' = Append(printed, [pc |-> NextPC, answer |-> NotFound])
        /\ UNCHANGED <<vars, at, frames>>
    BY <1>4 DEF DumpPC
  <2>2. /\ \E S : printed' \in Seq(S)
        /\ Len(printed) \in Nat /\ Len(printed') = Len(printed) + 1
    BY <1>1, <2>1, PrintedMore
  <2>3. FrameTypes' /\ FrameInv'
    BY <1>1, <2>1, <2>2, FramesRest
  <2>4. ReaderInv'
    BY <1>1, <2>1, ReaderIdle
  <2>5. Len(printed') <= Len(result')
    <3>1. Len(result) \in Nat /\ result' = result
      BY <1>1, <2>1, LenProperties DEF FrameTypes, frames
    <3> QED
      BY <2>1, <2>2, <3>1
  <2>6. CallInv'
    BY <1>1, <2>1, <2>5 DEF CallInv, vars
  <2> QED
    BY <2>3, <2>4, <2>6 DEF TraceInv
<1>5. CASE CallSymbolize
  <2>1. /\ at = "DumpStackTrace" /\ Len(printed) < Len(result)
        /\ symbolize_stacktrace /\ at' = "DumpPCAndSymbol"
        /\ loc' = "open" /\ pc' = NextPC - 1 /\ room' = Room
        /\ bol' = 0 /\ eol' = 0 /\ eod' = 0 /\ lines' = <<>>
        /\ UNCHANGED <<maps, object, rd, startAddress, section, answer, errors,
                       frames, printed>>
    BY <1>5 DEF CallSymbolize
  <2>2. FrameTypes' /\ FrameInv'
    BY <1>1, <2>1, FramesRest DEF FrameTypes
  <2>3. NextPC \in Nat \ {0}
    <3>1. result \in Seq(Nat \ {0}) /\ Len(result) \in Nat /\ Len(printed) \in Nat
      BY <1>1, LenProperties DEF FrameTypes
    <3>2. Len(printed) + 1 \in 1..Len(result)
      BY <2>1, <3>1
    <3> QED
      BY <3>1, <3>2, ElementOfSeq DEF NextPC
  <2>4. pc' \in Nat
    BY <2>1, <2>3
  <2>5. ReaderInv'
    BY <1>1, <2>1, <2>4, ReaderCalled DEF CallInv
  <2>6. CallInv'
    <3>1. NextPC' = NextPC
      BY <2>1 DEF NextPC, frames
    <3> QED
      BY <1>1, <2>1, <3>1 DEF CallInv, frames
  <2> QED
    BY <2>2, <2>5, <2>6 DEF TraceInv
<1>6. CASE Symbolizing
  <2>1. /\ at = "DumpPCAndSymbol" /\ SymbolizeNext
        /\ UNCHANGED <<at, frames, printed>>
    BY <1>6 DEF Symbolizing
  <2>2. FrameTypes' /\ FrameInv'
    BY <1>1, <2>1, FramesRest DEF FrameTypes
  <2>3. ReaderInv' /\ loc' # "idle"
    BY <1>1, <2>1, ReaderStep, NotIdle
  <2>4. pc' = pc
    BY <1>1, <2>1, InputStays
  <2>5. CallInv'
    <3>1. NextPC' = NextPC
      BY <2>1 DEF NextPC, frames
    <3> QED
      BY <1>1, <2>1, <2>3, <2>4, <3>1 DEF CallInv, frames
  <2> QED
    BY <2>2, <2>3, <2>5 DEF TraceInv
<1>7. CASE DumpPCAndSymbol
  <2>1. /\ at = "DumpPCAndSymbol" /\ at' = "DumpStackTrace" /\ loc' = "idle"
        /\ printed' = Append(printed, [pc |-> NextPC, answer |-> answer])
        /\ object' = NoFile /\ rd' = NoRead /\ answer' = NotFound
        /\ startAddress' = 0 /\ section' = Table("SHT_SYMTAB")
        /\ UNCHANGED <<input, reader, errors, frames>>
    BY <1>7 DEF DumpPCAndSymbol
  <2>2. /\ \E S : printed' \in Seq(S)
        /\ Len(printed) \in Nat /\ Len(printed') = Len(printed) + 1
    BY <1>1, <2>1, PrintedMore
  <2>3. FrameTypes' /\ FrameInv'
    BY <1>1, <2>1, <2>2, FramesRest
  <2>4. ReaderInv'
    BY <1>1, <2>1, ReaderDone
  <2>5. Len(printed') <= Len(result')
    <3>1. Len(result) \in Nat /\ result' = result /\ Len(printed) < Len(result)
      BY <1>1, <2>1, LenProperties DEF FrameTypes, frames, CallInv
    <3> QED
      BY <2>2, <3>1
  <2>6. CallInv'
    BY <2>1, <2>5 DEF CallInv
  <2> QED
    BY <2>3, <2>4, <2>6 DEF TraceInv
<1>8. CASE UNCHANGED allVars
  <2>1. UNCHANGED <<vars, at, frames, printed>>
    BY <1>8 DEF allVars
  <2>2. ReaderInv'
    BY <1>1, <2>1, ReaderIdle
  <2>3. FrameTypes' /\ FrameInv'
    BY <1>1, <2>1 DEF FrameTypes, FrameInv, Passed, Words, MoreFrames, frames
  <2>4. CallInv'
    BY <1>1, <2>1 DEF CallInv, NextPC, frames, vars, input
  <2> QED
    BY <2>2, <2>3, <2>4 DEF TraceInv
<1> QED
  BY <1>2, <1>3, <1>4, <1>5, <1>6, <1>7, <1>8 DEF Next, Step, Stop

\* The steps of a run: what the following theorems rest on.
LEMMA TraceAlways == Spec => []TraceInv
<1>1. TraceInv /\ [Next]_allVars => TraceInv'
  BY TraceStep
<1>2. Init => TraceInv
  BY TraceStarts
<1> QED
  BY <1>1, <1>2, PTL DEF Spec

\* In every state the reader's pointers keep their order, within the buffer,
\* no read gives more than it was asked for, and a trace has at most MaxDepth
\* entries and no more lines than entries.
THEOREM TraceTypeOK == Spec => []TypeOK
<1>1. TraceInv => TypeOK
  <2> SUFFICES ASSUME TraceInv
               PROVE  TypeOK
    OBVIOUS
  <2>1. ReaderInv /\ FrameTypes /\ FrameInv /\ CallInv
    BY DEF TraceInv
  <2>2. Types /\ LineInv /\ ReadInv
    BY <2>1 DEF ReaderInv
  <2>3. /\ bol \in Nat /\ eol \in Nat /\ eod \in Nat
    BY <2>2 DEF Types
  <2>4. bol <= eol + 1 /\ eol <= eod
    <3>1. /\ Behind = IF eod = 0 THEN 0 ELSE eol + 1
          /\ bol <= Behind /\ Behind <= eod /\ Behind \in Nat
      BY <2>2, LineFacts
    <3>2. CASE Len(lines) = 0
      BY <2>2, <3>2 DEF LineInv
    <3>3. CASE Len(lines) # 0
      <4>1. eol + 1 = Behind
        BY <2>2, <3>3 DEF LineInv
      <4> QED
        BY <2>3, <3>1, <4>1
    <3> QED
      BY <3>2, <3>3
  <2>5. SymbolizeTypeOK
    BY <2>2, <2>4 DEF SymbolizeTypeOK, Types, ReadInv, LineInv
  <2> QED
    BY <2>1, <2>5 DEF TypeOK, FrameTypes, FrameInv, CallInv
<1> QED
  BY <1>1, TraceAlways, PTL

\* However the buffer and the reads cut them, ReadLine returns the lines of
\* /proc/self/maps, each one whole, in their order and none twice.
THEOREM LinesAreWhole == Spec => []LinesInOrder
<1>1. TraceInv => LinesInOrder
  BY DEF TraceInv, ReaderInv, LineInv
<1> QED
  BY <1>1, TraceAlways, PTL

\* What is found of the calls when p of them are passed, all but left of those
\* that are skipped among them.
Finds(calls, found, skip, depth, left, p) ==
  /\ calls \in Seq(Nat \ {0}) /\ found \in Seq(Nat \ {0})
  /\ skip \in Nat /\ depth \in Nat /\ left \in 0..(skip + 1) /\ p \in Nat
  /\ p = skip + 1 - left + Len(found) /\ p <= Len(calls)
  /\ Len(found) <= depth /\ (left > 0 => found = <<>>)
  /\ p < Len(calls) => Len(found) = depth
  /\ \A i \in 1..Len(found) : found[i] = calls[skip + 1 + i]

\* That is a part of them.
LEMMA PartOf ==
  ASSUME NEW calls, NEW found, NEW skip, NEW depth, NEW left, NEW p,
         Finds(calls, found, skip, depth, left, p)
  PROVE  found = SubSeq(calls, skip + 2, Min({Len(calls), skip + 1 + depth}))
<1> DEFINE S == Nat \ {0}
<1>0. /\ calls \in Seq(S) /\ found \in Seq(S)
      /\ skip \in Nat /\ depth \in Nat /\ left \in 0..(skip + 1) /\ p \in Nat
      /\ p = skip + 1 - left + Len(found) /\ p <= Len(calls)
      /\ Len(found) <= depth /\ (left > 0 => found = <<>>)
      /\ p < Len(calls) => Len(found) = depth
      /\ \A i \in 1..Len(found) : found[i] = calls[skip + 1 + i]
  BY DEF Finds
<1> HIDE DEF S
<1> PICK n \in Nat : n = Len(calls)
  BY <1>0, LenProperties
<1> PICK len \in Nat : len = Len(found)
  BY <1>0, LenProperties
<1> USE <1>0
<1> PICK to : to = IF n <= skip + 1 + depth THEN n ELSE skip + 1 + depth
  OBVIOUS
<1>7. to \in Int
  OBVIOUS
<1>1. Min({Len(calls), skip + 1 + depth}) = to
  <2>1. n \in Int /\ skip + 1 + depth \in Int
    OBVIOUS
  <2> QED
    BY <2>1, MinOfTwo
<1>2. left > 0 => len = 0
  OBVIOUS
<1>3. to <= n /\ len = IF skip + 2 <= to THEN to - (skip + 2) + 1 ELSE 0
  <2>1. /\ p = skip + 1 - left + len /\ p <= n /\ len <= depth
        /\ p < n => len = depth
    OBVIOUS
  <2>2. to <= n
    OBVIOUS
  <2>3. CASE left > 0
    BY <1>2, <1>7, <2>1, <2>3
  <2>4. CASE left = 0
    BY <1>7, <2>1, <2>4
  <2> QED
    BY <2>2, <2>3, <2>4
<1>4. \A i \in (skip + 2)..to : calls[i] \in S
  <2>1. \A i \in (skip + 2)..to : i \in 1..n
    BY <1>3, <1>7
  <2> QED
    BY <2>1, ElementOfSeq
<1> PICK s : s = SubSeq(calls, skip + 2, to)
  OBVIOUS
<1>5. /\ s \in Seq(S) /\ Len(s) = len
      /\ \A i \in 1..len : s[i] = calls[skip + 1 + i]
  <2>1. skip + 2 \in Int
    OBVIOUS
  <2>2. /\ s \in Seq(S)
        /\ Len(s) = IF skip + 2 <= to THEN to - (skip + 2) + 1 ELSE 0
        /\ \A i \in 1..(to - (skip + 2) + 1) : s[i] = calls[(skip + 2) + i - 1]
    <3> PICK from \in Int : from = skip + 2
      BY <2>1
    <3>1. \A i \in from..to : calls[i] \in S
      BY <1>4
    <3>2. /\ s \in Seq(S) /\ Len(s) = IF from <= to THEN to - from + 1 ELSE 0
          /\ \A i \in 1..(to - from + 1) : s[i] = calls[from + i - 1]
      BY <1>7, <3>1, SubSeqProperties
    <3> QED
      BY <3>2
  <2>3. ASSUME NEW i \in 1..len PROVE s[i] = calls[skip + 1 + i]
    <3>1. i \in 1..(to - (skip + 2) + 1) /\ (skip + 2) + i - 1 = skip + 1 + i
      BY <1>3, <1>7
    <3> QED
      BY <2>2, <3>1
  <2> QED
    BY <1>3, <2>2, <2>3
<1>6. found = s
  <2>1. Len(found) = Len(s) /\ \A i \in 1..Len(found) : found[i] = s[i]
    BY <1>5
  <2> QED
    BY <1>5, <2>1, SeqEqual
<1> QED
  BY <1>1, <1>6

\* A trace has the return addresses of the calls in progress, from the first
\* one that is not to be skipped and innermost first, up to MaxDepth of them.
THEOREM CallersAreFound == Spec => []CallersInOrder
<1>1. ASSUME TraceInv, at # "GetStackTrace"
      PROVE  result = SubSeq(stack.calls, SkipCount + 2,
                             Min({Len(stack.calls), SkipCount + 1 + MaxDepth}))
  <2>1. FrameTypes /\ FrameInv /\ ~MoreFrames
    BY <1>1 DEF TraceInv, FrameInv
  <2>2. /\ stack \in Stacks /\ skip_count \in Nat /\ skip_count <= SkipCount + 1
        /\ result \in Seq(Nat \ {0})
        /\ SkipCount \in Nat /\ MaxDepth \in Nat
        /\ stack.calls \in Seq(Nat \ {0})
    <3>1. /\ stack \in Stacks /\ skip_count \in Nat
          /\ skip_count <= SkipCount + 1 /\ result \in Seq(Nat \ {0})
          /\ SkipCount \in Nat /\ MaxDepth \in Nat
      BY <2>1, StackAssumption DEF FrameTypes, StackAssumption
    <3> QED
      BY <3>1, StackTop
  <2> PICK p : p = Passed
    OBVIOUS
  <2>5. p \in Nat
    <3>1. Len(result) \in Nat
      BY <2>2, LenProperties
    <3> QED
      BY <2>2, <3>1 DEF Passed
  <2>3. p < Len(stack.calls) => Len(result) = MaxDepth
    <3> SUFFICES ASSUME p < Len(stack.calls)
                 PROVE  Len(result) = MaxDepth
      OBVIOUS
    <3>1. p + 1 \in 1..Len(stack.calls)
      BY <2>2, <2>5, LenProperties
    <3>2. sp = stack.pointers[p + 1]
      BY <2>1 DEF FrameInv
    <3>3. /\ sp # 0 /\ sp \in DOMAIN stack.frame
          /\ stack.frame[sp].ret = stack.calls[p + 1] /\ stack.calls[p + 1] # 0
      BY <2>2, <3>1, <3>2, StackFacts
    <3>4. ~(Len(result) < MaxDepth)
      BY <2>1, <3>3 DEF MoreFrames, Words, Pick
    <3>5. Len(result) \in Nat /\ Len(result) <= MaxDepth
      BY <2>1, <2>2, LenProperties DEF FrameInv
    <3> QED
      BY <2>2, <3>4, <3>5
  <2>4. /\ p = SkipCount + 1 - skip_count + Len(result) /\ p <= Len(stack.calls)
        /\ Len(result) <= MaxDepth /\ (skip_count > 0 => result = <<>>)
        /\ \A i \in 1..Len(result) : result[i] = stack.calls[SkipCount + 1 + i]
        /\ skip_count \in 0..(SkipCount + 1)
    BY <2>1, <2>2 DEF Passed, FrameInv
  <2>6. Finds(stack.calls, result, SkipCount, MaxDepth, skip_count, p)
    BY <2>2, <2>3, <2>4, <2>5 DEF Finds
  <2> QED
    BY <2>6, PartOf
<1>2. TraceInv => CallersInOrder
  BY <1>1 DEF CallersInOrder
<1> QED
  BY <1>2, TraceAlways, PTL

-----------------------------------------------------------------------------
(* The map that holds the pc.                                              *)

Fits(m, k) == EndOf(m, k) - EndOf(m, k - 1) <= LineBuf
HoldsIn(m, k, p) == m[k].start <= p /\ p < m[k].end /\ m[k].rx

\* All the lines that were read fit the buffer, and those before the last one
\* do not hold the pc; the open file is that of the first that does.
MapInv ==
  /\ Phase \in InMap => \A k \in 1..Len(lines) : Fits(maps, k)
  /\ Phase \in {"open", "ReadLine", "refilled"} =>
       \A k \in 1..Len(lines) : ~HoldsIn(maps, k, pc)
  /\ Phase = "line" => \A k \in 1..(Len(lines) - 1) : ~HoldsIn(maps, k, pc)
  /\ Phase \in InFile =>
       /\ MapsOf(maps, pc) # {}
       /\ \A k \in 1..Min(MapsOf(maps, pc)) : Fits(maps, k)
       /\ object = MapOf(maps, pc).path /\ object # NoFile
       /\ startAddress = MapOf(maps, pc).start

\* The first of the maps that hold p.
LEMMA FirstMap ==
  ASSUME NEW m \in Maps, NEW p
  PROVE  /\ MapsOf(m, p) = {k \in 1..Len(m) : HoldsIn(m, k, p)}
         /\ MapsOf(m, p) # {} =>
              /\ Min(MapsOf(m, p)) \in 1..Len(m)
              /\ HoldsIn(m, Min(MapsOf(m, p)), p)
         /\ \A n \in 1..Len(m) :
              HoldsIn(m, n, p) /\ (\A k \in 1..(n - 1) : ~HoldsIn(m, k, p)) =>
                MapsOf(m, p) # {} /\ Min(MapsOf(m, p)) = n
<1>1. DOMAIN m = 1..Len(m) /\ Len(m) \in Nat
  BY SymbolizeAssumption, LenProperties DEF SymbolizeAssumption
<1>2. MapsOf(m, p) = {k \in 1..Len(m) : HoldsIn(m, k, p)}
  BY <1>1 DEF MapsOf, HoldsIn
<1>3. MapsOf(m, p) \subseteq Nat
  BY <1>1, <1>2
<1>4. ASSUME MapsOf(m, p) # {}
      PROVE  Min(MapsOf(m, p)) \in 1..Len(m) /\ HoldsIn(m, Min(MapsOf(m, p)), p)
  <2>1. Min(MapsOf(m, p)) \in MapsOf(m, p)
    BY <1>3, <1>4, LeastOf
  <2> QED
    BY <1>2, <2>1
<1>5. ASSUME NEW n \in 1..Len(m), HoldsIn(m, n, p),
             \A k \in 1..(n - 1) : ~HoldsIn(m, k, p)
      PROVE  MapsOf(m, p) # {} /\ Min(MapsOf(m, p)) = n
  <2>1. n \in MapsOf(m, p)
    BY <1>2, <1>5
  <2>2. ASSUME NEW k \in MapsOf(m, p) PROVE n <= k
    <3>1. k \in 1..Len(m) /\ HoldsIn(m, k, p)
      BY <1>2
    <3>2. k \notin 1..(n - 1)
      BY <1>5, <3>1
    <3> QED
      BY <1>1, <3>1, <3>2
  <2> QED
    BY <1>3, <2>1, <2>2, LeastIs
<1> QED
  BY <1>2, <1>4, <1>5

\* A line that was read fits the buffer.
LEMMA LineFits ==
  ASSUME Types, LineInv, loc = "line"
  PROVE  Fits(maps, Len(lines)) /\ Len(lines) \in Nat /\ Len(lines) > 0
<1>1. /\ Len(lines) > 0 /\ bol = EndOf(maps, Len(lines) - 1)
      /\ Behind <= eod /\ eod - bol <= LineBuf
  BY DEF LineInv, Phase
<1>2. Behind \in Nat /\ bol \in Nat /\ eod \in Nat /\ LineBuf \in Nat /\ Len(lines) \in Nat
  BY LineFacts, SymbolizeAssumption DEF Types, SymbolizeAssumption
<1>3. Behind - bol <= LineBuf
  BY <1>1, <1>2
<1> QED
  BY <1>1, <1>2, <1>3 DEF Fits, Behind

\* A step that stays where it is, or leaves the maps and the file.
LEMMA MapRests ==
  ASSUME MapInv, UNCHANGED <<pc, maps, object, startAddress, lines>>,
         \/ Phase' = Phase
         \/ Phase' \in InFile /\ Phase \in InFile
         \/ Phase' \notin InMap \cup InFile
         \/ Phase = "open" /\ Phase' = "ReadLine"
         \/ Phase = "ReadLine" /\ Phase' = "refilled"
  PROVE  MapInv'
BY DEF MapInv, InMap, InFile, InTables

\* A line is returned.
LEMMA MapReturned ==
  ASSUME ReaderInv, ReaderInv', MapInv, loc' = "line", Phase \in {"ReadLine", "refilled"},
         Len(lines') = Len(lines) + 1, UNCHANGED <<pc, maps>>
  PROVE  MapInv'
<1> PICK n : n = Len(lines)
  OBVIOUS
<1>1. Fits(maps', Len(lines')) /\ Phase' = "line"
  <2>1. Types' /\ LineInv' /\ Phase' = "line"
    BY DEF ReaderInv, Phase
  <2>2. /\ bol' = EndOf(maps, Len(lines') - 1) /\ eod' - bol' <= LineBuf
        /\ Behind' = EndOf(maps, Len(lines')) /\ Behind' <= eod'
    <3>1. Len(lines') # 0
      BY <2>1 DEF LineInv
    <3> QED
      BY <2>1, <3>1 DEF LineInv, Behind
  <2>3. Behind' \in Nat /\ bol' \in Nat /\ eod' \in Nat /\ LineBuf \in Nat
    <3>1. Len(lines') \in 0..Len(maps)
      BY <2>1 DEF LineInv
    <3> QED
      BY <2>1, <2>2, <3>1, EndsIncrease, SymbolizeAssumption
      DEF Types, ReaderInv, SymbolizeAssumption
  <2>4. Behind' - bol' <= LineBuf
    BY <2>2, <2>3
  <2> QED
    BY <2>1, <2>2, <2>4 DEF Fits
<1>2. n \in Nat /\ Len(lines') = n + 1 /\ Len(lines') - 1 = n
  BY LineFacts DEF ReaderInv
<1>3. \A k \in 1..n : Fits(maps, k) /\ ~HoldsIn(maps, k, pc)
  BY DEF MapInv, InMap
<1>4. \A k \in 1..Len(lines') : Fits(maps, k)
  <2> SUFFICES ASSUME NEW k \in 1..(n + 1)
               PROVE  Fits(maps, k)
    BY <1>2
  <2>1. k \in 1..n \/ k = n + 1
    BY <1>2
  <2> QED
    BY <1>1, <1>2, <1>3, <2>1
<1>5. \A k \in 1..(Len(lines') - 1) : ~HoldsIn(maps, k, pc)
  BY <1>2, <1>3
<1> QED
  BY <1>1, <1>4, <1>5 DEF MapInv, InMap, InFile, InTables

\* Every step of a call keeps what is known of the maps.
LEMMA MapStep ==
  ASSUME ReaderInv, MapInv, SymbolizeNext
  PROVE  MapInv'
<1>1. ReaderInv' /\ pc' = pc /\ maps' = maps
  BY ReaderStep, InputStays
<1>2. CASE ReadSome \/ ReadEnds \/ ReadError
  <2>1. Phase' = Phase /\ UNCHANGED <<input, object, reader, startAddress>>
    BY <1>2, TypesReading
  <2> QED
    BY <1>1, <2>1, MapRests DEF reader
<1>3. CASE OpenMaps
  <2>1. /\ loc = "open" /\ loc' = "ReadLine"
        /\ UNCHANGED <<object, startAddress, lines>>
    BY <1>3 DEF OpenMaps, InMaps, reader
  <2> QED
    BY <1>1, <2>1, MapRests DEF Phase
<1>4. CASE ReadLine
  <2>1. /\ loc = "ReadLine" /\ UNCHANGED <<object, startAddress>>
        /\ \/ Phase' = "refilled" /\ UNCHANGED lines
           \/ loc' = "line" /\ Len(lines') = Len(lines) + 1
    BY <1>4, ReaderReadsLine DEF ReadLine, InMaps
  <2> QED
    BY <1>1, <2>1, MapRests, MapReturned DEF Phase
<1>5. CASE ReadLineRefilled
  <2>1. loc = "refilled" /\ loc' = "line" /\ Len(lines') = Len(lines) + 1
    BY <1>5, ReaderRefills
  <2> QED
    BY <1>1, <2>1, MapReturned DEF Phase
<1>6. CASE SkipMap
  <2> PICK n : n = Len(lines)
    OBVIOUS
  <2>1. /\ loc = "line" /\ loc' = "ReadLine" /\ ~Holds(maps[n]) /\ lines' = lines
    BY <1>6, ReaderSkips DEF SkipMap, reader
  <2>2. /\ \A k \in 1..n : Fits(maps, k)
        /\ \A k \in 1..(n - 1) : ~HoldsIn(maps, k, pc)
        /\ n \in Nat /\ n > 0
    BY <2>1, LineFits DEF MapInv, InMap, Phase, ReaderInv
  <2>3. ~HoldsIn(maps, n, pc)
    BY <2>1 DEF Holds, HoldsIn
  <2>4. \A k \in 1..n : ~HoldsIn(maps, k, pc)
    <3> SUFFICES ASSUME NEW k \in 1..n
                 PROVE  ~HoldsIn(maps, k, pc)
      OBVIOUS
    <3>1. k \in 1..(n - 1) \/ k = n
      BY <2>2
    <3> QED
      BY <2>2, <2>3, <3>1
  <2>5. Phase' = "ReadLine"
    BY <2>1 DEF Phase
  <2> QED
    BY <1>1, <2>1, <2>2, <2>4, <2>5 DEF MapInv, InMap, InFile, InTables
<1>7. CASE OpenObject
  <2> PICK n : n = Len(lines)
    OBVIOUS
  <2>1. /\ Phase' = "FileGetElfType" /\ loc = "line"
        /\ Holds(maps[n]) /\ object' = maps[n].path
        /\ startAddress' = maps[n].start /\ object' # NoFile
    BY <1>7, ReaderFinds
  <2>2. /\ \A k \in 1..n : Fits(maps, k)
        /\ \A k \in 1..(n - 1) : ~HoldsIn(maps, k, pc)
    BY <2>1 DEF MapInv, InMap, Phase
  <2>3. HoldsIn(maps, n, pc) /\ n \in 1..Len(maps)
    BY <2>1, IsParsed DEF Holds, HoldsIn
  <2>4. MapsOf(maps, pc) # {} /\ Min(MapsOf(maps, pc)) = n
    BY <2>2, <2>3, FirstMap DEF ReaderInv, Types
  <2> QED
    BY <1>1, <2>1, <2>2, <2>4 DEF MapInv, MapOf, InMap, InFile, InTables
<1>8. CASE OpenFails \/ ReadLineFails \/ NoObject
  <2>1. loc' = "return" /\ UNCHANGED <<object, startAddress, lines>>
    BY <1>8, ReaderGivesUp
    DEF OpenFails, ReadLineFails, NoObject, InMaps, reader
  <2> QED
    BY <1>1, <2>1, MapRests DEF Phase, InMap, InFile, InTables
<1>9. CASE NotElf \/ NoSection \/ Ragged
  <2>1. loc' \in {"return", "abort"} /\ InObject
    BY <1>9, ReaderEnds DEF NotElf, NoSection, Ragged
  <2> QED
    BY <1>1, <2>1, MapRests DEF Phase, InMap, InFile, InTables, InObject, reader
<1>10. CASE FileGetElfType
  <2>1. /\ Phase = "FileGetElfType" /\ Phase' = "ehdr"
        /\ UNCHANGED <<object, startAddress, lines>>
    BY <1>10, ReaderOfElf DEF FileGetElfType, reader
  <2> QED
    BY <1>1, <2>1, MapRests DEF InFile, InTables
<1>11. CASE \/ ReadElfHeader \/ ReadHeaders \/ FindHeader \/ GotStrtab
            \/ ReadSymbols \/ FindSymbol \/ TableEnds \/ GetName
  <2>1. InObject
    BY <1>11 DEF ReadElfHeader, ReadHeaders, FindHeader, GotStrtab, ReadSymbols,
                 FindSymbol, TableEnds, GetName
  <2>2. Phase \in InTables
    BY <1>11 DEF ReadElfHeader, ReadHeaders, FindHeader, GotStrtab, ReadSymbols,
                 FindSymbol, TableEnds, GetName, Phase, InTables
  <2>3. Phase' \in InTables \/ loc' = "return"
    <3>1. CASE ReadElfHeader
      BY <3>1, ReaderOfTables DEF InTables
    <3>2. CASE ReadHeaders
      BY <3>2, ReaderOfHeaders DEF InTables
    <3>3. CASE FindHeader
      BY <3>3, ReaderOfHeader DEF InTables
    <3>4. CASE GotStrtab
      BY <3>4, ReaderOfStrtab DEF InTables
    <3>5. CASE ReadSymbols
      BY <3>5, ReaderOfSymbols DEF InTables
    <3>6. CASE FindSymbol
      BY <3>6, ReaderOfSymbol DEF InTables
    <3>7. CASE TableEnds
      BY <3>7, ReaderTableEnds DEF InTables
    <3>8. CASE GetName
      BY <3>8, ReaderOfName DEF InTables
    <3> QED
      BY <1>11, <3>1, <3>2, <3>3, <3>4, <3>5, <3>6, <3>7, <3>8
  <2>4. Phase' \in InFile \/ Phase' \notin InMap \cup InFile
    BY <2>3 DEF Phase, InMap, InFile, InTables
  <2> QED
    BY <1>1, <2>1, <2>2, <2>4, MapRests DEF InObject, reader, InFile
<1> QED
  BY <1>2, <1>3, <1>4, <1>5, <1>6, <1>7, <1>8, <1>9, <1>10, <1>11
  DEF SymbolizeNext

-----------------------------------------------------------------------------
(* The tables of a file that was not cut short.                            *)

\* The k-th symbol of a table is the one that is looked for.
Matches(f, h, p, start, k) ==
  /\ h.off + k * Entry \in DOMAIN f.symbols
  /\ Covers(f, f.symbols[h.off + k * Entry], p, start)
NoneBefore(f, h, p, start, i) == \A k \in 0..(i - 1) : ~Matches(f, h, p, start, k)

\* No section header before the i-th is of the kind.
HeaderOfFile(f, k) == Pick(f.headers, f.shoff + k * Entry, NoHeader)
Scanned(f, kind, i) == \A k \in 0..(i - 1) : HeaderOfFile(f, k).type # kind

\* Any answer will do; the first table does not have the symbol.
Anything(f, p, start) == \A a : Names(f, p, start, a)
Missed(f, p, start) ==
  /\ HeadersOf(f, "SHT_SYMTAB") # {}
  /\ Anything(f, p, start) \/ Hits(f, "SHT_SYMTAB", p, start) = {}

\* The offsets of the entries of a table increase.
LEMMA EntryFacts ==
  /\ Entry \in Nat /\ Entry > 0
  /\ \A k \in Nat : k * Entry \in Nat
  /\ \A j, k \in Nat : j < k => j * Entry < k * Entry
<1>1. Entry \in Nat /\ Entry > 0
  BY SymbolizeAssumption DEF SymbolizeAssumption
<1>2. \A k \in Nat : k * Entry \in Nat
  BY <1>1, Multiple
<1>3. ASSUME NEW j \in Nat, NEW k \in Nat, j < k
      PROVE  j * Entry < k * Entry
  <2>1. j + 1 \in Nat /\ j + 1 <= k
    BY <1>3
  <2>2. (j + 1) * Entry <= k * Entry
    BY <1>1, <2>1, Product
  <2>3. (j + 1) * Entry = j * Entry + Entry
    BY <1>1, SMTT(30)
  <2> PICK x \in Nat : x = j * Entry
    BY <1>2
  <2> PICK y \in Nat : y = k * Entry
    BY <1>2
  <2>4. x + Entry <= y
    BY <2>2, <2>3
  <2>5. x < y
    BY <1>1, <2>4
  <2> QED
    BY <2>5
<1> QED
  BY <1>1, <1>2, <1>3

\* The first header of a kind, when those before it have been looked at.
LEMMA FirstHeader ==
  ASSUME NEW f, f.shnum \in Nat, NEW kind
  PROVE  /\ HeadersOf(f, kind) = {k \in 0..(f.shnum - 1) : HeaderOfFile(f, k).type = kind}
         /\ \A i \in Nat : i >= f.shnum /\ Scanned(f, kind, i) => HeadersOf(f, kind) = {}
         /\ \A k \in Nat :
              k < f.shnum /\ Scanned(f, kind, k) /\ HeaderOfFile(f, k).type = kind =>
                HeadersOf(f, kind) # {} /\ Min(HeadersOf(f, kind)) = k
<1>1. HeadersOf(f, kind) = {k \in 0..(f.shnum - 1) : HeaderOfFile(f, k).type = kind}
  BY DEF HeadersOf, HeaderOfFile
<1>2. ASSUME NEW i \in Nat, i >= f.shnum, Scanned(f, kind, i)
      PROVE  HeadersOf(f, kind) = {}
  <2>1. \A k \in 0..(f.shnum - 1) : k \in 0..(i - 1)
    BY <1>2
  <2> QED
    BY <1>1, <1>2, <2>1 DEF Scanned
<1>3. ASSUME NEW k \in Nat, k < f.shnum, Scanned(f, kind, k),
             HeaderOfFile(f, k).type = kind
      PROVE  HeadersOf(f, kind) # {} /\ Min(HeadersOf(f, kind)) = k
  <2>1. k \in HeadersOf(f, kind)
    BY <1>1, <1>3
  <2>2. \A j \in HeadersOf(f, kind) : j \in Nat /\ k <= j
    <3> SUFFICES ASSUME NEW j \in HeadersOf(f, kind)
                 PROVE  j \in Nat /\ k <= j
      OBVIOUS
    <3>1. j \in 0..(f.shnum - 1) /\ HeaderOfFile(f, j).type = kind
      BY <1>1
    <3>2. j \notin 0..(k - 1)
      BY <1>3, <3>1 DEF Scanned
    <3> QED
      BY <3>1, <3>2
  <2> QED
    BY <2>1, <2>2, LeastIs
<1> QED
  BY <1>1, <1>2, <1>3

\* The buffers that are read of a table do not meet the end of the file within
\* an entry; and where the buffers begin.
Even(f, h) ==
  \/ (f.size - h.off) % Entry = 0
  \/ \A j \in 0..(h.n - 1) : j * SymbolsInBuf < h.n =>
       h.off + (j + 1) * SymbolsInBuf * Entry <= f.size
Buffered(i, n) == i >= n \/ \E j \in Nat : i = j * SymbolsInBuf

\* A table that is there.
LEMMA WholeTable ==
  ASSUME NEW f, ObjectFile(f), Whole(f), NEW kind \in Kind, HeadersOf(f, kind) # {},
         NEW h, h = TableOf(f, kind)
  PROVE  /\ h \in Header /\ h.type = kind
         /\ h = HeaderOfFile(f, Min(HeadersOf(f, kind)))
         /\ h.off + h.n * Entry <= f.size /\ (EvenEnd(f) => Even(f, h))
         /\ h.link < f.shnum /\ f.shoff + h.link * Entry \in DOMAIN f.headers
         /\ \A s \in DOMAIN f.symbols \cap Offsets(h) :
              HeaderOf(f, h.link).off + f.symbols[s].name \in DOMAIN f.names
<1> PICK k : k = Min(HeadersOf(f, kind))
  OBVIOUS
<1>1. /\ k \in 0..(f.shnum - 1) /\ HeaderOfFile(f, k).type = kind
  <2>1. f.shnum \in Nat
    BY DEF ObjectFile
  <2>2. HeadersOf(f, kind) \subseteq Nat
    BY <2>1 DEF HeadersOf
  <2> QED
    BY <2>1, <2>2, LeastOf, FirstHeader
<1>2. f.shoff + k * Entry \in DOMAIN f.headers
  BY <1>1 DEF HeaderOfFile, Pick, NoHeader, Kind
<1>3. h = f.headers[f.shoff + k * Entry]
  BY DEF TableOf, HeaderOf
<1>4. HeaderOfFile(f, k) = h /\ h \in Header /\ h.type = kind
  BY <1>1, <1>2, <1>3 DEF HeaderOfFile, Pick, ObjectFile, Header
<1> QED
  BY <1>2, <1>3, <1>4 DEF Whole, EvenEnd, Even

\* The symbols of a table that cover p.
LEMMA TableHits ==
  ASSUME NEW f, ObjectFile(f), NEW kind, NEW h, h = TableOf(f, kind),
         h \in Header, NEW p, NEW start, NEW i \in Nat, NoneBefore(f, h, p, start, i)
  PROVE  /\ i >= h.n => Hits(f, kind, p, start) = {}
         /\ i < h.n /\ Matches(f, h, p, start, i) =>
              /\ Hits(f, kind, p, start) # {}
              /\ Min(Hits(f, kind, p, start)) = h.off + i * Entry
              /\ h.off + i * Entry \in DOMAIN f.symbols \cap Offsets(h)
<1>1. h.n \in Nat /\ h.off \in Nat
  BY DEF Header
<1>2. Hits(f, kind, p, start) =
        {o \in DOMAIN f.symbols \cap Offsets(h) : Covers(f, f.symbols[o], p, start)}
  BY DEF Hits
<1>3. ASSUME NEW o \in Hits(f, kind, p, start)
      PROVE  \E k \in 0..(h.n - 1) : o = h.off + k * Entry /\ Matches(f, h, p, start, k)
                                     /\ k >= i /\ k \in Nat
  <2>1. PICK k \in 0..(h.n - 1) : o = h.off + k * Entry
    BY <1>2 DEF Offsets
  <2>2. Matches(f, h, p, start, k)
    BY <1>2, <2>1 DEF Matches
  <2>3. k \notin 0..(i - 1) /\ k \in Nat
    BY <1>1, <2>1, <2>2 DEF NoneBefore
  <2>4. k >= i
    BY <2>3
  <2> QED
    BY <2>1, <2>2, <2>3, <2>4
<1>4. ASSUME i >= h.n
      PROVE  Hits(f, kind, p, start) = {}
  <2>1. \A k \in 0..(h.n - 1) : ~(k >= i)
    BY <1>1, <1>4
  <2> QED
    BY <1>3, <2>1
<1>5. ASSUME i < h.n, Matches(f, h, p, start, i)
      PROVE  /\ Hits(f, kind, p, start) # {}
             /\ Min(Hits(f, kind, p, start)) = h.off + i * Entry
             /\ h.off + i * Entry \in DOMAIN f.symbols \cap Offsets(h)
  <2> PICK o : o = h.off + i * Entry
    OBVIOUS
  <2>1. i \in 0..(h.n - 1)
    BY <1>1, <1>5
  <2>2. o \in DOMAIN f.symbols \cap Offsets(h) /\ o \in Hits(f, kind, p, start)
    BY <1>2, <1>5, <2>1 DEF Matches, Offsets
  <2>3. Hits(f, kind, p, start) \subseteq Nat
    BY <1>2 DEF ObjectFile
  <2>4. \A q \in Hits(f, kind, p, start) : o <= q
    <3> SUFFICES ASSUME NEW q \in Hits(f, kind, p, start)
                 PROVE  o <= q
      OBVIOUS
    <3>1. PICK k \in 0..(h.n - 1) : q = h.off + k * Entry /\ k >= i /\ k \in Nat
      BY <1>3
    <3> PICK x \in Nat : x = i * Entry
      BY EntryFacts
    <3> PICK y \in Nat : y = k * Entry
      BY <3>1, EntryFacts
    <3>2. x <= y
      <4>1. CASE k = i
        BY <4>1
      <4>2. CASE k > i
        BY <3>1, <4>2, EntryFacts
      <4> QED
        BY <3>1, <4>1, <4>2
    <3> QED
      BY <1>1, <3>1, <3>2
  <2> QED
    BY <2>2, <2>3, <2>4, LeastIs
<1> QED
  BY <1>4, <1>5

\* A symbol that matches behind the table is not the table's.
LEMMA BehindTable ==
  ASSUME NEW f, ObjectFile(f), NEW h \in Header, NEW p, NEW start, NEW i \in Nat,
         i >= h.n, Matches(f, h, p, start, i)
  PROVE  /\ h.off + i * Entry \notin Offsets(h)
         /\ h.off + i * Entry \in
              {o \in DOMAIN f.symbols : o >= h.off /\ (o - h.off) % Entry = 0}
<1> PICK x \in Nat : x = i * Entry
  BY EntryFacts
<1>1. h.off \in Nat /\ h.n \in Nat
  BY DEF Header
<1>2. ASSUME h.off + i * Entry \in Offsets(h)
      PROVE  FALSE
  <2>1. PICK k \in 0..(h.n - 1) : h.off + i * Entry = h.off + k * Entry
    BY <1>2 DEF Offsets
  <2>2. k \in Nat /\ k < i
    BY <1>1, <2>1
  <2> PICK y \in Nat : y = k * Entry
    BY <2>2, EntryFacts
  <2>3. y < x
    BY <2>2, EntryFacts
  <2>4. h.off + x = h.off + y
    BY <2>1
  <2> QED
    BY <1>1, <2>3, <2>4
<1>3. h.off + x >= h.off /\ (h.off + x) - h.off = x
  BY <1>1
<1>4. x % Entry = 0
  BY EntryFacts, Multiple
<1> QED
  BY <1>2, <1>3, <1>4 DEF Matches

-----------------------------------------------------------------------------
(* What a call looks for.                                                  *)

\* No call failed, and no file was cut short.
Clean == errors = 0 /\ AllWhole

\* Where a call in an object file is: how much its read was asked for and how
\* much there is; which headers and symbols have been looked at; that the table
\* is the file's; and that the first one did not have the symbol.
TableInv ==
  /\ Phase \in InTables => F.elf
  /\ Phase \in {"FileGetElfType", "ehdr"} => Asked(Entry, F.size)
  /\ Phase \in {"headers", "gotHeaders"} => Scanned(F, section.kind, section.i)
  /\ Phase = "gotHeaders" =>
       /\ section.i < F.shnum
       /\ Asked(Min({HeadersInBuf, F.shnum - section.i}) * Entry,
                F.size - (F.shoff + section.i * Entry))
  /\ Phase \in {"strtab", "symbols", "gotSymbols", "name"} =>
       /\ HeadersOf(F, section.kind) # {}
       /\ section.hdr = TableOf(F, section.kind)
  /\ Phase = "strtab" =>
       /\ section.i = 0
       /\ Asked(Entry, F.size - (F.shoff + section.hdr.link * Entry))
  /\ Phase \in {"symbols", "gotSymbols", "name"} =>
       /\ section.str = HeaderOf(F, section.hdr.link)
       /\ NoneBefore(F, section.hdr, pc, startAddress, section.i)
  /\ Phase \in {"symbols", "gotSymbols"} => Buffered(section.i, section.hdr.n)
  /\ Phase = "gotSymbols" =>
       /\ section.i < section.hdr.n
       /\ Asked(SymbolsInBuf * Entry, F.size - (section.hdr.off + section.i * Entry))
  /\ Phase = "name" =>
       /\ Matches(F, section.hdr, pc, startAddress, section.i)
       /\ Asked(room, IF NameAt <= F.size THEN F.size - NameAt ELSE 0)
  /\ Phase \in InTables \ {"ehdr"} /\ section.kind = "SHT_DYNSYM" =>
       Missed(F, pc, startAddress)
Answers ==
  /\ TableInv
  /\ loc = "return" => Expected(maps, pc, answer)
  /\ loc = "abort" => ~AllEven
SearchInv == Clean => Answers

\* The file that is open, and what is expected of an answer.
LEMMA FileIs ==
  ASSUME ReaderInv, MapInv, AllWhole, Phase \in InFile
  PROVE  /\ ObjectFile(F) /\ Whole(F) /\ (AllEven => EvenEnd(F))
         /\ F.elf => \A a : Expected(maps, pc, a) <=> Names(F, pc, startAddress, a)
         /\ ~F.elf => \A a : Expected(maps, pc, a) <=> ~a.found
<1>1. object \in DOMAIN File
  BY InFileFacts
<1>2. /\ MapsOf(maps, pc) # {} /\ \A k \in 1..Min(MapsOf(maps, pc)) : Fits(maps, k)
      /\ object = MapOf(maps, pc).path /\ object # NoFile
      /\ startAddress = MapOf(maps, pc).start
  BY DEF MapInv
<1>3. Min(MapsOf(maps, pc)) \in DOMAIN maps
  <2>1. maps \in Maps
    BY DEF ReaderInv, Types
  <2>2. DOMAIN maps = 1..Len(maps)
    BY <2>1, SymbolizeAssumption, LenProperties DEF SymbolizeAssumption
  <2> QED
    BY <1>2, <2>1, <2>2, FirstMap
<1>4. Whole(F) /\ (AllEven => EvenEnd(F))
  BY <1>2, <1>3 DEF AllWhole, AllEven, F, MapOf
<1>5. ObjectFile(F)
  BY <1>1, SymbolizeAssumption DEF SymbolizeAssumption, F
<1>6. HasObject(maps, pc) <=> F.elf
  BY <1>2 DEF HasObject, Fits, F
<1> QED
  BY <1>2, <1>4, <1>5, <1>6 DEF Expected, F

\* No answer where there is no object file.
LEMMA NoAnswer ==
  ASSUME NEW m, NEW p, ~HasObject(m, p)
  PROVE  Expected(m, p, NotFound)
BY DEF Expected, NotFound

\* What a read that ends gives, unless it failed.
LEMMA ReadEnded ==
  ASSUME ReaderInv, errors = 0, loc \in Then, NEW count, NEW left, Asked(count, left)
  PROVE  /\ count \in Nat /\ left \in Nat /\ rd.len \in Nat
         /\ rd.len = IF count <= left THEN count ELSE left
<1>1. /\ rd.len = rd.got /\ (rd.got = rd.want \/ rd.left = 0)
      /\ rd.got \in Nat /\ rd.left \in Nat /\ rd.want \in Nat /\ rd.got <= rd.want
  BY DEF ReaderInv, ReadInv, Types
<1>2. rd.want = count /\ left = rd.got + rd.left
  BY DEF Asked
<1>3. left \in Nat /\ count \in Nat
  BY <1>1, <1>2
<1>4. CASE rd.got = rd.want
  BY <1>1, <1>2, <1>4
<1>5. CASE rd.left = 0
  BY <1>1, <1>2, <1>5
<1> QED
  BY <1>1, <1>3, <1>4, <1>5

\* Nothing of a file is kept when it is closed.
LEMMA TableOutside ==
  ASSUME Phase \notin InFile
  PROVE  TableInv
BY DEF TableInv, InFile, InTables

\* A call did not fail if none has failed behind it.
LEMMA CleanBefore ==
  ASSUME ReaderInv, SymbolizeNext, Clean'
  PROVE  Clean /\ errors' = errors /\ UNCHANGED <<pc, maps>>
<1>1. pc' = pc /\ maps' = maps /\ errors \in Nat
  BY InputStays, SymbolizeAssumption DEF ReaderInv, Types, SymbolizeAssumption
<1>2. AllWhole
  BY <1>1 DEF Clean, AllWhole
<1>3. errors' = errors \/ errors' = errors + 1
  <2>1. CASE ReadSome \/ ReadEnds \/ ReadError \/ OpenFails \/ OpenMaps \/ ReadLine
             \/ ReadLineFails \/ ReadLineRefilled \/ SkipMap \/ NoObject \/ OpenObject
    BY <2>1 DEF ReadSome, ReadEnds, ReadError, OpenFails, OpenMaps, ReadLine,
                ReadLineFails, ReadLineRefilled, SkipMap, NoObject, OpenObject, InMaps
  <2>2. CASE NotElf \/ FileGetElfType \/ ReadElfHeader \/ ReadHeaders \/ NoSection
             \/ Ragged \/ FindHeader \/ GotStrtab
    BY <2>2 DEF NotElf, FileGetElfType, ReadElfHeader, ReadHeaders, NoSection,
                Ragged, FindHeader, GotStrtab, InObject
  <2>3. CASE ReadSymbols \/ FindSymbol \/ TableEnds \/ GetName
    BY <2>3 DEF ReadSymbols, FindSymbol, TableEnds, GetName, InObject
  <2> QED
    BY <2>1, <2>2, <2>3 DEF SymbolizeNext
<1>4. errors = 0 /\ errors' = 0
  BY <1>1, <1>3 DEF Clean
<1> QED
  BY <1>1, <1>2, <1>4 DEF Clean

\* While a read goes on.
LEMMA AnswersReading ==
  ASSUME ReaderInv, TableInv, ReadSome \/ ReadEnds \/ ReadError
  PROVE  Answers'
<1>1. /\ Phase' = Phase
      /\ rd'.want = rd.want /\ rd'.got + rd'.left = rd.got + rd.left
      /\ loc' \in {"read"} \cup Then
      /\ UNCHANGED <<input, object, reader, startAddress, section, answer>>
  BY TypesReading
<1>2. F' = F /\ NameAt' = NameAt /\ room' = room /\ pc' = pc
  BY <1>1 DEF F, NameAt, SymbolAt, input
<1>3. TableInv'
  BY <1>1, <1>2 DEF TableInv, Asked
<1>4. loc' \notin {"return", "abort"}
  BY <1>1 DEF Then
<1> QED
  BY <1>3, <1>4 DEF Answers

\* While a call is in the maps.
LEMMA AnswersInMaps ==
  ASSUME ReaderInv, OpenMaps \/ ReadLine \/ ReadLineRefilled \/ SkipMap
  PROVE  Answers'
<1>1. loc' \in {"ReadLine", "line"} \/ (Phase' = "refilled" /\ loc' = "read")
  <2>1. CASE OpenMaps
    BY <2>1 DEF OpenMaps
  <2>2. CASE ReadLine
    <3>1. CASE Phase' = "refilled"
      <4>1. loc' = "read" \/ loc' = "line"
        BY <2>2 DEF ReadLine, Returns, Read
      <4> QED
        BY <3>1, <4>1
    <3> QED
      BY <2>2, <3>1, ReaderReadsLine
  <2>3. CASE ReadLineRefilled
    BY <2>3, ReaderRefills
  <2>4. CASE SkipMap
    BY <2>4, ReaderSkips
  <2> QED
    BY <2>1, <2>2, <2>3, <2>4
<1>2. Phase' \notin InFile /\ loc' \notin {"return", "abort"}
  BY <1>1 DEF Phase, InFile, InTables
<1>3. TableInv'
  BY <1>2 DEF TableInv, InFile, InTables
<1> QED
  BY <1>2, <1>3 DEF Answers

\* An end: what is left is the answer.
LEMMA AnswersEnd ==
  ASSUME loc' = "return", UNCHANGED <<pc, maps>>, Expected(maps, pc, answer')
  PROVE  Answers'
<1>1. TableInv'
  BY DEF TableInv, Phase, InFile, InTables
<1> QED
  BY <1>1 DEF Answers

\* ReadLine fails at the end of the maps, or at a line that is too long.
LEMMA AnswersNoLine ==
  ASSUME ReaderInv, MapInv, Clean, ReadLineFails, UNCHANGED <<pc, maps>>
  PROVE  Answers'
<1>1. /\ loc = "refilled" /\ Phase = "refilled" /\ Fail
      /\ rd.len <= 0 \/ LineFeed(bol, eod + rd.len) = {}
  BY DEF ReadLineFails, Phase
<1>2. Types /\ LineInv
  BY DEF ReaderInv
<1> PICK n \in Nat : n = Len(lines)
  BY <1>2, LineFacts
<1>3. /\ bol = EndOf(maps, n) /\ Asked(LineBuf - (eod - bol), Total - eod)
      /\ n < Len(maps) => eod < EndOf(maps, n + 1)
      /\ bol \in Nat /\ eod \in Nat /\ bol <= eod /\ Len(maps) \in Nat
      /\ n \in 0..Len(maps) /\ Total \in Nat /\ LineBuf \in Nat
  BY <1>1, <1>2, LineFacts, SymbolizeAssumption
  DEF LineInv, Types, Behind, SymbolizeAssumption
<1>4. /\ rd.len \in Nat
      /\ rd.len = IF LineBuf - (eod - bol) <= Total - eod
                  THEN LineBuf - (eod - bol) ELSE Total - eod
  BY <1>1, <1>3, ReadEnded DEF Clean, Then
<1>5. ASSUME HasObject(maps, pc)
      PROVE  FALSE
  <2> PICK k : k = Min(MapsOf(maps, pc))
    OBVIOUS
  <2>1. /\ k \in 1..Len(maps) /\ HoldsIn(maps, k, pc)
        /\ \A j \in 1..k : EndOf(maps, j) - EndOf(maps, j - 1) <= LineBuf
    BY <1>2, <1>5, FirstMap DEF HasObject, Types
  <2>2. \A j \in 1..n : ~HoldsIn(maps, j, pc)
    BY <1>1 DEF MapInv
  <2>3. k > n /\ n + 1 \in 1..k /\ n < Len(maps) /\ n + 1 \in 0..Len(maps)
    BY <1>3, <2>1, <2>2
  <2> PICK to \in Nat : to = EndOf(maps, n + 1)
    BY <1>2, <2>3, EndsIncrease DEF Types
  <2>4. to - bol <= LineBuf
    <3>1. (n + 1) - 1 = n
      OBVIOUS
    <3> QED
      BY <1>3, <2>1, <2>3, <3>1
  <2>5. to <= Total
    <3>1. n + 1 = Len(maps) \/ n + 1 < Len(maps)
      BY <1>3, <2>3
    <3>2. Len(maps) \in 0..Len(maps)
      BY <1>3
    <3>3. CASE n + 1 = Len(maps)
      <4>1. to = Total
        BY <3>3 DEF Total
      <4> QED
        BY <1>3, <4>1
    <3>4. CASE n + 1 < Len(maps)
      <4>1. EndOf(maps, n + 1) < EndOf(maps, Len(maps))
        BY <1>2, <2>3, <3>2, <3>4, EndsIncrease DEF Types
      <4> QED
        BY <1>3, <4>1 DEF Total
    <3> QED
      BY <3>1, <3>3, <3>4
  <2>6. eod < to
    BY <1>3, <2>3
  <2>7. rd.len > 0 /\ to <= eod + rd.len /\ eod + rd.len \in Nat
    <3> PICK b \in Nat, d \in Nat, t \in Nat, size \in Nat, len \in Nat :
               b = bol /\ d = eod /\ t = Total /\ size = LineBuf /\ len = rd.len
      BY <1>3, <1>4
    <3>1. /\ b <= d /\ len = IF size - (d - b) <= t - d THEN size - (d - b) ELSE t - d
          /\ to - b <= size /\ to <= t /\ d < to
      BY <1>3, <1>4, <2>4, <2>5, <2>6
    <3>2. len > 0 /\ to <= d + len
      BY <3>1
    <3> QED
      BY <3>2
  <2>8. LineFeed(bol, eod + rd.len) # {}
    BY <1>2, <1>3, <2>3, <2>7, NextFeed DEF Types
  <2> QED
    BY <1>1, <1>4, <2>7, <2>8
<1> QED
  BY <1>1, <1>5, NoAnswer, AnswersEnd DEF Fail

\* The map that holds the pc is that of no object file.
LEMMA AnswersNoObject ==
  ASSUME ReaderInv, MapInv, NoObject, UNCHANGED <<pc, maps>>
  PROVE  Answers'
<1> PICK n : n = Len(lines)
  OBVIOUS
<1>1. /\ loc = "line" /\ Phase = "line" /\ Fail
      /\ Parsed = {} \/ (Holds(L) /\ L.path = NoFile)
  BY DEF NoObject, Phase
<1>2. /\ Parsed = {n} /\ L = maps[n] /\ n \in 1..Len(maps)
  BY <1>1, IsParsed
<1>3. HoldsIn(maps, n, pc) /\ maps[n].path = NoFile
  BY <1>1, <1>2 DEF Holds, HoldsIn
<1>4. \A k \in 1..(n - 1) : ~HoldsIn(maps, k, pc)
  BY <1>1 DEF MapInv
<1>5. Min(MapsOf(maps, pc)) = n
  BY <1>2, <1>3, <1>4, FirstMap DEF ReaderInv, Types
<1>6. ~HasObject(maps, pc)
  BY <1>3, <1>5 DEF HasObject, MapOf
<1> QED
  BY <1>1, <1>6, NoAnswer, AnswersEnd DEF Fail

\* The object file is opened.
LEMMA AnswersOpen ==
  ASSUME ReaderInv, OpenObject
  PROVE  Answers'
<1>1. /\ Phase' = "FileGetElfType"
      /\ rd'.want = Entry /\ rd'.got + rd'.left = File[object'].size
  BY ReaderFinds
<1>2. loc' = "read"
  BY DEF OpenObject
<1>3. TableInv'
  BY <1>1 DEF TableInv, F, Asked, InTables
<1> QED
  BY <1>2, <1>3 DEF Answers

\* It is an ELF file.
LEMMA AnswersElf ==
  ASSUME ReaderInv, FileGetElfType
  PROVE  Answers'
<1>1. /\ Phase' = "ehdr" /\ F.elf
      /\ rd'.want = Entry /\ rd'.got + rd'.left = F.size
  BY ReaderOfElf
<1>2. loc' = "read" /\ F' = F
  BY DEF FileGetElfType, ReadFromOffset, Read, F
<1>3. TableInv'
  BY <1>1, <1>2 DEF TableInv, Asked, InTables
<1> QED
  BY <1>2, <1>3 DEF Answers

\* It is none.
LEMMA AnswersNotElf ==
  ASSUME ReaderInv, MapInv, Clean, TableInv, NotElf, UNCHANGED <<pc, maps>>
  PROVE  Answers'
<1>1. /\ loc \in {"FileGetElfType", "ehdr"} /\ Phase = loc /\ Fail
      /\ rd.len # Entry \/ ~F.elf
  BY DEF NotElf, Phase, Exact
<1>2. Phase \in InFile
  BY <1>1 DEF InFile, InTables
<1>3. CASE ~F.elf
  <2>1. Expected(maps, pc, NotFound)
    BY <1>2, <1>3, FileIs DEF Clean, NotFound
  <2> QED
    BY <1>1, <2>1, AnswersEnd DEF Fail
<1>4. CASE F.elf
  <2>1. Asked(Entry, F.size)
    BY <1>1 DEF TableInv
  <2>2. F.size < Entry /\ F.size \in Nat /\ F.shoff \in Nat /\ F.shnum \in Nat
    <3>1. rd.len = IF Entry <= F.size THEN Entry ELSE F.size
      BY <1>1, <2>1, ReadEnded DEF Clean, Then
    <3> QED
      BY <1>1, <1>2, <1>4, <3>1, InFileFacts
  <2>3. Whole(F)
    BY <1>2, FileIs DEF Clean
  <2>4. F.shnum = 0
    <3> SUFFICES ASSUME F.shnum # 0
                 PROVE  FALSE
      OBVIOUS
    <3> PICK x : x = F.shnum * Entry
      OBVIOUS
    <3>1. x >= Entry /\ x \in Nat
      <4>1. 1 \in Nat /\ 1 <= F.shnum /\ Entry \in Nat
        BY <2>2, EntryFacts
      <4>2. 1 * Entry <= F.shnum * Entry /\ F.shnum * Entry \in Nat
        BY <2>2, <4>1, Product
      <4>3. 1 * Entry = Entry
        BY <4>1
      <4> QED
        BY <4>2, <4>3
    <3>2. F.shoff + x <= F.size
      BY <2>3 DEF Whole
    <3> QED
      BY <2>2, <3>1, <3>2, EntryFacts
  <2>5. HeadersOf(F, "SHT_SYMTAB") = {}
    BY <2>4 DEF HeadersOf
  <2>6. Names(F, pc, startAddress, NotFound)
    BY <2>5 DEF Names, NotFound
  <2>7. Expected(maps, pc, NotFound)
    BY <1>2, <1>4, <2>6, FileIs DEF Clean
  <2> QED
    BY <1>1, <2>7, AnswersEnd DEF Fail
<1> QED
  BY <1>3, <1>4

\* An answer in the tables.
LEMMA AnswersNamed ==
  ASSUME ReaderInv, MapInv, Clean, TableInv, Phase \in InTables,
         UNCHANGED <<pc, maps>>, loc' = "return", Names(F, pc, startAddress, answer')
  PROVE  Answers'
<1>1. Phase \in InFile /\ F.elf
  BY DEF InFile, TableInv
<1>2. Expected(maps, pc, answer')
  BY <1>1, FileIs DEF Clean
<1> QED
  BY <1>2, AnswersEnd

\* No answer, when the tables have none: the first one does not, nor is there
\* a second one that does.
LEMMA NotNamed ==
  ASSUME NEW f, NEW p, NEW start, Missed(f, p, start),
         \/ HeadersOf(f, "SHT_DYNSYM") = {}
         \/ Hits(f, "SHT_DYNSYM", p, start) = {}
         \/ ~(NameOf(f, "SHT_DYNSYM", p, start).len < Usable)
  PROVE  Names(f, p, start, NotFound)
<1>1. CASE Anything(f, p, start)
  BY <1>1 DEF Anything
<1>2. CASE Hits(f, "SHT_SYMTAB", p, start) = {}
  BY <1>2 DEF Missed, Names, NotFound, IsDynamic
<1> QED
  BY <1>1, <1>2 DEF Missed

\* What stays in a file.
LEMMA InFileStays ==
  ASSUME InObject
  PROVE  /\ F' = F /\ UNCHANGED <<pc, room, maps, object, startAddress, errors>>
         /\ \A k : HeaderAt(k) = HeaderOfFile(F, k)
BY DEF InObject, F, input, HeaderAt, HeaderOfFile

\* The search begins with the first table.
LEMMA AnswersTables ==
  ASSUME ReaderInv, TableInv, ReadElfHeader
  PROVE  Answers'
<1>1. /\ Phase' = "headers" /\ Phase = "ehdr" /\ section' = Table("SHT_SYMTAB")
      /\ loc' = "headers" /\ F' = F
  BY ReaderOfTables, InFileStays DEF ReadElfHeader
<1>2. F.elf
  BY <1>1 DEF TableInv, InTables
<1>3. section'.i = 0 /\ section'.kind = "SHT_SYMTAB"
  BY <1>1 DEF Table
<1>4. Scanned(F, section'.kind, section'.i)
  BY <1>3 DEF Scanned
<1>5. TableInv'
  BY <1>1, <1>2, <1>3, <1>4 DEF TableInv
<1> QED
  BY <1>1, <1>5 DEF Answers

\* The headers are all in the file.
LEMMA HeadersFit ==
  ASSUME NEW f, ObjectFile(f), Whole(f), NEW i \in Nat, i < f.shnum
  PROVE  /\ f.shoff + i * Entry <= f.size
         /\ i * Entry \in Nat /\ Entry <= f.size - (f.shoff + i * Entry)
         /\ (f.shnum - i) * Entry <= f.size - (f.shoff + i * Entry)
<1>1. /\ f.shnum \in Nat /\ f.shoff \in Nat /\ f.size \in Nat /\ Entry \in Nat
      /\ f.shoff + f.shnum * Entry <= f.size
  BY EntryFacts DEF ObjectFile, Whole
<1>2. /\ i * Entry \in Nat /\ f.shnum * Entry \in Nat /\ i * Entry <= f.shnum * Entry
      /\ (f.shnum - i) * Entry = f.shnum * Entry - i * Entry
  BY <1>1, Product
<1>3. 1 * Entry <= (f.shnum - i) * Entry /\ (f.shnum - i) * Entry \in Nat
  <2>1. 1 \in Nat /\ f.shnum - i \in Nat /\ 1 <= f.shnum - i
    BY <1>1
  <2> QED
    BY <1>1, <2>1, Product
<1>4. 1 * Entry = Entry
  BY <1>1
<1> PICK x \in Nat : x = i * Entry
  BY <1>2
<1> PICK y \in Nat : y = f.shnum * Entry
  BY <1>2
<1> PICK z \in Nat : z = (f.shnum - i) * Entry
  BY <1>3
<1>5. x <= y /\ z = y - x /\ Entry <= z /\ f.shoff + y <= f.size
  BY <1>1, <1>2, <1>3, <1>4
<1>6. /\ f.shoff + x <= f.size /\ Entry <= f.size - (f.shoff + x)
      /\ z <= f.size - (f.shoff + x)
  BY <1>1, <1>5
<1> QED
  BY <1>6

\* The next buffer of section headers is asked for.
LEMMA AnswersHeaders ==
  ASSUME ReaderInv, MapInv, Clean, TableInv, ReadHeaders
  PROVE  Answers'
<1> PICK offset : offset = F.shoff + section.i * Entry
  OBVIOUS
<1>1. /\ loc' = "read" /\ Phase' = "gotHeaders" /\ Phase = "headers"
      /\ section.i < F.shnum /\ section' = section
      /\ rd'.want = Min({HeadersInBuf, F.shnum - section.i}) * Entry
      /\ rd'.got + rd'.left = IF offset <= F.size THEN F.size - offset ELSE 0
  BY ReaderOfHeaders
<1>2. F' = F /\ pc' = pc /\ startAddress' = startAddress
  BY InFileStays DEF ReadHeaders
<1>3. offset <= F.size
  <2>1. Phase \in InFile
    BY <1>1 DEF InFile, InTables
  <2>2. ObjectFile(F) /\ Whole(F) /\ section.i \in Nat
    BY <2>1, FileIs, InFileFacts DEF Clean
  <2> QED
    BY <1>1, <2>2, HeadersFit
<1>4. Asked(Min({HeadersInBuf, F.shnum - section.i}) * Entry,
            F.size - (F.shoff + section.i * Entry))'
  BY <1>1, <1>2, <1>3 DEF Asked
<1>5. TableInv'
  BY <1>1, <1>2, <1>4 DEF TableInv, InTables
<1> QED
  BY <1>1, <1>5 DEF Answers

\* No section is of the kind.
LEMMA AnswersNoSection ==
  ASSUME ReaderInv, MapInv, Clean, TableInv, NoSection, UNCHANGED <<pc, maps>>
  PROVE  Answers'
<1>1. /\ Phase = "headers" /\ section.i >= F.shnum /\ Fail
  BY DEF NoSection, Phase
<1>2. Phase \in InFile /\ Phase \in InTables
  BY <1>1 DEF InFile, InTables
<1>3. /\ F.shnum \in Nat /\ section.i \in Nat /\ section.kind \in Kind
  BY <1>2, InFileFacts
<1>4. HeadersOf(F, section.kind) = {}
  BY <1>1, <1>3, FirstHeader DEF TableInv
<1>5. Names(F, pc, startAddress, NotFound)
  <2>1. CASE section.kind = "SHT_SYMTAB"
    BY <1>4, <2>1 DEF Names, NotFound
  <2>2. CASE section.kind = "SHT_DYNSYM"
    <3>1. Missed(F, pc, startAddress)
      BY <1>1, <2>2 DEF TableInv, InTables
    <3> QED
      BY <1>4, <2>2, <3>1, NotNamed
  <2> QED
    BY <1>3, <2>1, <2>2 DEF Kind
<1> QED
  BY <1>1, <1>2, <1>5, AnswersNamed DEF Fail

\* What is read of the headers.
LEMMA HeadersRead ==
  ASSUME ReaderInv, MapInv, Clean, TableInv, loc = "gotHeaders"
  PROVE  \E n \in Nat : rd.len = n * Entry /\ section.i + n <= F.shnum
<1>1. Phase = "gotHeaders" /\ Phase \in InFile
  BY DEF Phase, InFile, InTables
<1>2. ObjectFile(F) /\ Whole(F) /\ section.i \in Nat /\ F.shnum \in Nat /\ F.size \in Nat
  BY <1>1, FileIs, InFileFacts DEF Clean
<1> PICK i \in Nat : i = section.i
  BY <1>2
<1> PICK n : n = Min({HeadersInBuf, F.shnum - i})
  OBVIOUS
<1> PICK left : left = F.size - (F.shoff + i * Entry)
  OBVIOUS
<1>3. i < F.shnum /\ Asked(n * Entry, left)
  BY <1>1 DEF TableInv
<1>4. n \in Nat /\ n <= F.shnum - i /\ F.shnum - i \in Nat
  <2>1. F.shnum - i \in Nat /\ HeadersInBuf \in Nat
    BY SMTT(60), <1>2, <1>3, SymbolizeAssumption DEF SymbolizeAssumption
  <2>2. n = IF HeadersInBuf <= F.shnum - i THEN HeadersInBuf ELSE F.shnum - i
    BY <2>1, MinOfTwo
  <2> QED
    BY <2>1, <2>2
<1>5. n * Entry <= left
  <2>1. /\ n * Entry <= (F.shnum - i) * Entry /\ n * Entry \in Nat
        /\ (F.shnum - i) * Entry \in Nat
    BY <1>4, EntryFacts, Product
  <2>2. (F.shnum - i) * Entry <= left
    BY <1>2, <1>3, HeadersFit
  <2>3. left \in Int
    <3>1. i * Entry \in Nat /\ F.shoff \in Nat
      BY <1>2, EntryFacts DEF ObjectFile
    <3> QED
      BY <1>2, <3>1
  <2> PICK x \in Nat : x = n * Entry
    BY <2>1
  <2> PICK y \in Nat : y = (F.shnum - i) * Entry
    BY <2>1
  <2>4. x <= y /\ y <= left
    BY <2>1, <2>2
  <2>5. x <= left
    BY <2>3, <2>4
  <2> QED
    BY <2>5
<1>6. rd.len = n * Entry
  BY <1>3, <1>5, ReadEnded DEF Clean, Then
<1>7. section.i + n <= F.shnum
  BY <1>2, <1>4
<1> QED
  BY <1>4, <1>6, <1>7

\* The first header of the kind, or none in this buffer.
LEMMA AnswersHeader ==
  ASSUME ReaderInv, MapInv, Clean, TableInv, FindHeader
  PROVE  Answers'
<1>9. PICK n : n = rd.len \div Entry
  OBVIOUS
<1>10. PICK hits : hits = OfType(section.i, n)
  OBVIOUS
<1>1. /\ Phase = "gotHeaders" /\ loc = "gotHeaders"
      /\ rd.len \in Nat /\ n \in Nat /\ rd.len = n * Entry
      /\ \/ /\ hits = {} /\ Phase' = "headers" /\ loc' = "headers"
            /\ section' = [section EXCEPT !.i = section.i + n]
         \/ /\ hits # {} /\ Phase' = "strtab" /\ loc' = "read"
            /\ section' = [section EXCEPT !.hdr = HeaderAt(Min(hits)), !.i = 0]
            /\ Min(hits) \in hits /\ rd'.want = Entry
            /\ rd'.got + rd'.left =
                 IF F.shoff + HeaderAt(Min(hits)).link * Entry <= F.size
                 THEN F.size - (F.shoff + HeaderAt(Min(hits)).link * Entry) ELSE 0
  BY <1>9, <1>10, ReaderOfHeader
<1>2. Phase \in InFile /\ Phase \in InTables
  BY <1>1 DEF InFile, InTables
<1>3. /\ F.shnum \in Nat /\ section.i \in Nat /\ section.kind \in Kind
      /\ section \in [kind : Kind, hdr : Header, str : Header, i : Nat]
      /\ ObjectFile(F) /\ Whole(F) /\ F.elf
  BY <1>2, InFileFacts, FileIs DEF Clean, TableInv
<1> PICK i \in Nat : i = section.i
  BY <1>3
<1>4. Scanned(F, section.kind, i)
  BY <1>1 DEF TableInv
<1>5. section.kind = "SHT_DYNSYM" => Missed(F, pc, startAddress)
  BY <1>1 DEF TableInv, InTables
<1>6. /\ F' = F /\ pc' = pc /\ startAddress' = startAddress
      /\ hits = {k \in i..(i + n - 1) : HeaderOfFile(F, k).type = section.kind}
  BY <1>10, InFileStays DEF FindHeader, OfType
<1>11. n \in Nat
  BY <1>1
<1>7. CASE hits = {}
  <2>1. /\ Phase' = "headers" /\ loc' = "headers"
        /\ section'.i = i + n /\ section'.kind = section.kind
    BY <1>1, <1>3, <1>7
  <2>2. Scanned(F, section.kind, i + n)
    <3> SUFFICES ASSUME NEW k \in 0..(i + n - 1)
                 PROVE  HeaderOfFile(F, k).type # section.kind
      BY <1>11 DEF Scanned
    <3>1. k \in 0..(i - 1) \/ k \in i..(i + n - 1)
      BY <1>11
    <3> QED
      BY <1>4, <1>6, <1>7, <3>1 DEF Scanned
  <2>3. TableInv'
    BY <1>3, <1>5, <1>6, <2>1, <2>2 DEF TableInv
  <2> QED
    BY <2>1, <2>3 DEF Answers
<1>8. CASE hits # {}
  <2> PICK k : k = Min(hits)
    OBVIOUS
  <2> PICK h : h = HeaderAt(k)
    OBVIOUS
  <2>12. k \in hits /\ n \in Nat
    BY <1>1, <1>8
  <2>1. /\ Phase' = "strtab" /\ loc' = "read" /\ k \in hits /\ rd'.want = Entry
        /\ section' = [section EXCEPT !.hdr = h, !.i = 0]
        /\ rd'.got + rd'.left = IF F.shoff + h.link * Entry <= F.size
                                THEN F.size - (F.shoff + h.link * Entry) ELSE 0
    BY <1>1, <1>8
  <2>2. k \in i..(i + n - 1) /\ k \in Nat /\ HeaderOfFile(F, k).type = section.kind
    BY <1>6, <2>12
  <2>3. k < F.shnum
    <3>1. PICK q \in Nat : rd.len = q * Entry /\ section.i + q <= F.shnum
      BY <1>1, HeadersRead
    <3>2. q = n
      BY <1>1, <3>1, EntryFacts, Multiple
    <3> QED
      BY <1>1, <1>3, <2>2, <3>1, <3>2
  <2>4. Scanned(F, section.kind, k)
    <3> SUFFICES ASSUME NEW j \in 0..(k - 1)
                 PROVE  HeaderOfFile(F, j).type # section.kind
      BY DEF Scanned
    <3>1. j \in 0..(i - 1) \/ (j \in i..(i + n - 1) /\ j < k)
      BY <1>1, <2>2
    <3>2. ASSUME j \in i..(i + n - 1), j < k, HeaderOfFile(F, j).type = section.kind
          PROVE  FALSE
      <4>1. j \in hits /\ hits \subseteq Nat
        BY <1>6, <2>12, <3>2
      <4>2. k <= j
        BY <4>1, LeastOf
      <4> QED
        BY <2>2, <3>2, <4>2
    <3> QED
      BY <1>4, <3>1, <3>2 DEF Scanned
  <2>5. HeadersOf(F, section.kind) # {} /\ Min(HeadersOf(F, section.kind)) = k
    BY <1>3, <2>2, <2>3, <2>4, FirstHeader
  <2>6. h = TableOf(F, section.kind)
    <3>1. TableOf(F, section.kind) = HeaderOfFile(F, k)
      BY <1>3, <2>5, WholeTable
    <3> QED
      BY <3>1 DEF HeaderAt, HeaderOfFile
  <2>7. h.link < F.shnum /\ h.link \in Nat
    BY <1>3, <2>5, <2>6, WholeTable DEF Header
  <2>8. F.shoff + h.link * Entry <= F.size
    BY <1>3, <2>7, HeadersFit
  <2>9. section'.hdr = h /\ section'.i = 0 /\ section'.kind = section.kind
    BY <1>3, <2>1
  <2>10. Asked(Entry, F.size - (F.shoff + h.link * Entry))'
    BY <1>6, <2>1, <2>8 DEF Asked
  <2>11. TableInv'
    BY <1>3, <1>5, <1>6, <2>1, <2>5, <2>6, <2>9, <2>10 DEF TableInv, Asked
  <2> QED
    BY <2>1, <2>11 DEF Answers
<1> QED
  BY <1>7, <1>8

\* The table that is searched.
LEMMA TableIs ==
  ASSUME ReaderInv, MapInv, Clean, TableInv,
         Phase \in {"strtab", "symbols", "gotSymbols", "name"},
         NEW h, h = section.hdr
  PROVE  /\ Phase \in InFile /\ Phase \in InTables /\ F.elf
         /\ ObjectFile(F) /\ Whole(F) /\ section.kind \in Kind
         /\ section \in [kind : Kind, hdr : Header, str : Header, i : Nat]
         /\ section.i \in Nat /\ F.size \in Nat
         /\ HeadersOf(F, section.kind) # {} /\ h = TableOf(F, section.kind)
         /\ h \in Header /\ h.off \in Nat /\ h.n \in Nat /\ h.link \in Nat
         /\ h.off + h.n * Entry <= F.size /\ (AllEven => Even(F, h))
         /\ h.link < F.shnum /\ F.shoff + h.link * Entry \in DOMAIN F.headers
         /\ \A s \in DOMAIN F.symbols \cap Offsets(h) :
              HeaderOf(F, h.link).off + F.symbols[s].name \in DOMAIN F.names
         /\ section.kind = "SHT_DYNSYM" => Missed(F, pc, startAddress)
<1>1. Phase \in InFile /\ Phase \in InTables
  BY DEF InFile, InTables
<1>2. /\ section \in [kind : Kind, hdr : Header, str : Header, i : Nat]
      /\ ObjectFile(F) /\ Whole(F) /\ F.elf /\ F.size \in Nat
      /\ AllEven => EvenEnd(F)
  BY <1>1, InFileFacts, FileIs DEF Clean, TableInv
<1>3. HeadersOf(F, section.kind) # {} /\ h = TableOf(F, section.kind)
  BY DEF TableInv
<1>4. section.kind = "SHT_DYNSYM" => Missed(F, pc, startAddress)
  BY <1>1 DEF TableInv
<1>5. /\ h \in Header
      /\ h.off + h.n * Entry <= F.size /\ (EvenEnd(F) => Even(F, h))
      /\ h.link < F.shnum /\ F.shoff + h.link * Entry \in DOMAIN F.headers
      /\ \A s \in DOMAIN F.symbols \cap Offsets(h) :
           HeaderOf(F, h.link).off + F.symbols[s].name \in DOMAIN F.names
  BY <1>2, <1>3, WholeTable
<1> QED
  BY <1>1, <1>2, <1>3, <1>4, <1>5 DEF Header

\* The strings of the table.
LEMMA AnswersStrtab ==
  ASSUME ReaderInv, MapInv, Clean, TableInv, GotStrtab
  PROVE  Answers'
<1> PICK h : h = section.hdr
  OBVIOUS
<1>1. /\ Phase = "strtab" /\ loc = "strtab"
      /\ \/ /\ Exact /\ Phase' = "symbols" /\ loc' = "symbols"
            /\ section' = [section EXCEPT !.str =
                 Pick(F.headers, F.shoff + section.hdr.link * Entry, NoHeader)]
         \/ ~Exact /\ loc' = "return"
  BY ReaderOfStrtab
<1>2. /\ ObjectFile(F) /\ Whole(F) /\ F.elf
      /\ section \in [kind : Kind, hdr : Header, str : Header, i : Nat]
      /\ HeadersOf(F, section.kind) # {} /\ h = TableOf(F, section.kind)
      /\ h.link < F.shnum /\ h.link \in Nat /\ F.shoff + h.link * Entry \in DOMAIN F.headers
      /\ section.kind = "SHT_DYNSYM" => Missed(F, pc, startAddress)
  BY <1>1, TableIs
<1>3. Exact
  <2>1. Asked(Entry, F.size - (F.shoff + h.link * Entry))
    BY <1>1 DEF TableInv
  <2>2. Entry <= F.size - (F.shoff + h.link * Entry)
    BY <1>2, HeadersFit
  <2> QED
    BY <1>1, <2>1, <2>2, ReadEnded DEF Clean, Then, Exact
<1>4. /\ Phase' = "symbols" /\ loc' = "symbols" /\ section'.hdr = h
      /\ section'.kind = section.kind /\ section'.i = section.i
      /\ section'.str = Pick(F.headers, F.shoff + h.link * Entry, NoHeader)
  BY <1>1, <1>2, <1>3
<1>5. section'.str = HeaderOf(F, h.link)
  BY <1>2, <1>4 DEF Pick, HeaderOf
<1>6. section.i = 0
  BY <1>1 DEF TableInv
<1>7. F' = F /\ pc' = pc /\ startAddress' = startAddress
  BY InFileStays DEF GotStrtab
<1>8. NoneBefore(F, h, pc, startAddress, section'.i)
  BY <1>4, <1>6 DEF NoneBefore
<1>9. Buffered(section'.i, h.n)
  <2>1. 0 \in Nat /\ 0 = 0 * SymbolsInBuf
    BY SymbolizeAssumption DEF SymbolizeAssumption
  <2> QED
    BY <1>4, <1>6, <2>1 DEF Buffered
<1>10. TableInv'
  BY <1>2, <1>4, <1>5, <1>7, <1>8, <1>9 DEF TableInv, Buffered
<1> QED
  BY <1>4, <1>10 DEF Answers

\* A buffer of symbols.
LEMMA AnswersSymbols ==
  ASSUME ReaderInv, MapInv, Clean, TableInv, ReadSymbols
  PROVE  Answers'
<1> PICK h : h = section.hdr
  OBVIOUS
<1> PICK offset : offset = h.off + section.i * Entry
  OBVIOUS
<1>1. /\ loc' = "read" /\ Phase' = "gotSymbols" /\ Phase = "symbols"
      /\ section.i < h.n /\ section' = section
      /\ rd'.want = SymbolsInBuf * Entry
      /\ rd'.got + rd'.left = IF offset <= F.size THEN F.size - offset ELSE 0
  BY ReaderOfSymbols
<1>2. /\ h.off + h.n * Entry <= F.size /\ h.off \in Nat /\ h.n \in Nat
      /\ section.i \in Nat /\ F.size \in Nat /\ F.elf
      /\ section.kind = "SHT_DYNSYM" => Missed(F, pc, startAddress)
      /\ HeadersOf(F, section.kind) # {} /\ h = TableOf(F, section.kind)
  BY <1>1, TableIs
<1>3. offset <= F.size
  <2> PICK i \in Nat : i = section.i
    BY <1>2
  <2>1. i * Entry < h.n * Entry /\ i * Entry \in Nat /\ h.n * Entry \in Nat
    BY <1>1, <1>2, EntryFacts
  <2> PICK x \in Nat : x = i * Entry
    BY <2>1
  <2> PICK y \in Nat : y = h.n * Entry
    BY <2>1
  <2>2. x < y /\ h.off + y <= F.size /\ offset = h.off + x
    BY <1>2, <2>1
  <2> QED
    BY <1>2, <2>2
<1>4. F' = F /\ pc' = pc /\ startAddress' = startAddress
  BY InFileStays DEF ReadSymbols
<1>5. Asked(SymbolsInBuf * Entry, F.size - (section.hdr.off + section.i * Entry))'
  BY <1>1, <1>3, <1>4 DEF Asked
<1>6. TableInv'
  BY <1>1, <1>2, <1>4, <1>5 DEF TableInv, Buffered
<1> QED
  BY <1>1, <1>6 DEF Answers

\* A read gives a whole buffer, or what is left of the file.
LEMMA NextBuffer ==
  ASSUME NEW i \in Nat, NEW n \in Nat, NEW m \in Nat, NEW left \in Nat,
         Buffered(i, m), m * Entry <= i * Entry + left,
         n * Entry = IF SymbolsInBuf * Entry <= left THEN SymbolsInBuf * Entry
                     ELSE left
  PROVE  Buffered(i + n, m)
<1>1. SymbolsInBuf \in Nat
  BY SymbolizeAssumption DEF SymbolizeAssumption
<1>2. CASE i >= m
  BY <1>2 DEF Buffered
<1>3. CASE SymbolsInBuf * Entry <= left /\ ~(i >= m)
  <2>1. n = SymbolsInBuf
    <3>1. n * Entry = SymbolsInBuf * Entry
      BY <1>3
    <3>2. ~(n < SymbolsInBuf) /\ ~(SymbolsInBuf < n)
      <4>1. n < SymbolsInBuf => n * Entry < SymbolsInBuf * Entry
        BY <1>1, EntryFacts
      <4>2. SymbolsInBuf < n => SymbolsInBuf * Entry < n * Entry
        BY <1>1, EntryFacts
      <4> PICK a \in Nat : a = n * Entry
        BY EntryFacts
      <4>3. ~(a < a)
        OBVIOUS
      <4> QED
        BY <3>1, <4>1, <4>2, <4>3
    <3> QED
      BY <1>1, <3>2
  <2>2. PICK j \in Nat : i = j * SymbolsInBuf
    BY <1>3 DEF Buffered
  <2>3. (j + 1) * SymbolsInBuf = j * SymbolsInBuf + SymbolsInBuf
    BY <1>1, SMTT(30)
  <2>4. j + 1 \in Nat /\ i + n = (j + 1) * SymbolsInBuf
    BY <2>1, <2>2, <2>3
  <2> QED
    BY <2>4 DEF Buffered
<1>4. CASE ~(SymbolsInBuf * Entry <= left)
  <2>1. n * Entry = left
    BY <1>4
  <2>2. (i + n) * Entry = i * Entry + n * Entry
    BY EntryFacts, SMTT(30)
  <2>3. m * Entry <= (i + n) * Entry
    BY <2>1, <2>2
  <2>4. ~(i + n < m)
    <3>1. i + n < m => (i + n) * Entry < m * Entry
      BY EntryFacts
    <3> PICK a \in Nat : a = (i + n) * Entry
      BY EntryFacts
    <3> PICK b \in Nat : b = m * Entry
      BY EntryFacts
    <3>2. b <= a /\ (i + n < m => a < b)
      BY <2>3, <3>1
    <3> QED
      BY <3>2
  <2> QED
    BY <2>4 DEF Buffered
<1> QED
  BY <1>2, <1>3, <1>4

\* The first symbol that covers the pc, or none in this buffer.
LEMMA AnswersSymbol ==
  ASSUME ReaderInv, MapInv, Clean, TableInv, FindSymbol
  PROVE  Answers'
<1> PICK n : n = rd.len \div Entry
  OBVIOUS
<1> PICK hits : hits = Matching(section.i, n)
  OBVIOUS
<1> PICK h : h = section.hdr
  OBVIOUS
<1>1. /\ Phase = "gotSymbols" /\ loc = "gotSymbols" /\ n \in Nat
      /\ rd.len = n * Entry
      /\ \/ /\ hits = {} /\ Phase' = "symbols" /\ loc' = "symbols"
            /\ section' = [section EXCEPT !.i = section.i + n]
         \/ /\ hits # {} /\ Phase' = "name" /\ loc' = "read"
            /\ section' = [section EXCEPT !.i = Min(hits)]
            /\ Min(hits) \in hits /\ \A k \in hits : Min(hits) <= k
            /\ rd'.want = room
            /\ rd'.got + rd'.left = IF NameAt' <= F.size THEN F.size - NameAt' ELSE 0
  BY ReaderOfSymbol
<1>2. /\ section \in [kind : Kind, hdr : Header, str : Header, i : Nat]
      /\ section.i \in Nat /\ F.elf
      /\ section.kind = "SHT_DYNSYM" => Missed(F, pc, startAddress)
      /\ HeadersOf(F, section.kind) # {} /\ h = TableOf(F, section.kind)
  BY <1>1, TableIs
<1> PICK i \in Nat : i = section.i
  BY <1>2
<1>3. /\ section.str = HeaderOf(F, h.link)
      /\ NoneBefore(F, h, pc, startAddress, i)
  BY <1>1 DEF TableInv
<1>4. /\ F' = F /\ pc' = pc /\ startAddress' = startAddress /\ room' = room
      /\ hits = {k \in i..(i + n - 1) : Matches(F, h, pc, startAddress, k)}
  BY InFileStays DEF FindSymbol, Matching, Matches, SymbolAt
<1>5. CASE hits = {}
  <2>1. /\ Phase' = "symbols" /\ loc' = "symbols" /\ section'.i = i + n
        /\ section'.kind = section.kind /\ section'.hdr = h
        /\ section'.str = section.str
    BY <1>1, <1>2, <1>5
  <2>2. NoneBefore(F, h, pc, startAddress, i + n)
    <3> SUFFICES ASSUME NEW k \in 0..(i + n - 1)
                 PROVE  ~Matches(F, h, pc, startAddress, k)
      BY DEF NoneBefore
    <3>1. k \in 0..(i - 1) \/ k \in i..(i + n - 1)
      BY <1>1
    <3> QED
      BY <1>3, <1>4, <1>5, <3>1 DEF NoneBefore
  <2>3. Buffered(i + n, h.n)
    <3>1. /\ h.off \in Nat /\ h.n \in Nat /\ F.size \in Nat
          /\ h.off + h.n * Entry <= F.size
      BY <1>1, TableIs
    <3>2. /\ Buffered(i, h.n) /\ i < h.n
          /\ Asked(SymbolsInBuf * Entry, F.size - (h.off + i * Entry))
      BY <1>1 DEF TableInv
    <3> PICK left : left = F.size - (h.off + i * Entry)
      OBVIOUS
    <3>3. /\ left \in Nat
          /\ n * Entry = IF SymbolsInBuf * Entry <= left
                         THEN SymbolsInBuf * Entry ELSE left
      BY <1>1, <3>2, ReadEnded DEF Clean, Then
    <3> PICK x \in Nat : x = i * Entry
      BY EntryFacts
    <3> PICK y \in Nat : y = h.n * Entry
      BY <3>1, EntryFacts
    <3>4. y <= x + left
      BY <3>1, <3>3
    <3> QED
      BY <1>1, <3>1, <3>2, <3>3, <3>4, NextBuffer
  <2>4. TableInv'
    BY <1>2, <1>3, <1>4, <2>1, <2>2, <2>3 DEF TableInv, Buffered
  <2> QED
    BY <2>1, <2>4 DEF Answers
<1>6. CASE hits # {}
  <2> PICK k : k = Min(hits)
    OBVIOUS
  <2>1. /\ Phase' = "name" /\ loc' = "read" /\ section'.i = k
        /\ section'.kind = section.kind /\ section'.hdr = h
        /\ section'.str = section.str
        /\ k \in hits /\ \A j \in hits : k <= j
        /\ rd'.want = room
        /\ rd'.got + rd'.left = IF NameAt' <= F.size THEN F.size - NameAt' ELSE 0
    BY <1>1, <1>2, <1>6
  <2>2. Matches(F, h, pc, startAddress, k) /\ k \in i..(i + n - 1) /\ k \in Nat
    BY <1>1, <1>4, <2>1
  <2>3. NoneBefore(F, h, pc, startAddress, k)
    <3> SUFFICES ASSUME NEW j \in 0..(k - 1), Matches(F, h, pc, startAddress, j)
                 PROVE  FALSE
      BY DEF NoneBefore
    <3>1. j \notin 0..(i - 1)
      BY <1>3 DEF NoneBefore
    <3>2. j \in i..(i + n - 1) /\ j < k
      BY <1>1, <2>2, <3>1
    <3>3. k <= j
      BY <1>4, <2>1, <3>2
    <3> QED
      BY <2>2, <3>2, <3>3
  <2>4. Asked(room, IF NameAt <= F.size THEN F.size - NameAt ELSE 0)'
    BY <1>4, <2>1 DEF Asked
  <2>5. TableInv'
    BY <1>2, <1>3, <1>4, <2>1, <2>2, <2>3, <2>4 DEF TableInv
  <2> QED
    BY <2>1, <2>5 DEF Answers
<1> QED
  BY <1>5, <1>6

\* What is left of whole entries behind whole entries.
LEMMA RestOfTable ==
  ASSUME NEW d \in Nat, d % Entry = 0, NEW i \in Nat, i * Entry <= d
  PROVE  (d - i * Entry) % Entry = 0
<1> PICK q \in Nat : d = q * Entry
  <2>1. d \div Entry \in Nat /\ d = ((d \div Entry) * Entry) + (d % Entry)
    BY EntryFacts, Divided
  <2>2. (d \div Entry) * Entry \in Nat
    BY <2>1, EntryFacts
  <2>3. d = (d \div Entry) * Entry
    BY <2>1, <2>2
  <2> QED
    BY <2>1, <2>3
<1>1. i <= q
  <2>1. CASE q < i
    <3>1. q * Entry < i * Entry /\ i * Entry \in Nat
      BY <2>1, EntryFacts
    <3> PICK x \in Nat : x = i * Entry
      BY <3>1
    <3>2. d < x /\ x <= d
      BY <3>1
    <3> QED
      BY <3>2
  <2> QED
    BY <2>1
<1>2. (q - i) * Entry = q * Entry - i * Entry
  BY <1>1, EntryFacts, Product
<1>3. q - i \in Nat
  BY <1>1
<1>4. ((q - i) * Entry) % Entry = 0
  BY <1>3, EntryFacts, Multiple
<1> QED
  BY <1>2, <1>4

\* A buffer that ends before the file does, or a table that goes into the
\* file's rest without remainder: what is read of it are whole entries.
LEMMA EvenRead ==
  ASSUME NEW h, h.off \in Nat, h.n \in Nat, NEW size \in Nat, NEW i \in Nat,
         i < h.n, Buffered(i, h.n), h.off + h.n * Entry <= size,
         \/ (size - h.off) % Entry = 0
         \/ \A j \in 0..(h.n - 1) : j * SymbolsInBuf < h.n =>
              h.off + (j + 1) * SymbolsInBuf * Entry <= size,
         NEW left, left = size - (h.off + i * Entry),
         NEW len \in Nat,
         len = IF SymbolsInBuf * Entry <= left THEN SymbolsInBuf * Entry ELSE left
  PROVE  len % Entry = 0
<1>1. SymbolsInBuf \in Nat /\ SymbolsInBuf > 0
  BY SymbolizeAssumption DEF SymbolizeAssumption
<1>2. (SymbolsInBuf * Entry) % Entry = 0
  BY <1>1, EntryFacts, Multiple
<1>3. i * Entry < h.n * Entry /\ i * Entry \in Nat /\ h.n * Entry \in Nat
  BY EntryFacts
<1> PICK x \in Nat : x = i * Entry
  BY <1>3
<1> PICK y \in Nat : y = h.n * Entry
  BY <1>3
<1> PICK d : d = size - h.off
  OBVIOUS
<1>4. d \in Nat /\ x <= d /\ left = d - x
  BY <1>3
<1>5. CASE (size - h.off) % Entry = 0
  <2>1. (d - x) % Entry = 0
    BY <1>4, <1>5, RestOfTable
  <2> QED
    BY <1>2, <1>4, <2>1
<1>6. CASE \A j \in 0..(h.n - 1) : j * SymbolsInBuf < h.n =>
             h.off + (j + 1) * SymbolsInBuf * Entry <= size
  <2>1. PICK j \in Nat : i = j * SymbolsInBuf
    BY DEF Buffered
  <2>2. (j + 1) * SymbolsInBuf = i + SymbolsInBuf
    <3>1. (j + 1) * SymbolsInBuf = j * SymbolsInBuf + SymbolsInBuf
      BY <1>1, SMTT(30)
    <3> QED
      BY <2>1, <3>1
  <2>3. j <= i
    <3>1. 1 * j <= SymbolsInBuf * j
      BY <1>1, Product
    <3>2. SymbolsInBuf * j = j * SymbolsInBuf /\ 1 * j = j
      BY <1>1, SMTT(30)
    <3> QED
      BY <2>1, <3>1, <3>2
  <2>4. j \in 0..(h.n - 1)
    BY <2>3
  <2>5. h.off + (i + SymbolsInBuf) * Entry <= size
    BY <1>6, <2>1, <2>2, <2>4
  <2>6. (i + SymbolsInBuf) * Entry = i * Entry + SymbolsInBuf * Entry
    BY <1>1, EntryFacts, SMTT(30)
  <2> PICK b \in Nat : b = SymbolsInBuf * Entry
    BY <1>1, EntryFacts
  <2>7. b <= left
    BY <1>4, <2>5, <2>6
  <2> QED
    BY <1>2, <2>7
<1> QED
  BY <1>5, <1>6

\* Reads of whole files end with an entry, or over the end of a table at the
\* end of the file.
LEMMA AnswersRagged ==
  ASSUME ReaderInv, MapInv, Clean, TableInv, Ragged, UNCHANGED maps
  PROVE  Answers'
<1>1. /\ loc \in {"gotHeaders", "gotSymbols"} /\ loc \in Then /\ loc' = "abort"
      /\ rd.len = -1 \/ rd.len % Entry # 0
  BY DEF Ragged, Then
<1>2. ASSUME AllEven
      PROVE  FALSE
  <2>1. CASE loc = "gotHeaders"
    <3>1. PICK n \in Nat : rd.len = n * Entry
      BY <2>1, HeadersRead
    <3>2. rd.len \in Nat /\ rd.len % Entry = 0
      BY <3>1, EntryFacts, Multiple
    <3>3. rd.len # -1
      BY <3>2
    <3> QED
      BY <1>1, <3>2, <3>3
  <2>2. CASE loc = "gotSymbols"
    <3> PICK h : h = section.hdr
      OBVIOUS
    <3>1. Phase = "gotSymbols"
      BY <2>2 DEF Phase
    <3>2. /\ h.off \in Nat /\ h.n \in Nat /\ section.i \in Nat
          /\ F.size \in Nat /\ h.off + h.n * Entry <= F.size /\ Even(F, h)
      BY <1>2, <3>1, TableIs
    <3> PICK i \in Nat : i = section.i
      BY <3>2
    <3>3. /\ i < h.n /\ Buffered(i, h.n)
          /\ Asked(SymbolsInBuf * Entry, F.size - (h.off + i * Entry))
      BY <3>1 DEF TableInv
    <3> PICK left : left = F.size - (h.off + i * Entry)
      OBVIOUS
    <3>4. /\ rd.len \in Nat
          /\ rd.len = IF SymbolsInBuf * Entry <= left THEN SymbolsInBuf * Entry
                      ELSE left
      BY <1>1, <3>3, ReadEnded DEF Clean
    <3>5. rd.len % Entry = 0
      BY <3>2, <3>3, <3>4, EvenRead DEF Even
    <3>6. rd.len # -1
      BY <3>4
    <3> QED
      BY <1>1, <3>5, <3>6
  <2> QED
    BY <1>1, <2>1, <2>2
<1>3. TableInv'
  BY <1>1 DEF TableInv, Phase, InFile, InTables
<1>4. AllEven' <=> AllEven
  BY DEF AllEven
<1> QED
  BY <1>1, <1>2, <1>3, <1>4 DEF Answers

\* The next table, where this one does not have the symbol.
LEMMA AnswersNext ==
  ASSUME ReaderInv, MapInv, Clean, TableInv, InObject,
         Phase \in {"strtab", "symbols", "gotSymbols", "name"},
         \/ /\ section.kind = "SHT_SYMTAB" /\ section' = Table("SHT_DYNSYM")
            /\ loc' = "headers" /\ Missed(F, pc, startAddress)
         \/ /\ section.kind = "SHT_DYNSYM" /\ loc' = "return" /\ answer' = NotFound
            /\ \/ Hits(F, "SHT_DYNSYM", pc, startAddress) = {}
               \/ ~(NameOf(F, "SHT_DYNSYM", pc, startAddress).len < Usable)
               \/ Anything(F, pc, startAddress)
  PROVE  Answers'
<1>1. /\ Phase \in InTables /\ F.elf
      /\ section.kind = "SHT_DYNSYM" => Missed(F, pc, startAddress)
  BY TableIs
<1>2. F' = F /\ UNCHANGED <<pc, maps, startAddress>>
  BY InFileStays
<1>3. CASE section.kind = "SHT_SYMTAB"
  <2>1. /\ section'.i = 0 /\ section'.kind = "SHT_DYNSYM" /\ loc' = "headers"
        /\ Phase' = "headers" /\ Missed(F, pc, startAddress)
    BY <1>3 DEF Table, Phase
  <2>2. Scanned(F, section'.kind, section'.i)
    BY <2>1 DEF Scanned
  <2>3. TableInv'
    BY <1>1, <1>2, <2>1, <2>2 DEF TableInv
  <2> QED
    BY <2>1, <2>3 DEF Answers
<1>4. CASE section.kind # "SHT_SYMTAB"
  <2>1. loc' = "return" /\ answer' = NotFound
    BY <1>4
  <2>2. Names(F, pc, startAddress, NotFound)
    <3>1. CASE Anything(F, pc, startAddress)
      BY <3>1 DEF Anything
    <3>2. CASE ~Anything(F, pc, startAddress)
      BY <1>1, <1>4, <3>2, NotNamed
    <3> QED
      BY <3>1, <3>2
  <2> QED
    BY <1>1, <1>2, <2>1, <2>2, AnswersNamed
<1> QED
  BY <1>3, <1>4

\* The end of a table.
LEMMA AnswersTableEnds ==
  ASSUME ReaderInv, MapInv, Clean, TableInv, TableEnds
  PROVE  Answers'
<1>1. /\ Phase = "symbols" /\ section.i >= section.hdr.n /\ InObject
      /\ \/ /\ section.kind = "SHT_SYMTAB" /\ section' = Table("SHT_DYNSYM")
            /\ loc' = "headers"
         \/ /\ section.kind = "SHT_DYNSYM" /\ loc' = "return"
            /\ answer' = NotFound
  BY ReaderTableEnds DEF TableEnds
<1> PICK h : h = section.hdr
  OBVIOUS
<1>2. /\ section.i \in Nat /\ ObjectFile(F) /\ HeadersOf(F, section.kind) # {}
      /\ h = TableOf(F, section.kind) /\ h \in Header
  BY <1>1, TableIs
<1>3. NoneBefore(F, h, pc, startAddress, section.i)
  BY <1>1 DEF TableInv
<1>4. Hits(F, section.kind, pc, startAddress) = {}
  BY <1>1, <1>2, <1>3, TableHits
<1>5. section.kind = "SHT_SYMTAB" => Missed(F, pc, startAddress)
  BY <1>2, <1>4 DEF Missed
<1> QED
  BY <1>1, <1>4, <1>5, AnswersNext

\* What looks like a symbol behind a table is not that of a tidy file, of which
\* the other table was searched before.
LEMMA BehindIsUntidy ==
  ASSUME NEW f, ObjectFile(f), NEW kind \in Kind, HeadersOf(f, kind) # {},
         NEW h \in Header, h = TableOf(f, kind), NEW p, NEW start,
         NEW i \in Nat, i >= h.n, NoneBefore(f, h, p, start, i),
         Matches(f, h, p, start, i), kind = "SHT_DYNSYM" => Missed(f, p, start)
  PROVE  Anything(f, p, start)
<1> PICK o : o = h.off + i * Entry
  OBVIOUS
<1>1. /\ o \notin Offsets(h) /\ o \in DOMAIN f.symbols
      /\ o \in {x \in DOMAIN f.symbols : x >= h.off /\ (x - h.off) % Entry = 0}
      /\ Covers(f, f.symbols[o], p, start)
  BY BehindTable DEF Matches
<1>2. Hits(f, kind, p, start) = {}
  BY TableHits
<1>3. CASE Hits(f, "SHT_SYMTAB", p, start) = {} /\ HeadersOf(f, "SHT_SYMTAB") # {}
  <2>1. o \notin Offsets(TableOf(f, "SHT_SYMTAB"))
    BY <1>1, <1>3 DEF Hits
  <2>2. ~Tidy(f)
    BY <1>1, <2>1 DEF Tidy
  <2> QED
    BY <1>3, <2>2 DEF Anything, Names
<1>4. CASE kind = "SHT_SYMTAB"
  BY <1>2, <1>3, <1>4
<1>5. CASE kind = "SHT_DYNSYM"
  BY <1>3, <1>5 DEF Missed
<1> QED
  BY <1>4, <1>5 DEF Kind

\* The name that a demangled one is printed for.
LEMMA Demangles ==
  ASSUME NEW name, name.demangled \in Nat, room = Usable, room \in Nat
  PROVE  DemangleInplace(name) <=>
           name.demangled \in 1..(Min({Usable, DemangledBuf}) - 1)
<1>1. DemangledBuf \in Nat
  BY SymbolizeAssumption DEF SymbolizeAssumption
<1> PICK u \in Nat, b \in Nat, d \in Nat : u = room /\ b = DemangledBuf /\ d = name.demangled
  BY <1>1
<1>2. Min({Usable, DemangledBuf}) = IF u <= b THEN u ELSE b
  BY MinOfTwo
<1>3. (d > 0 /\ d < b /\ d < u) <=> d \in 1..((IF u <= b THEN u ELSE b) - 1)
  OBVIOUS
<1> QED
  BY <1>2, <1>3 DEF DemangleInplace

\* The name of the symbol, if it fits.
LEMMA AnswersName ==
  ASSUME ReaderInv, MapInv, Clean, TableInv, GetName
  PROVE  Answers'
<1> PICK name : name = Pick(F.names, NameAt, NoText)
  OBVIOUS
<1> PICK h : h = section.hdr
  OBVIOUS
<1> PICK kind : kind = section.kind
  OBVIOUS
<1> PICK p : p = pc
  OBVIOUS
<1> PICK start : start = startAddress
  OBVIOUS
<1> PICK f : f = F
  OBVIOUS
<1>1. /\ Phase = "name" /\ loc = "name" /\ InObject
      /\ \/ /\ rd.len > name.len /\ loc' = "return"
            /\ answer' = [found |-> TRUE, name |-> name.text,
                          demangled |-> DemangleInplace(name)]
         \/ /\ 0 < rd.len /\ rd.len <= name.len /\ rd.len < room
            /\ loc' = "return"
            /\ answer' = [found |-> TRUE, name |-> Unknown, demangled |-> FALSE]
         \/ /\ rd.len <= name.len
            /\ \/ /\ kind = "SHT_SYMTAB" /\ section' = Table("SHT_DYNSYM")
                  /\ loc' = "headers"
               \/ /\ kind = "SHT_DYNSYM" /\ loc' = "return"
                  /\ answer' = NotFound
  BY ReaderOfName DEF GetName
<1>2. /\ Phase \in InTables /\ F.elf /\ ObjectFile(f) /\ Whole(f)
      /\ kind \in Kind /\ section.i \in Nat /\ f.size \in Nat
      /\ HeadersOf(f, kind) # {} /\ h = TableOf(f, kind) /\ h \in Header
      /\ h.n \in Nat
      /\ \A s \in DOMAIN f.symbols \cap Offsets(h) :
           HeaderOf(f, h.link).off + f.symbols[s].name \in DOMAIN f.names
      /\ kind = "SHT_DYNSYM" => Missed(f, p, start)
  BY <1>1, TableIs
<1> PICK i \in Nat : i = section.i
  BY <1>2
<1>3. /\ section.str = HeaderOf(f, h.link)
      /\ NoneBefore(f, h, p, start, i) /\ Matches(f, h, p, start, i)
      /\ Asked(room, IF NameAt <= f.size THEN f.size - NameAt ELSE 0)
  BY <1>1 DEF TableInv
<1>4. room = Usable /\ room \in Nat
  BY <1>2 DEF ReaderInv, PlaceInv, Types, Usable
<1>5. UNCHANGED <<pc, maps>>
  BY <1>1, InFileStays
<1>6. ASSUME Anything(f, p, start)
      PROVE  Answers'
  <2>1. CASE loc' = "return"
    <3>1. Names(F, pc, startAddress, answer')
      BY <1>6 DEF Anything
    <3> QED
      BY <1>2, <1>5, <2>1, <3>1, AnswersNamed
  <2>2. CASE loc' # "return"
    <3>1. /\ kind = "SHT_SYMTAB" /\ section' = Table("SHT_DYNSYM") /\ loc' = "headers"
      BY <1>1, <2>2
    <3>2. Missed(f, p, start)
      BY <1>2, <1>6, <3>1 DEF Missed
    <3> QED
      BY <1>1, <3>1, <3>2, AnswersNext
  <2> QED
    BY <2>1, <2>2
<1>7. CASE i >= h.n
  BY <1>2, <1>3, <1>6, <1>7, BehindIsUntidy
<1>8. CASE i < h.n
  <2>11. PICK o : o = h.off + i * Entry
    OBVIOUS
  <2>12. PICK at1 : at1 = HeaderOf(f, h.link).off + f.symbols[o].name
    OBVIOUS
  <2>1. /\ Hits(f, kind, p, start) # {} /\ Min(Hits(f, kind, p, start)) = o
        /\ o \in DOMAIN f.symbols \cap Offsets(h)
    BY <1>2, <1>3, <1>8, <2>11, TableHits
  <2>2. NameAt = at1
    BY <1>3, <2>11, <2>12 DEF NameAt, SymbolAt
  <2>3. at1 \in DOMAIN f.names
    BY <1>2, <2>1, <2>12
  <2>4. name = f.names[at1]
    BY <2>2, <2>3 DEF Pick
  <2>5. name = NameOf(f, kind, p, start)
    BY <1>2, <2>1, <2>4, <2>12 DEF NameOf
  <2>6. /\ at1 \in Nat /\ name.len \in Nat /\ name.demangled \in Nat
        /\ at1 + name.len < f.size
    BY <1>2, <2>3, <2>4 DEF ObjectFile, Whole
  <2> PICK len \in Nat : len = rd.len
    BY <1>1, <1>3, ReadEnded DEF Clean, Then
  <2> PICK u \in Nat : u = room
    BY <1>4
  <2> PICK l \in Nat : l = name.len
    BY <2>6
  <2>8. len <= l => len = u /\ ~(l < u)
    <3>1. Asked(u, f.size - at1)
      <4>1. at1 <= f.size
        BY <1>2, <2>6
      <4> QED
        BY <1>3, <2>2, <4>1
    <3>2. len = IF u <= f.size - at1 THEN u ELSE f.size - at1
      BY <1>1, <3>1, ReadEnded DEF Clean, Then
    <3>3. f.size - at1 \in Nat /\ l < f.size - at1
      BY <1>2, <2>6
    <3> PICK r \in Nat : r = f.size - at1
      BY <3>3
    <3>4. len = (IF u <= r THEN u ELSE r) /\ l < r
      BY <3>2, <3>3
    <3> HIDE <3>2
    <3> QED
      BY <3>4
  <2>9. CASE len > l
    <3>1. /\ loc' = "return"
          /\ answer' = [found |-> TRUE, name |-> name.text,
                        demangled |-> DemangleInplace(name)]
      BY <1>1, <2>9
    <3>2. DemangleInplace(name) <=>
            name.demangled \in 1..(Min({Usable, DemangledBuf}) - 1)
      BY <1>4, <2>6, Demangles
    <3>3. DemangleInplace(name) \in BOOLEAN
      BY DEF DemangleInplace
    <3>4. answer' = [found |-> TRUE, name |-> name.text,
                     demangled |-> name.demangled \in
                                     1..(Min({Usable, DemangledBuf}) - 1)]
      <4> DEFINE s == 1..(Min({Usable, DemangledBuf}) - 1)
      <4>1. DemangleInplace(name) <=> name.demangled \in s
        BY <3>2
      <4> HIDE DEF s
      <4>2. DemangleInplace(name) = (name.demangled \in s)
        BY <4>1 DEF DemangleInplace
      <4>3. answer' = [found |-> TRUE, name |-> name.text,
                       demangled |-> name.demangled \in s]
        BY <3>1, <4>2
      <4> QED
        BY <4>3 DEF s
    <3>5. Names(f, p, start, answer')
      <4>1. CASE kind = "SHT_SYMTAB"
        BY <1>2, <2>1, <2>5, <3>4, <4>1 DEF Names
      <4>2. CASE kind = "SHT_DYNSYM"
        <5>1. CASE Anything(f, p, start)
          BY <5>1 DEF Anything
        <5>2. CASE Hits(f, "SHT_SYMTAB", p, start) = {}
          <6>1. HeadersOf(f, "SHT_SYMTAB") # {}
            BY <1>2, <4>2 DEF Missed
          <6>2. answer'.found /\ answer'.name = name.text
            BY <3>4
          <6> QED
            BY <1>2, <2>1, <2>5, <4>2, <5>2, <6>1, <6>2
            DEF Names, IsDynamic
        <5> QED
          BY <1>2, <4>2, <5>1, <5>2 DEF Missed
      <4> QED
        BY <1>2, <4>1, <4>2 DEF Kind
    <3> QED
      BY <1>2, <1>5, <3>1, <3>5, AnswersNamed
  <2>10. CASE len <= l
    <3>1. \/ /\ kind = "SHT_SYMTAB" /\ section' = Table("SHT_DYNSYM")
             /\ loc' = "headers"
          \/ /\ kind = "SHT_DYNSYM" /\ loc' = "return"
             /\ answer' = NotFound
      BY <1>1, <2>8, <2>10
    <3>2. ~(NameOf(f, kind, p, start).len < Usable)
      BY <1>4, <2>5, <2>8, <2>10
    <3>3. kind = "SHT_SYMTAB" => Missed(f, p, start)
      BY <1>2, <2>1, <3>2 DEF Missed, Anything, Names
    <3> QED
      BY <1>1, <3>1, <3>2, <3>3, AnswersNext
  <2> QED
    BY <2>9, <2>10
<1> QED
  BY <1>2, <1>7, <1>8

\* Every step of a call keeps what it looks for.
LEMMA SearchStep ==
  ASSUME ReaderInv, MapInv, SearchInv, SymbolizeNext
  PROVE  SearchInv'
<1> SUFFICES ASSUME Clean'
             PROVE  Answers'
  BY DEF SearchInv
<1>1. Clean /\ errors' = errors /\ UNCHANGED <<pc, maps>>
  BY CleanBefore
<1>2. TableInv
  BY <1>1 DEF SearchInv, Answers
<1>3. CASE ReadSome \/ ReadEnds \/ ReadError
  BY <1>2, <1>3, AnswersReading
<1>4. CASE OpenMaps \/ ReadLine \/ ReadLineRefilled \/ SkipMap
  BY <1>4, AnswersInMaps
<1>5. CASE OpenFails
  <2>1. errors' = errors + 1 /\ errors = 0 /\ errors' = errors
    BY <1>1, <1>5 DEF OpenFails, Clean
  <2> QED
    BY <2>1
<1>6. CASE ReadLineFails
  BY <1>1, <1>6, AnswersNoLine
<1>7. CASE NoObject
  BY <1>1, <1>7, AnswersNoObject
<1>8. CASE OpenObject
  BY <1>8, AnswersOpen
<1>9. CASE NotElf
  BY <1>1, <1>2, <1>9, AnswersNotElf
<1>10. CASE FileGetElfType
  BY <1>10, AnswersElf
<1>11. CASE ReadElfHeader
  BY <1>2, <1>11, AnswersTables
<1>12. CASE ReadHeaders
  BY <1>1, <1>2, <1>12, AnswersHeaders
<1>13. CASE NoSection
  BY <1>1, <1>2, <1>13, AnswersNoSection
<1>14. CASE Ragged
  BY <1>1, <1>2, <1>14, AnswersRagged
<1>15. CASE FindHeader
  BY <1>1, <1>2, <1>15, AnswersHeader
<1>16. CASE GotStrtab
  BY <1>1, <1>2, <1>16, AnswersStrtab
<1>17. CASE ReadSymbols
  BY <1>1, <1>2, <1>17, AnswersSymbols
<1>18. CASE FindSymbol
  BY <1>1, <1>2, <1>18, AnswersSymbol
<1>19. CASE TableEnds
  BY <1>1, <1>2, <1>19, AnswersTableEnds
<1>20. CASE GetName
  BY <1>1, <1>2, <1>20, AnswersName
<1> QED
  BY <1>3, <1>4, <1>5, <1>6, <1>7, <1>8, <1>9, <1>10, <1>11, <1>12, <1>13,
     <1>14, <1>15, <1>16, <1>17, <1>18, <1>19, <1>20 DEF SymbolizeNext

-----------------------------------------------------------------------------
(* The lines of a trace.                                                   *)

\* What is printed with the address p is what is expected there.
Right(p, a) ==
  IF symbolize_stacktrace THEN Clean => Expected(maps, p - 1, a) ELSE ~a.found
PrintInv ==
  \A k \in 1..Len(printed) :
    printed[k].pc = result[k] /\ Right(result[k], printed[k].answer)
TraceSearchInv == TraceInv /\ MapInv /\ SearchInv /\ PrintInv

\* Outside of a call nothing is looked for.
LEMMA NothingOpen ==
  ASSUME loc \in {"idle", "open"}, loc = "open" => lines = <<>>
  PROVE  MapInv /\ SearchInv
<1>1. Phase = loc
  BY DEF Phase
<1>2. Phase \notin InFile /\ loc # "return" /\ loc # "abort"
  BY <1>1 DEF InFile, InTables
<1>3. SearchInv
  BY <1>2, TableOutside DEF SearchInv, Answers
<1>4. loc = "open" => Len(lines) = 0
  OBVIOUS
<1>5. CASE loc = "idle"
  BY <1>1, <1>2, <1>3, <1>5 DEF MapInv, InMap
<1>6. CASE loc = "open"
  BY <1>1, <1>2, <1>3, <1>4, <1>6 DEF MapInv, InMap
<1> QED
  BY <1>3, <1>5, <1>6

\* The same of the next state.
LEMMA NothingOpenNext ==
  ASSUME loc' \in {"idle", "open"}, loc' = "open" => lines' = <<>>
  PROVE  MapInv' /\ SearchInv'
<1>1. Phase' = loc'
  BY DEF Phase
<1>2. Phase' \notin InFile /\ loc' # "return" /\ loc' # "abort"
  BY <1>1 DEF InFile, InTables
<1>3. SearchInv'
  BY <1>2 DEF SearchInv, Answers, TableInv, InFile, InTables
<1>4. loc' = "open" => Len(lines') = 0
  OBVIOUS
<1>5. CASE loc' = "idle"
  BY <1>1, <1>2, <1>3, <1>5 DEF MapInv, InMap
<1>6. CASE loc' = "open"
  BY <1>1, <1>2, <1>3, <1>4, <1>6 DEF MapInv, InMap
<1> QED
  BY <1>3, <1>5, <1>6

\* What was printed stays right.
LEMMA PrintRests ==
  ASSUME PrintInv, Clean' => Clean, UNCHANGED <<frames, maps>>,
         \/ printed' = printed
         \/ /\ Len(printed) \in Nat /\ Len(printed') = Len(printed) + 1
            /\ \A k \in 1..Len(printed) : printed'[k] = printed[k]
            /\ printed'[Len(printed')].pc = result[Len(printed')]
            /\ Right(result[Len(printed')], printed'[Len(printed')].answer)
  PROVE  PrintInv'
<1>1. result' = result /\ symbolize_stacktrace' = symbolize_stacktrace
  BY DEF frames
<1>2. ASSUME NEW p, NEW a, Right(p, a) PROVE Right(p, a)'
  BY <1>1, <1>2 DEF Right
<1>3. CASE printed' = printed
  <2> SUFFICES ASSUME NEW k \in 1..Len(printed)
               PROVE  /\ printed'[k].pc = result'[k]
                      /\ Right(result[k], printed[k].answer)'
    BY <1>3 DEF PrintInv
  <2>1. printed[k].pc = result[k] /\ Right(result[k], printed[k].answer)
    BY DEF PrintInv
  <2> QED
    BY <1>1, <1>3, <2>1 DEF Right
<1>4. CASE printed' # printed
  <2> PICK n \in Nat : n = Len(printed)
    BY <1>4
  <2> PICK new, found : new = printed' /\ found = result
    OBVIOUS
  <2>1. /\ Len(new) = n + 1
        /\ \A k \in 1..n : new[k] = printed[k]
        /\ new[n + 1].pc = found[n + 1]
        /\ Right(found[n + 1], new[n + 1].answer)
    BY <1>4
  <2>2. ASSUME NEW k \in 1..(n + 1)
        PROVE  new[k].pc = found[k] /\ Right(found[k], new[k].answer)
    <3>1. CASE k = n + 1
      BY <2>1, <3>1
    <3>2. CASE k \in 1..n
      BY <2>1, <3>2 DEF PrintInv
    <3> QED
      BY <3>1, <3>2
  <2>3. ASSUME NEW k \in 1..Len(printed')
        PROVE  /\ printed'[k].pc = result'[k]
               /\ Right(result[k], printed[k].answer)'
    <3>1. new[k].pc = found[k] /\ Right(found[k], new[k].answer)
      BY <2>1, <2>2
    <3> QED
      BY <1>1, <3>1 DEF Right
  <2> QED
    BY <2>3 DEF PrintInv
<1> QED
  BY <1>3, <1>4

\* A run begins with nothing looked for or printed.
LEMMA TraceSearchStarts ==
  ASSUME Init
  PROVE  TraceSearchInv
<1>1. TraceInv
  BY TraceStarts
<1>2. loc = "idle" /\ printed = <<>>
  BY DEF Init, SymbolizeInit
<1>3. MapInv /\ SearchInv
  BY <1>2, NothingOpen
<1>4. PrintInv
  BY <1>2 DEF PrintInv
<1> QED
  BY <1>1, <1>3, <1>4 DEF TraceSearchInv

\* Nothing changes for a call, nor for what was printed.
LEMMA SearchRests ==
  ASSUME MapInv, SearchInv, UNCHANGED vars
  PROVE  MapInv' /\ SearchInv' /\ (Clean' <=> Clean) /\ maps' = maps
<1>1. /\ UNCHANGED <<loc, pc, room, maps, object, rd, bol, eol, eod, lines>>
      /\ UNCHANGED <<startAddress, section, answer, errors>>
  BY DEF vars, input, reader
<1>2. Phase' = Phase /\ F' = F
  BY <1>1 DEF Phase, F
<1>3. MapInv'
  BY <1>1, <1>2 DEF MapInv
<1>4. Clean' <=> Clean
  BY <1>1 DEF Clean, AllWhole
<1>5. TableInv' <=> TableInv
  <2>1. NameAt' = NameAt
    BY <1>1, <1>2 DEF NameAt, SymbolAt
  <2> QED
    BY <1>1, <1>2, <2>1 DEF TableInv, Asked
<1>6. SearchInv'
  BY <1>1, <1>4, <1>5 DEF SearchInv, Answers, AllEven
<1> QED
  BY <1>1, <1>3, <1>4, <1>6

\* Every step of a run keeps what is looked for and what was printed.
LEMMA TraceSearchStep ==
  ASSUME TraceSearchInv, [Next]_allVars
  PROVE  TraceSearchInv'
<1>1. TraceInv /\ MapInv /\ SearchInv /\ PrintInv /\ TraceInv'
  BY TraceStep DEF TraceSearchInv
<1>2. ReaderInv /\ FrameTypes /\ CallInv
  BY <1>1 DEF TraceInv
<1>3. CASE GetStackTrace
  <2>1. printed' = <<>>
    BY <1>1, <1>3 DEF TraceInv, FrameInv, GetStackTrace
  <2>2. MapInv' /\ SearchInv'
    BY <1>1, <1>3, SearchRests DEF GetStackTrace
  <2>3. PrintInv'
    BY <2>1 DEF PrintInv
  <2> QED
    BY <1>1, <2>2, <2>3 DEF TraceSearchInv
<1>4. CASE GetStackTraceEnds \/ DumpStackTraceEnds
  <2>1. UNCHANGED <<vars, frames, printed>>
    BY <1>4 DEF GetStackTraceEnds, DumpStackTraceEnds
  <2>2. MapInv' /\ SearchInv' /\ (Clean' <=> Clean) /\ maps' = maps
    BY <1>1, <2>1, SearchRests
  <2>3. PrintInv'
    BY <1>1, <2>1, <2>2, PrintRests
  <2> QED
    BY <1>1, <2>2, <2>3 DEF TraceSearchInv
<1>5. CASE DumpPC
  <2>1. /\ ~symbolize_stacktrace
        /\ printed' = Append(printed, [pc |-> NextPC, answer |-> NotFound])
        /\ UNCHANGED <<vars, frames>>
    BY <1>5 DEF DumpPC
  <2>2. MapInv' /\ SearchInv' /\ (Clean' <=> Clean) /\ maps' = maps
    BY <1>1, <2>1, SearchRests
  <2>3. /\ Len(printed) \in Nat /\ Len(printed') = Len(printed) + 1
        /\ printed'[Len(printed) + 1] = [pc |-> NextPC, answer |-> NotFound]
        /\ \A k \in 1..Len(printed) : printed'[k] = printed[k]
    BY <1>2, <2>1, PrintedMore
  <2>4. /\ printed'[Len(printed')].pc = result[Len(printed')]
        /\ ~printed'[Len(printed')].answer.found
    BY <2>3 DEF NextPC, NotFound
  <2>5. Right(result[Len(printed')], printed'[Len(printed')].answer)
    BY <2>1, <2>4 DEF Right
  <2>6. PrintInv'
    BY <1>1, <2>1, <2>2, <2>3, <2>4, <2>5, PrintRests
  <2> QED
    BY <1>1, <2>2, <2>6 DEF TraceSearchInv
<1>6. CASE CallSymbolize
  <2>1. /\ loc' = "open" /\ lines' = <<>>
        /\ UNCHANGED <<maps, errors, frames, printed>>
    BY <1>6 DEF CallSymbolize
  <2>2. MapInv' /\ SearchInv'
    BY <2>1, NothingOpenNext
  <2>3. Clean' <=> Clean
    BY <2>1 DEF Clean, AllWhole
  <2>4. PrintInv'
    BY <1>1, <2>1, <2>3, PrintRests
  <2> QED
    BY <1>1, <2>2, <2>4 DEF TraceSearchInv
<1>7. CASE Symbolizing
  <2>1. SymbolizeNext /\ UNCHANGED <<frames, printed>>
    BY <1>7 DEF Symbolizing
  <2>2. MapInv' /\ SearchInv' /\ maps' = maps
    BY <1>1, <1>2, <2>1, MapStep, SearchStep, InputStays
  <2>3. Clean' => Clean
    BY <1>2, <2>1, CleanBefore
  <2>4. PrintInv'
    BY <1>1, <2>1, <2>2, <2>3, PrintRests
  <2> QED
    BY <1>1, <2>2, <2>4 DEF TraceSearchInv
<1>8. CASE DumpPCAndSymbol
  <2>1. /\ at = "DumpPCAndSymbol" /\ loc = "return" /\ loc' = "idle"
        /\ printed' = Append(printed, [pc |-> NextPC, answer |-> answer])
        /\ UNCHANGED <<maps, errors, frames>>
    BY <1>8 DEF DumpPCAndSymbol, input
  <2>2. MapInv' /\ SearchInv'
    BY <2>1, NothingOpenNext
  <2>3. Clean' <=> Clean
    BY <2>1 DEF Clean, AllWhole
  <2>4. /\ Len(printed) \in Nat /\ Len(printed') = Len(printed) + 1
        /\ printed'[Len(printed) + 1] = [pc |-> NextPC, answer |-> answer]
        /\ \A k \in 1..Len(printed) : printed'[k] = printed[k]
    BY <1>2, <2>1, PrintedMore
  <2>5. /\ printed'[Len(printed')].pc = result[Len(printed')]
        /\ printed'[Len(printed')].answer = answer
    BY <2>4 DEF NextPC
  <2>6. symbolize_stacktrace /\ pc = result[Len(printed')] - 1
    BY <1>2, <2>1, <2>4 DEF CallInv, NextPC
  <2>7. Clean => Expected(maps, pc, answer)
    BY <1>1, <2>1 DEF SearchInv, Answers
  <2>8. Right(result[Len(printed')], printed'[Len(printed')].answer)
    BY <2>5, <2>6, <2>7 DEF Right
  <2>9. PrintInv'
    BY <1>1, <2>1, <2>3, <2>4, <2>5, <2>8, PrintRests
  <2> QED
    BY <1>1, <2>2, <2>9 DEF TraceSearchInv
<1>9. CASE UNCHANGED allVars
  <2>1. UNCHANGED <<vars, frames, printed>>
    BY <1>9 DEF allVars
  <2>2. MapInv' /\ SearchInv' /\ (Clean' <=> Clean) /\ maps' = maps
    BY <1>1, <2>1, SearchRests
  <2>3. PrintInv'
    BY <1>1, <2>1, <2>2, PrintRests
  <2> QED
    BY <1>1, <2>2, <2>3 DEF TraceSearchInv
<1> QED
  BY <1>3, <1>4, <1>5, <1>6, <1>7, <1>8, <1>9 DEF Next, Step, Stop

\* The steps of a run: what the following theorems rest on.
LEMMA TraceSearchAlways == Spec => []TraceSearchInv
<1>1. TraceSearchInv /\ [Next]_allVars => TraceSearchInv'
  BY TraceSearchStep
<1>2. Init => TraceSearchInv
  BY TraceSearchStarts
<1> QED
  BY <1>1, <1>2, PTL DEF Spec

\* Unless a call failed or a file was cut short, each line of a trace names the
\* function that its call was made from: what is found through the maps, the
\* section headers and the symbol tables, read piece by piece, is what the files
\* say as a whole.  Of a file without SHT_SYMTAB it says only that no other
\* function is named than the dynamic table's.
THEOREM CallersAreNamed == Spec => []NamesTheCaller
<1>1. TraceSearchInv => NamesTheCaller
  <2> SUFFICES ASSUME TraceSearchInv, Clean, NEW k \in DOMAIN printed
               PROVE  /\ printed[k].pc = result[k]
                      /\ IF symbolize_stacktrace
                         THEN Expected(maps, result[k] - 1, printed[k].answer)
                         ELSE ~printed[k].answer.found
    BY DEF NamesTheCaller, Clean
  <2>1. \E S : printed \in Seq(S)
    BY DEF TraceSearchInv, TraceInv, FrameTypes
  <2>2. k \in 1..Len(printed)
    BY <2>1, LenProperties
  <2> QED
    BY <2>2 DEF TraceSearchInv, PrintInv, Right
<1> QED
  BY <1>1, TraceSearchAlways, PTL

\* The assertions of symbolize.cc do not end a program that prints the trace of
\* whole files, however its reads are cut: one of them must have failed, or one
\* over the end of a table met the end of the file within an entry.
THEOREM AbortsHaveAReason == Spec => []AbortsForAReason
<1>1. TraceSearchInv => AbortsForAReason
  <2> SUFFICES ASSUME TraceSearchInv, loc = "abort", AllWhole, AllEven
               PROVE  errors > 0
    BY DEF AbortsForAReason
  <2>1. errors \in Nat
    BY SymbolizeAssumption
    DEF TraceSearchInv, TraceInv, ReaderInv, Types, SymbolizeAssumption
  <2>2. errors # 0
    BY DEF TraceSearchInv, SearchInv, Answers, Clean
  <2> QED
    BY <2>1, <2>2
<1> QED
  BY <1>1, TraceSearchAlways, PTL
=============================================================================
