----------------------------- MODULE Symbolize ------------------------------
(***************************************************************************)
(* From a program counter to the name of its function (symbolize.cc): the  *)
(* map of /proc/self/maps that holds it, read line by line through a small *)
(* buffer; the section headers and the symbol tables of the object file,   *)
(* read a buffer at a time; the name.  A step is one system call, or the   *)
(* work between two of them.  read() may return less than was asked for,   *)
(* and may fail; one that is interrupted is made again (NO_INTR), which    *)
(* changes nothing.                                                        *)
(*                                                                         *)
(* Sizes and offsets are in bytes, but a header or a symbol has only Entry *)
(* of them.  What the bytes of a file say is given by functions of their   *)
(* offset: the code reads tables and whatever lies behind them alike.      *)
(***************************************************************************)
EXTENDS Integers, Sequences, FiniteSets, FiniteSetsExt

CONSTANTS
  Maps,         \* what /proc/self/maps may hold: sequences of lines
  File,         \* the object files, by their path
  Entry,        \* sizeof(Ehdr), sizeof(Shdr) and sizeof(Sym)
  HeadersInBuf, \* 16 in the code
  SymbolsInBuf, \* 32 in the code
  LineBuf,      \* 1024 in the code
  DemangledBuf, \* 256 in the code
  Callback,     \* what g_symbolize_callback writes; 0 if there is none
  MaxErrors,    \* how many calls of open or read fail
  NoFile,       \* a map without a name, or with one of no file
  Unknown       \* no name; a symbol's name that runs into old bytes

\* A line of /proc/self/maps, and the offset to which it goes with its newline;
\* the next line begins there.
Line == [start : Nat, end : Nat, rx : BOOLEAN, path : DOMAIN File \cup {NoFile},
         to : Nat]
EndOf(m, k) == IF k = 0 THEN 0 ELSE m[k].to

Kind == {"SHT_SYMTAB", "SHT_DYNSYM"}
SectionType == Kind \cup {"SHT_STRTAB", "other"}

\* An object file: whether it can be opened and is ELF, a shared object, its
\* length, where the section headers are and how many; and by their offsets
\* the section headers (sh_type, sh_offset, sh_size / sh_entsize, sh_link),
\* the symbols (st_value, st_size, st_name; the defined ones) and the names.
ObjectFile(f) ==
  /\ {f.size, f.shoff, f.shnum} \subseteq Nat /\ {f.elf, f.dyn} \subseteq BOOLEAN
  /\ DOMAIN f.headers \cup DOMAIN f.symbols \cup DOMAIN f.names \subseteq Nat
  /\ \A o \in DOMAIN f.headers :
       f.headers[o] \in [type : SectionType, off : Nat, n : Nat, link : Nat]
  /\ \A o \in DOMAIN f.symbols :
       f.symbols[o] \in [value : Nat, size : Nat, name : Nat]
  /\ \A o \in DOMAIN f.names : {f.names[o].len, f.names[o].demangled} \subseteq Nat
Pick(S, o, none) == IF o \in DOMAIN S THEN S[o] ELSE none
NoHeader == [type |-> "other", off |-> 0, n |-> 0, link |-> 0]
NoText == [text |-> Unknown, len |-> 0, demangled |-> 0]

ASSUME SymbolizeAssumption ==
          /\ {Entry, HeadersInBuf, SymbolsInBuf, LineBuf, DemangledBuf}
               \subseteq Nat \ {0}
          /\ \A m \in Maps : /\ m \in Seq(Line)
                             /\ \A k \in 1..Len(m) : EndOf(m, k - 1) < EndOf(m, k)
          /\ \A path \in DOMAIN File : ObjectFile(File[path])
          /\ {Callback, MaxErrors} \subseteq Nat
          /\ NoFile \notin DOMAIN File

VARIABLES
  loc,       \* where the call of Symbolize is
  pc,        \* its argument
  room,      \* out_size
  maps,      \* the contents of /proc/self/maps
  object,    \* the object file that is open
  rd,        \* the read in progress; len is what the last one returned
  bol, eol, eod, \* the LineReader's pointers, as offsets in maps
  startAddress,
  section,   \* the table that is searched: its type, its header, the index i,
             \* and the header of its strings
  answer,    \* what Symbolize returns and writes
  errors,    \* how many calls failed
  lines      \* history: the lines that ReadLine returned

reader == <<bol, eol, eod, lines>>
input == <<pc, room, maps>>
vars == <<loc, input, object, rd, reader, startAddress, section, answer,
          errors>>

NoRead == [want |-> 0, left |-> 0, got |-> 0, len |-> 0, then |-> "idle"]
Table(kind) == [kind |-> kind, hdr |-> NoHeader, str |-> NoHeader, i |-> 0]
NotFound == [found |-> FALSE, name |-> Unknown, demangled |-> FALSE]

\* read() gives at most what is asked for, the line pointers keep their order
\* and nothing is searched behind what was read.
SymbolizeTypeOK ==
  /\ object \in DOMAIN File \cup {NoFile}
  /\ rd.got <= rd.want /\ rd.len \in -1..rd.want
  /\ bol <= eol + 1 /\ eol <= eod /\ eod - bol <= LineBuf
  /\ section.kind \in Kind
  /\ errors \in 0..MaxErrors
  /\ answer.found \in BOOLEAN /\ answer.demangled \in BOOLEAN

SymbolizeInit ==
  /\ loc = "idle" /\ pc = 0 /\ room = 0 /\ maps \in Maps /\ object = NoFile
  /\ rd = NoRead /\ bol = 0 /\ eol = 0 /\ eod = 0 /\ lines = <<>>
  /\ startAddress = 0 /\ section = Table("SHT_SYMTAB")
  /\ answer = NotFound /\ errors = 0

F == File[object]
Fail == loc' = "return" /\ answer' = NotFound
-----------------------------------------------------------------------------
(* ReadPersistent: read until everything is there or the file ends.        *)

\* Start to read count bytes of which the file has left; go on at label.
Read(count, left, label) ==
  /\ rd' = [want |-> count, left |-> Max({left, 0}), got |-> 0, len |-> 0,
            then |-> label]
  /\ loc' = "read"

\* ReadFromOffset: lseek, and a read from there.
ReadFromOffset(offset, count, label) == Read(count, F.size - offset, label)

Reading == loc = "read" /\ UNCHANGED <<input, object, reader, startAddress,
                                       section, answer>>

ReadSome ==
  /\ Reading
  /\ \E k \in 1..Min({rd.want - rd.got, rd.left}) :
       rd' = [rd EXCEPT !.got = @ + k, !.left = @ - k]
  /\ UNCHANGED <<loc, errors>>

\* Mutant: what the first read returned is taken for everything.
ReadOnce ==
  /\ Reading /\ (rd.got > 0 \/ rd.want = 0 \/ rd.left = 0)
  /\ rd' = [rd EXCEPT !.len = rd.got]
  /\ loc' = rd.then
  /\ UNCHANGED errors

ReadEnds ==
  /\ Reading /\ (rd.got = rd.want \/ rd.left = 0)
  /\ rd' = [rd EXCEPT !.len = rd.got]
  /\ loc' = rd.then
  /\ UNCHANGED errors

ReadError ==
  /\ Reading /\ rd.got < rd.want /\ errors < MaxErrors
  /\ rd' = [rd EXCEPT !.len = -1]
  /\ loc' = rd.then
  /\ errors' = errors + 1

\* ReadFromOffsetExact succeeded.
Exact == rd.len = Entry
-----------------------------------------------------------------------------
(* OpenObjectFileContainingPcAndGetStartAddress, and its LineReader.       *)

InMaps == UNCHANGED <<input, object, startAddress, section, errors>>

OpenMaps ==
  /\ loc = "open"
  /\ loc' = "ReadLine"
  /\ UNCHANGED <<rd, reader, answer>> /\ InMaps

LineFeeds == {EndOf(maps, k) - 1 : k \in DOMAIN maps}
LineFeed(from, to) == {e \in LineFeeds : from <= e /\ e < to}

\* ReadLine returns a line: *eol is overwritten with a NUL.
Returns(from, to) ==
  /\ eol' = Min(LineFeed(from, to))
  /\ lines' = Append(lines, <<from, eol'>>)
  /\ loc' = "line"

\* Mutant: the incomplete line at the end of the buffer is lost.
ForgetsTheRest ==
  LET next == IF eod = 0 THEN 0 ELSE eol + 1 IN
  /\ loc = "ReadLine"
  /\ IF LineFeed(next, eod) # {}
     THEN bol' = next /\ Returns(next, eod) /\ UNCHANGED rd
     ELSE /\ bol' = eod
          /\ Read(LineBuf, EndOf(maps, Len(maps)) - eod, "refilled")
          /\ UNCHANGED <<eol, lines>>
  /\ UNCHANGED <<eod, answer>> /\ InMaps

\* The next line of the buffer, or a read that follows what is left of it.
ReadLine ==
  LET next == IF eod = 0 THEN 0 ELSE eol + 1 IN
  /\ loc = "ReadLine"
  /\ bol' = next
  /\ IF LineFeed(next, eod) # {}
     THEN Returns(next, eod) /\ UNCHANGED rd
     ELSE /\ Read(LineBuf - (eod - next), EndOf(maps, Len(maps)) - eod, "refilled")
          /\ UNCHANGED <<eol, lines>>
  /\ UNCHANGED <<eod, answer>> /\ InMaps

\* The end of the file, an error, or a line longer than the buffer.
ReadLineFails ==
  /\ loc = "refilled"
  /\ rd.len <= 0 \/ LineFeed(bol, eod + rd.len) = {}
  /\ Fail
  /\ UNCHANGED <<rd, reader>> /\ InMaps

ReadLineRefilled ==
  /\ loc = "refilled"
  /\ rd.len > 0 /\ LineFeed(bol, eod + rd.len) # {}
  /\ eod' = eod + rd.len
  /\ Returns(bol, eod')
  /\ UNCHANGED <<rd, bol, answer>> /\ InMaps

\* The line between bol and eol; a part of one is malformed.
Parsed == {k \in DOMAIN maps : EndOf(maps, k - 1) = bol /\ EndOf(maps, k) = eol + 1}
L == maps[Min(Parsed)]

Holds(l) == l.start <= pc /\ pc < l.end /\ l.rx

SkipMap ==
  /\ loc = "line"
  /\ Parsed # {} /\ ~Holds(L)
  /\ startAddress' = L.start
  /\ loc' = "ReadLine"
  /\ UNCHANGED <<input, object, rd, reader, section, answer, errors>>

\* Either open may fail for any reason.
OpenFails ==
  /\ \/ loc = "open"
     \/ loc = "line" /\ Parsed # {} /\ Holds(L) /\ L.path # NoFile
  /\ errors < MaxErrors
  /\ errors' = errors + 1
  /\ Fail
  /\ UNCHANGED <<input, object, rd, reader, startAddress, section>>

NoObject ==
  /\ loc = "line"
  /\ Parsed = {} \/ (Holds(L) /\ L.path = NoFile)
  /\ Fail
  /\ UNCHANGED <<rd, reader>> /\ InMaps

OpenObject ==
  /\ loc = "line"
  /\ Parsed # {} /\ Holds(L) /\ L.path # NoFile
  /\ startAddress' = L.start
  /\ object' = L.path
  /\ rd' = [want |-> Entry, left |-> File[L.path].size, got |-> 0, len |-> 0,
            then |-> "FileGetElfType"]
  /\ loc' = "read"
  /\ UNCHANGED <<input, reader, section, answer, errors>>
-----------------------------------------------------------------------------
(* GetSymbolFromObjectFile.                                                *)

InObject == UNCHANGED <<input, object, reader, startAddress, errors>>

\* No object file: too short, or without the ELF magic.
NotElf ==
  /\ loc \in {"FileGetElfType", "ehdr"}
  /\ ~Exact \/ ~F.elf
  /\ Fail
  /\ UNCHANGED <<rd, section>> /\ InObject

\* The callback runs, and the ELF header is read a second time.
FileGetElfType ==
  /\ loc = "FileGetElfType"
  /\ Exact /\ F.elf
  /\ room' = room - Callback
  /\ ReadFromOffset(0, Entry, "ehdr")
  /\ UNCHANGED <<pc, maps, object, reader, startAddress, section, answer,
                 errors>>

ReadElfHeader ==
  /\ loc = "ehdr"
  /\ Exact /\ F.elf
  /\ section' = Table("SHT_SYMTAB")
  /\ loc' = "headers"
  /\ UNCHANGED <<rd, answer>> /\ InObject

\* GetSectionHeaderByType reads up to HeadersInBuf headers at a time.
ReadHeaders ==
  /\ loc = "headers" /\ section.i < F.shnum
  /\ ReadFromOffset(F.shoff + section.i * Entry,
                    Min({HeadersInBuf, F.shnum - section.i}) * Entry, "gotHeaders")
  /\ UNCHANGED <<section, answer>> /\ InObject

\* There is no section of the type: no answer.
NoSection ==
  /\ loc = "headers" /\ section.i >= F.shnum
  /\ Fail
  /\ UNCHANGED <<rd, section>> /\ InObject

\* SAFE_ASSERT: a read that failed or did not end with an entry.
Ragged ==
  /\ loc \in {"gotHeaders", "gotSymbols"}
  /\ rd.len = -1 \/ rd.len % Entry # 0
  /\ loc' = "abort"
  /\ UNCHANGED <<rd, section, answer>> /\ InObject

HeaderAt(k) == Pick(F.headers, F.shoff + k * Entry, NoHeader)
OfType(i, n) == {k \in i..(i + n - 1) : HeaderAt(k).type = section.kind}

\* Mutant: the scan does not get past its first buffer.
FindHeaderStays ==
  LET n == rd.len \div Entry
      hits == OfType(section.i, n) IN
  /\ loc = "gotHeaders" /\ rd.len >= 0 /\ rd.len % Entry = 0
  /\ IF hits = {}
     THEN loc' = "headers" /\ UNCHANGED <<section, rd>>
     ELSE LET h == HeaderAt(Min(hits)) IN
          /\ section' = [section EXCEPT !.hdr = h, !.i = 0]
          /\ ReadFromOffset(F.shoff + h.link * Entry, Entry, "strtab")
  /\ UNCHANGED answer /\ InObject

FindHeader ==
  LET n == rd.len \div Entry
      hits == OfType(section.i, n) IN
  /\ loc = "gotHeaders" /\ rd.len >= 0 /\ rd.len % Entry = 0
  /\ IF hits = {}
     THEN /\ section' = [section EXCEPT !.i = @ + n]
          /\ loc' = "headers"
          /\ UNCHANGED rd
     ELSE LET h == HeaderAt(Min(hits)) IN
          /\ section' = [section EXCEPT !.hdr = h, !.i = 0]
          /\ ReadFromOffset(F.shoff + h.link * Entry, Entry, "strtab")
  /\ UNCHANGED answer /\ InObject

\* The header of the table's strings.
GotStrtab ==
  /\ loc = "strtab"
  /\ IF Exact
     THEN /\ section' = [section EXCEPT !.str =
                           Pick(F.headers, F.shoff + section.hdr.link * Entry, NoHeader)]
          /\ loc' = "symbols"
          /\ UNCHANGED answer
     ELSE Fail /\ UNCHANGED section
  /\ UNCHANGED rd /\ InObject

\* FindSymbol reads whole buffers, also over the end of the table.
ReadSymbols ==
  /\ loc = "symbols" /\ section.i < section.hdr.n
  /\ ReadFromOffset(section.hdr.off + section.i * Entry, SymbolsInBuf * Entry,
                    "gotSymbols")
  /\ UNCHANGED <<section, answer>> /\ InObject

\* Where the object file is in memory counts for a shared object only.
Covers(f, s, p, start) ==
  LET from == s.value + (IF f.dyn THEN start ELSE 0)
  IN  from <= p /\ p < from + s.size

SymbolAt(k) == section.hdr.off + k * Entry
\* Mutant: a buffer's last symbol is not looked at.
MatchingButLast(i, n) ==
  {k \in i..(i + n - 2) : /\ SymbolAt(k) \in DOMAIN F.symbols
                          /\ Covers(F, F.symbols[SymbolAt(k)], pc, startAddress)}

Matching(i, n) ==
  {k \in i..(i + n - 1) : /\ SymbolAt(k) \in DOMAIN F.symbols
                          /\ Covers(F, F.symbols[SymbolAt(k)], pc, startAddress)}

FindSymbol ==
  LET n == rd.len \div Entry
      hits == Matching(section.i, n) IN
  /\ loc = "gotSymbols" /\ rd.len >= 0 /\ rd.len % Entry = 0
  /\ IF hits = {}
     THEN /\ section' = [section EXCEPT !.i = @ + n]
          /\ loc' = "symbols"
          /\ UNCHANGED rd
     ELSE /\ section' = [section EXCEPT !.i = Min(hits)]
          /\ ReadFromOffset(section.str.off + F.symbols[SymbolAt(Min(hits))].name,
                            room, "name")
  /\ UNCHANGED answer /\ InObject

\* Not in this table: the dynamic one is next, and then nothing.
NextTable ==
  IF section.kind = "SHT_SYMTAB"
  THEN section' = Table("SHT_DYNSYM") /\ loc' = "headers" /\ UNCHANGED answer
  ELSE Fail /\ UNCHANGED section

TableEnds ==
  /\ loc = "symbols" /\ section.i >= section.hdr.n
  /\ NextTable
  /\ UNCHANGED rd /\ InObject

\* DemangleInplace: the demangled name if it fits the buffers, or the name.
DemangleInplace(name) ==
  name.demangled > 0 /\ name.demangled < DemangledBuf /\ name.demangled < room

\* The bytes of a name were read into out: with its NUL, or out is full; or
\* the file ended, and what was in out before goes on where it did.
GetName ==
  LET at == section.str.off + F.symbols[SymbolAt(section.i)].name
      name == Pick(F.names, at, NoText) IN
  /\ loc = "name"
  /\ \/ /\ rd.len > name.len
        /\ answer' = [found |-> TRUE, name |-> name.text,
                      demangled |-> DemangleInplace(name)]
        /\ loc' = "return" /\ UNCHANGED section
     \/ /\ 0 < rd.len /\ rd.len <= name.len /\ rd.len < room
        /\ answer' = [found |-> TRUE, name |-> Unknown, demangled |-> FALSE]
        /\ loc' = "return" /\ UNCHANGED section
     \/ rd.len <= name.len /\ NextTable
  /\ UNCHANGED rd /\ InObject

SymbolizeNext ==
  \/ ReadSome \/ ReadEnds \/ ReadError
  \/ OpenMaps \/ OpenFails \/ ReadLine \/ ReadLineFails
  \/ ReadLineRefilled \/ SkipMap \/ NoObject \/ OpenObject
  \/ NotElf \/ FileGetElfType \/ ReadElfHeader \/ ReadHeaders \/ NoSection
  \/ Ragged \/ FindHeader \/ GotStrtab \/ ReadSymbols \/ FindSymbol
  \/ TableEnds \/ GetName
=============================================================================
