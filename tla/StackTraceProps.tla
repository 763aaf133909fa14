-------------------------- MODULE StackTraceProps ---------------------------
(***************************************************************************)
(* What is expected of a stack trace, compared with the stack, the maps    *)
(* and the symbol tables themselves rather than with how they are read.    *)
(***************************************************************************)
EXTENDS StackTrace

\* "The map containing the pc" (symbolize.cc:502): the object file of the first
\* executable map of m that holds p, unless a line before it fills the buffer.
MapsOf(m, p) == {k \in DOMAIN m : m[k].start <= p /\ p < m[k].end /\ m[k].rx}
MapOf(m, p) == m[Min(MapsOf(m, p))]
HasObject(m, p) ==
  /\ MapsOf(m, p) # {}
  /\ \A k \in 1..Min(MapsOf(m, p)) : EndOf(m, k) - EndOf(m, k - 1) <= LineBuf
  /\ MapOf(m, p).path # NoFile
  /\ File[MapOf(m, p).path].elf

\* The tables of a file: its first section header of the kind, the symbols of
\* the table that cover p, and the name of the first of them.
HeadersOf(f, kind) ==
  {k \in 0..(f.shnum - 1) : Pick(f.headers, f.shoff + k * Entry, NoHeader).type = kind}
HeaderOf(f, k) == f.headers[f.shoff + k * Entry]
TableOf(f, kind) == HeaderOf(f, Min(HeadersOf(f, kind)))
Offsets(h) == {h.off + k * Entry : k \in 0..(h.n - 1)}
Hits(f, kind, p, start) ==
  {o \in DOMAIN f.symbols \cap Offsets(TableOf(f, kind)) :
     Covers(f, f.symbols[o], p, start)}
NameOf(f, kind, p, start) ==
  LET o == Min(Hits(f, kind, p, start)) IN
  f.names[HeaderOf(f, TableOf(f, kind).link).off + f.symbols[o].name]

\* A file that was not cut short: what it refers to is there and does not lie
\* behind its end.
Whole(f) ==
  /\ f.shoff + f.shnum * Entry <= f.size
  /\ \A o \in DOMAIN f.headers :
       LET h == f.headers[o] IN
       h.type \in Kind =>
         /\ h.off + h.n * Entry <= f.size
         /\ h.link < f.shnum /\ f.shoff + h.link * Entry \in DOMAIN f.headers
         /\ \A s \in DOMAIN f.symbols \cap Offsets(h) :
              HeaderOf(f, h.link).off + f.symbols[s].name \in DOMAIN f.names
  /\ \A o \in DOMAIN f.names : o + f.names[o].len < f.size
AllWhole == \A k \in DOMAIN maps : maps[k].path # NoFile => Whole(File[maps[k].path])

\* No read of a buffer of symbols meets the end of the file within an entry:
\* the table goes into the file's rest without remainder, or all the buffers
\* that are read of it end before the file does.
EvenEnd(f) ==
  \A o \in DOMAIN f.headers :
    LET h == f.headers[o] IN
    h.type \in Kind =>
      \/ (f.size - h.off) % Entry = 0
      \/ \A j \in 0..(h.n - 1) : j * SymbolsInBuf < h.n =>
           h.off + (j + 1) * SymbolsInBuf * Entry <= f.size
AllEven == \A k \in DOMAIN maps : maps[k].path # NoFile => EvenEnd(File[maps[k].path])

\* No bytes behind a symbol table look like a symbol, but for those of the
\* other table that was searched before.
Tidy(f) ==
  \A kind \in Kind :
    HeadersOf(f, kind) # {} =>
      LET h == TableOf(f, kind) IN
      {o \in DOMAIN f.symbols : o >= h.off /\ (o - h.off) % Entry = 0}
        \subseteq Offsets(h) \cup Offsets(TableOf(f, "SHT_SYMTAB"))

\* Whether an answer is the function that p is in by the tables of f, which
\* was loaded at start; of a name that does not fit the buffer nothing is said.
\* Of a file without SHT_SYMTAB no more is said than that an answer is not a
\* wrong one.  "If the symbol isn't found in the regular symbol table (binary is
\* stripped), try the same thing with a dynamic symbol table" (symbolize.h:46-47)
\* is not true of it: the function returns before (symbolize.cc:330-333).
Usable == Room - Callback
IsDynamic(f, p, start) ==
  HeadersOf(f, "SHT_DYNSYM") # {} /\ Hits(f, "SHT_DYNSYM", p, start) # {}
Names(f, p, start, a) ==
  /\ HeadersOf(f, "SHT_SYMTAB") = {} /\ a.found =>
       IsDynamic(f, p, start) /\ a.name = NameOf(f, "SHT_DYNSYM", p, start).text
  /\ HeadersOf(f, "SHT_SYMTAB") # {} =>
       IF Hits(f, "SHT_SYMTAB", p, start) # {}
       THEN LET n == NameOf(f, "SHT_SYMTAB", p, start) IN
            n.len < Usable =>
              a = [found |-> TRUE, name |-> n.text,
                   demangled |-> n.demangled \in
                                   1..(Min({Usable, DemangledBuf}) - 1)]
       ELSE Tidy(f) =>
         IF IsDynamic(f, p, start)
         THEN LET n == NameOf(f, "SHT_DYNSYM", p, start) IN
              n.len < Usable => a.found /\ a.name = n.text
         ELSE ~a.found
Expected(m, p, a) ==
  IF HasObject(m, p)
  THEN Names(File[MapOf(m, p).path], p, MapOf(m, p).start, a)
  ELSE ~a.found

\* A trace names, frame by frame, the function that the call was made from:
\* however the reads of the maps, the headers, the tables and the names were
\* cut, the answer is the one that the files themselves give.
NamesTheCaller ==
  errors = 0 /\ AllWhole =>
    \A k \in DOMAIN printed :
      /\ printed[k].pc = result[k]
      /\ IF symbolize_stacktrace
         THEN Expected(maps, result[k] - 1, printed[k].answer)
         ELSE ~printed[k].answer.found

\* GetStackTrace finds the callers in their order, and neither its own frames
\* nor anything behind the outermost one (stacktrace.h:42-56).
CallersInOrder ==
  at # "GetStackTrace" =>
    result = SubSeq(stack.calls, SkipCount + 2,
                    Min({Len(stack.calls), SkipCount + 1 + MaxDepth}))

\* ReadLine gives the lines of the file, each one whole and in their order,
\* wherever the buffer's end and the ends of the reads fall
\* (symbolize.cc:389-431).
LinesInOrder ==
  \A k \in DOMAIN lines :
    lines[k] = <<EndOf(maps, k - 1), EndOf(maps, k) - 1>>

\* A trace of whole files is printed to its end: the assertions of
\* symbolize.cc:196 and 285 end the program only if a read failed (what the
\* comments there expect, "if len = -1") or, which they do not say, if one that
\* goes on over the end of a table met the end of the file within an entry.
AbortsForAReason == loc = "abort" => errors > 0 \/ ~AllWhole \/ ~AllEven

\* A failing program gets its trace and ends, whatever is read of whole files.
TraceEnds == AllWhole ~> Ended
=============================================================================
