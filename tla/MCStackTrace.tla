---------------------------- MODULE MCStackTrace ----------------------------
(***************************************************************************)
(* Instances of StackTrace for TLC: a few bytes for each header, table and *)
(* name, and buffers that hold less than the files do.                     *)
(***************************************************************************)
EXTENDS StackTraceProps, TLC

H(type, off, n, link) == [type |-> type, off |-> off, n |-> n, link |-> link]
S(value, size, name) == [value |-> value, size |-> size, name |-> name]
N(text, len, demangled) == [text |-> text, len |-> len, demangled |-> demangled]

\* Two bytes an entry: the ELF header, four section headers, a symbol table
\* of three symbols, a dynamic one of one, and the names.  The last name is
\* too long for the caller's buffer.
NameTable == 18 :> N("main", 1, 0) @@ 20 :> N("f", 1, 2) @@ 22 :> N("g", 2, 9)
           @@ 25 :> N("long", 4, 0)
Exe ==
  [elf |-> TRUE, dyn |-> FALSE, size |-> 30, shoff |-> 2, shnum |-> 4,
   headers |-> 4 :> H("SHT_SYMTAB", 12, 3, 2) @@ 6 :> H("SHT_STRTAB", 18, 0, 0)
                 @@ 8 :> H("SHT_DYNSYM", 10, 1, 2),
   symbols |-> 10 :> S(8, 2, 2) @@ 12 :> S(2, 2, 0) @@ 14 :> S(4, 2, 2)
                 @@ 16 :> S(4, 3, 4) @@ 18 :> S(12, 2, 0),
   names |-> NameTable]

\* A shared object without anything behind its tables that looks like a
\* symbol; one whose table of symbols has been stripped; one that ends with a
\* table and a byte more; and ones cut short in the headers, in a table and in
\* the names.
Tidied == [o \in {10, 12, 14, 16} |-> IF o = 16 THEN S(4, 3, 7) ELSE Exe.symbols[o]]
Shared == [Exe EXCEPT !.dyn = TRUE, !.symbols = Tidied]
Stripped == [Shared EXCEPT !.headers =
               4 :> H("other", 12, 3, 2) @@ 6 :> Exe.headers[6] @@ 8 :> Exe.headers[8]]
Odd == [elf |-> TRUE, dyn |-> TRUE, size |-> 25, shoff |-> 2, shnum |-> 2,
        headers |-> 2 :> H("SHT_STRTAB", 12, 0, 0) @@ 4 :> H("SHT_SYMTAB", 18, 3, 0),
        symbols |-> 18 :> S(2, 2, 0) @@ 20 :> S(4, 2, 2) @@ 22 :> S(6, 3, 2),
        names |-> 12 :> N("main", 1, 0) @@ 14 :> N("f", 1, 2)]
ShortHeaders == [Exe EXCEPT !.size = 6, !.shnum = 4]
ShortTable == [Exe EXCEPT !.size = 15]
ShortNames == [Exe EXCEPT !.size = 23]
Script == [Exe EXCEPT !.elf = FALSE]

Files == [exe |-> Exe, shared |-> Shared, stripped |-> Stripped, odd |-> Odd,
          shortHeaders |-> ShortHeaders, shortTable |-> ShortTable,
          shortNames |-> ShortNames, script |-> Script]

M(start, end, rx, path, to) ==
  [start |-> start, end |-> end, rx |-> rx, path |-> path, to |-> to]

\* The program at 1..19, its data, and another file from 20 on; lines that
\* fit the buffer, and one that does not.
MapsWith(path, len) ==
  << M(1, 20, TRUE, "exe", 3), M(1, 20, FALSE, "exe", 5),
     M(20, 40, TRUE, path, 5 + len) >>
AllMaps ==
  {MapsWith(path, 4) : path \in DOMAIN Files \cup {NoFile}}
    \cup {MapsWith("shared", 5), MapsWith("shared", 2)}

\* A stack of the return addresses calls, with the words of last in place of
\* the frame pointer of the outermost frame.
StackOf(calls, last) ==
  [calls |-> calls, pointers |-> [k \in DOMAIN calls |-> 2 * k], top |-> 2,
   frame |-> [a \in {2 * k : k \in DOMAIN calls} |->
                [next |-> IF a = 2 * Len(calls) THEN last ELSE a + 2,
                 ret |-> calls[a \div 2]]]]
\* The outermost frame points to itself and returns to 0.
Closed(calls) ==
  [calls |-> calls, pointers |-> [k \in DOMAIN calls |-> 2 * k], top |-> 2,
   frame |-> [a \in {2 * k : k \in 1..(Len(calls) + 1)} |->
                IF a = 2 * (Len(calls) + 1) THEN [next |-> a, ret |-> 0]
                ELSE [next |-> a + 2, ret |-> calls[a \div 2]]]]
AllStacks ==
  {StackOf(<<4, 4, p>>, last) : p \in {4, 6, 9, 13, 23, 24, 27, 29}, last \in {0, 7, 40}}
    \cup {StackOf(<<4, 4>>, 2), Closed(<<4, 4, 6, 24>>), Closed(<<4, 4, 5, 7, 30, 5>>)}
=============================================================================
