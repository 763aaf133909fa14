--------------------------- MODULE DemangleProps ---------------------------
(***************************************************************************)
(* What is expected of the demangler, and a reference for it: the names    *)
(* are built from their parts together with the text that each is to be    *)
(* printed as, so the parser and its backtracking have no part in it.      *)
(***************************************************************************)
EXTENDS Demangle, TLC

CONSTANTS Id,      \* identifiers
          Unknown  \* the text of a name that the reference does not make

P(mangled, text) == [m |-> mangled, t |-> text]

\* Parts in a row; the text of all of them.
Then(a, b) == P(a.m \o b.m, a.t \o b.t)
Scoped(a, b) == P(a.m \o b.m, a.t \o "::" \o b.t)

Source == {P(ToString(Len(i)) \o i, i) : i \in Id}
Anonymous == {P("12_GLOBAL__N_1", "(anonymous namespace)")}
Std == {P("St", "std"), P("Ss", "std::string"), P("S_", "?"), P("S1_", "?")}
Operator ==
  {P("pl", "operator+"), P("nw", "operator new"), P("ix", "operator[]"),
   P("cvi", "operator int"), P("lt", "operator<"), P("v13ext", "ext")}

\* The types of parameters and template arguments are not printed.
Type ==
  {"i", "Pc", "RKi", "3Foo", "St6vector", "Ss", "FviE", "A3_i", "A_c", "M3Fooi",
   "N3Foo3BarE", "3FooIiE", "T_", "T0_", "DpT_", "DTplT_T0_E", "U3extPi",
   "u3ext", "NSt3FooIiE3BarE"}
TemplateArg == Type \cup
  {"Li5E", "Lin5E", "Lf3fcE", "L_Z1fvE", "LZ1fvE", "IicE", "IE", "XplT_Li2EE",
   "XstT_E", "XsrT_3FooE", "XsrT_3FooIiEE", "XngT_E", "XquT_T_T_E"}
Args == {P("I" \o a \o "E", "<>") : a \in TemplateArg} \cup {P("IicE", "<>")}

\* Constructors and destructors of a class.
Structor(class) == {P("C1", class.t), P("D0", "~" \o class.t)}

Nested ==
  LET Scope == Source \cup Anonymous \cup Std
      Members == {Scoped(a, b) : a \in Scope, b \in Source \cup Operator}
      Templates == {Then(a, b) : a \in Source, b \in Args}
      Structors(Classes) ==
        UNION {{Scoped(c, d) : d \in Structor(c)} : c \in Classes}
  IN  Members \cup Structors(Source)
        \cup {Scoped(a, b) : a \in Templates, b \in Source}
        \cup {Scoped(s, b) : s \in Source, b \in Templates}
        \cup UNION {{Scoped(Then(c, P("IiE", "<>")), d) : d \in Structor(c)}
                      : c \in Source}
        \cup {Scoped(a, Scoped(b, c)) : a \in Scope, b \in Source, c \in Source}

NestedName ==
  {P("N" \o n.m \o "E", n.t) : n \in Nested}
    \cup {P("N" \o cv \o n.m \o "1gE", n.t \o "::g") :
            n \in Source, cv \in {"K", "VK", "r"}}

UnscopedName ==
  Source \cup Anonymous \cup Operator
    \cup {P("St" \o n.m, "std::" \o n.t) : n \in Source}
    \cup {P("L" \o n.m, n.t) : n \in Source}

GlobalName ==
  NestedName \cup UnscopedName
    \cup {Then(n, a) : n \in Source, a \in Args}
    \cup {Then(P("S_", "?"), P("IiE", "<>"))}

Function(Names) == {P(n.m \o "i3Foo", n.t \o "()") : n \in Names}

LocalName ==
  {P("Z" \o f.m \o "E" \o n.m \o d, f.t \o "::" \o n.t) :
     f \in Function(Source), n \in Source, d \in {"", "_0"}}
  \cup {P("Z" \o f.m \o "Es" \o d, f.t) : f \in Function(Source), d \in {"", "_0"}}

SpecialName ==
  UNION {{P("TV" \o n.m, n.t), P("TI" \o n.m, n.t), P("GV" \o n.m, n.t),
          P("GR" \o n.m, n.t), P("TC" \o n.m \o "0_1B", n.t),
          P("TJ" \o n.m, n.t)} : n \in Source \cup {P("N3Foo1fE", "Foo::f")}}
  \cup UNION {{P("Thn4_" \o f.m, f.t), P("Tv0_n4_" \o f.m, f.t),
               P("Tch0_h4_" \o f.m, f.t), P("Tchn4_v4_n8_" \o f.m, f.t),
               P("GA" \o f.m, f.t)} : f \in Function(Source)}

Encoding ==
  GlobalName \cup Function(NestedName \cup UnscopedName) \cup LocalName
    \cup SpecialName \cup {P("1f" \o ty, "f()") : ty \in Type \cup {"v"}}

\* What a symbol table holds, with the suffixes that compilers append.
Reference ==
  {P("_Z" \o e.m, e.t) : e \in Encoding}
    \cup {P("_Z" \o f.m \o suffix, f.t) :
            f \in Function(Source), suffix \in {".clone.1", ".isra.0.part.1"}}
    \cup {P("_Z" \o n.m \o "@@V1", n.t \o "@@V1") : n \in Source}
-----------------------------------------------------------------------------
Answered == result # Pending

\* A name that a compiler made of its parts is recognised whole, and printed
\* as those parts (demangle.h:40-62): the order of the alternatives and the
\* backtracking never take it for another one.
PrintsItsParts ==
  Answered /\ call.text # Unknown => wide.ok /\ CString(wide.buf) = call.text

\* "Each parsing function changes the state and returns true on success.
\* Otherwise, don't change the state and returns false" (demangle.cc:456-462):
\* whatever follows, no function but these three leaves a trace of a failure.
RestoresOnFailure ==
  Answered => wide.leaks \subseteq {"Number", "NVOffset", "MangledName"}

\* Nothing is written behind the end of the buffer, its last byte included
\* (demangle.cc:265-282).
StaysInBuffer == Answered => Len(result.buf) <= call.size

\* The text of an attempt that was given up is never part of the answer: the
\* string ends where the cursor of the output is, although a restore moves
\* the cursor back and leaves the text (demangle.cc:154, 489).
NoStaleText ==
  Answered /\ result.ok /\ result.buf # "" =>
    Len(CString(result.buf)) = result.out

\* A small buffer changes whether there is an answer and never the answer;
\* room for the name and for one "::" more is always enough.
SizeDecidesNothingElse ==
  Answered =>
    /\ result.ok => wide.ok /\ CString(result.buf) = CString(wide.buf)
    /\ wide.ok /\ call.size >= Len(CString(wide.buf)) + 3 => result.ok
=============================================================================
