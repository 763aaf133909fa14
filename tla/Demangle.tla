------------------------------ MODULE Demangle ------------------------------
(***************************************************************************)
(* The demangler (demangle.cc): a recursive-descent parser of mangled C++  *)
(* names that backtracks by restoring a copy of its State and writes what  *)
(* it recognises into a bounded buffer.                                    *)
(*                                                                         *)
(* Each parsing function is a rule: a term built from && (All), || (Any),  *)
(* "*state = copy" after a failed && (Saved), Optional, OneOrMore,         *)
(* ZeroOrMore, and the functions that look at a character or write.  Run   *)
(* evaluates a term on a State, in the order in which C++ would.  Where    *)
(* the code leaves its input, the model stops: verdict says so.            *)
(***************************************************************************)
EXTENDS Integers, Sequences

CONSTANTS Input,   \* the calls: [mangled, size], and the text to expect
          Wide     \* a size that no output of these inputs reaches

VARIABLES call,    \* the call to make
          result,  \* how it ended
          wide     \* history: how it ends when there is room for everything

Nul == "#"        \* '\0'; no name holds a '#'
Chars(s) == {SubSeq(s, i, i) : i \in 1..Len(s)}
Lower == Chars("abcdefghijklmnopqrstuvwxyz")
Upper == Chars("ABCDEFGHIJKLMNOPQRSTUVWXYZ")
Alpha == Lower \cup Upper
Digits == "0123456789"
Digit == Chars(Digits)
Value == [c \in Digit |-> CHOOSE d \in 0..9 : SubSeq(Digits, d + 1, d + 1) = c]

kOperatorList ==
  [nw |-> "new", na |-> "new[]", dl |-> "delete", da |-> "delete[]",
   ps |-> "+", ng |-> "-", ad |-> "&", de |-> "*", co |-> "~", pl |-> "+",
   mi |-> "-", ml |-> "*", dv |-> "/", rm |-> "%", an |-> "&", or |-> "|",
   eo |-> "^", aS |-> "=", pL |-> "+=", mI |-> "-=", mL |-> "*=",
   dV |-> "/=", rM |-> "%=", aN |-> "&=", oR |-> "|=", eO |-> "^=",
   ls |-> "<<", rs |-> ">>", lS |-> "<<=", rS |-> ">>=", eq |-> "==",
   ne |-> "!=", lt |-> "<", gt |-> ">", le |-> "<=", ge |-> ">=",
   nt |-> "!", aa |-> "&&", oo |-> "||", pp |-> "++", mm |-> "--",
   cm |-> ",", pm |-> "->*", pt |-> "->", cl |-> "()", ix |-> "[]",
   qu |-> "?", st |-> "sizeof", sz |-> "sizeof"]

kBuiltinTypeList ==
  [v |-> "void", w |-> "wchar_t", b |-> "bool", c |-> "char",
   a |-> "signed char", h |-> "unsigned char", s |-> "short",
   t |-> "unsigned short", i |-> "int", j |-> "unsigned int", l |-> "long",
   m |-> "unsigned long", x |-> "long long", y |-> "unsigned long long",
   n |-> "__int128", o |-> "unsigned __int128", f |-> "float",
   d |-> "double", e |-> "long double", g |-> "__float128",
   z |-> "ellipsis"]

kSubstitutionList ==
  [t |-> "", a |-> "allocator", b |-> "basic_string", s |-> "string",
   i |-> "istream", o |-> "ostream", d |-> "iostream"]
-----------------------------------------------------------------------------
(* The State.                                                              *)

\* A State, with the input, the size of the buffer and its contents, none of
\* which a restore touches; the value of the last number; the value that the
\* function returned; how it ended; and, as history, which rules failed and
\* did not put the State back.
InitState(mangled, size) ==
  [in |-> mangled, size |-> size, buf |-> "",
   cur |-> 0, out |-> 0, prev |-> 0, prevLen |-> -1, nest |-> -1,
   append |-> TRUE, overflowed |-> FALSE,
   num |-> 0, ok |-> TRUE, verdict |-> "fine", leaks |-> {}]

\* What the copies of a State hold.
Saveable(s) ==
  <<s.cur, s.out, s.prev, s.prevLen, s.nest, s.append, s.overflowed>>

Restore(s, copy) ==
  [s EXCEPT !.cur = copy.cur, !.out = copy.out, !.prev = copy.prev,
            !.prevLen = copy.prevLen, !.nest = copy.nest,
            !.append = copy.append, !.overflowed = copy.overflowed]

Yes(s) == [s EXCEPT !.ok = TRUE]
No(s) == [s EXCEPT !.ok = FALSE]
Stop(s, why) == [s EXCEPT !.ok = FALSE, !.verdict = why]

\* mangled_cur[i]
Peek(s, i) ==
  IF s.cur + i < Len(s.in) THEN SubSeq(s.in, s.cur + i + 1, s.cur + i + 1)
  ELSE Nul
Peek2(s) == Peek(s, 0) \o Peek(s, 1)
Advance(s, n) == [s EXCEPT !.cur = @ + n, !.ok = TRUE]

\* Overwrite the buffer from position p on.
Overwrite(buf, p, text) ==
  SubSeq(buf, 1, p) \o text \o SubSeq(buf, p + Len(text) + 1, Len(buf))

\* Mutant: the '\0' is not counted.
RoomForText(s, k) ==
  IF s.out + k <= s.size THEN k ELSE IF s.out <= s.size THEN s.size - s.out ELSE 0

\* How many of k characters have room, with one left for the '\0'.
Room(s, k) ==
  IF s.out + k + 1 <= s.size THEN k
  ELSE IF s.out + 1 <= s.size THEN s.size - 1 - s.out ELSE 0

\* Mutant: an append that fits takes the overflow back.
AppendForgets(s, text) ==
  LET n    == Room(s, Len(text))
      over == n < Len(text)
      new  == SubSeq(text, 1, n) \o (IF over THEN "" ELSE Nul)
  IN  [s EXCEPT !.buf = Overwrite(@, s.out, new), !.out = @ + n,
                !.overflowed = over]

AppendText(s, text) ==
  LET n    == Room(s, Len(text))
      over == s.overflowed \/ n < Len(text)
      new  == SubSeq(text, 1, n) \o (IF over THEN "" ELSE Nul)
  IN  [s EXCEPT !.buf = Overwrite(@, s.out, new), !.out = @ + n,
                !.overflowed = over]

\* MaybeAppend and MaybeAppendWithLength.
MaybeAppend(s, text) ==
  IF ~s.append \/ text = "" THEN Yes(s)
  ELSE LET first == SubSeq(text, 1, 1)
           split == first = "<" /\ s.out > 0
                      /\ SubSeq(s.buf, s.out, s.out) = "<"
           s1 == IF split THEN AppendText(s, " ") ELSE s
           s2 == IF first \in Alpha \cup {"_"}
                 THEN [s1 EXCEPT !.prev = s1.out, !.prevLen = Len(text)]
                 ELSE s1
       IN  Yes(AppendText(s2, text))

MaybeAppendSeparator(s) ==
  IF s.nest >= 1 THEN MaybeAppend(s, "::") ELSE Yes(s)

\* Mutant: the end of the text is moved and not marked.
CancelWithoutNul(s) ==
  IF s.nest >= 1 /\ s.append /\ s.out >= 2
  THEN Yes([s EXCEPT !.out = @ - 2]) ELSE Yes(s)

MaybeCancelLastSeparator(s) ==
  IF s.nest >= 1 /\ s.append /\ s.out >= 2
  THEN Yes([s EXCEPT !.out = @ - 2, !.buf = Overwrite(@, s.out - 2, Nul)])
  ELSE Yes(s)

MaybeIncreaseNestLevel(s) ==
  IF s.nest > -1 THEN Yes([s EXCEPT !.nest = @ + 1]) ELSE Yes(s)
-----------------------------------------------------------------------------
(* The functions that look at characters.                                  *)

ParseCharClass(s, class) ==
  IF Peek(s, 0) \in class THEN Advance(s, 1) ELSE No(s)

ParseToken(s, token) ==
  IF token = (IF Len(token) = 1 THEN Peek(s, 0) ELSE Peek2(s))
  THEN Advance(s, Len(token)) ELSE No(s)

\* How many characters of the class follow in str from position k on.
Span(str, k, class) ==
  LET stops == {n \in 0..(Len(str) - k) :
                  n = Len(str) - k
                    \/ SubSeq(str, k + n + 1, k + n + 1) \notin class}
  IN  CHOOSE n \in stops : \A m \in stops : n <= m

ParseSpan(s, class) ==
  LET n == Span(s.in, s.cur, class)
  IN  IF n = 0 THEN No(s) ELSE Advance(s, n)

\* The decimal value of the n characters from position k on.
Decimal(str, k, n) ==
  LET v[i \in 0..n] ==
        IF i = 0 THEN 0 ELSE 10 * v[i - 1] + Value[SubSeq(str, k + i, k + i)]
  IN  v[n]

\* A 'n' without digits stays consumed.
ParseNumber(s) ==
  LET neg == Peek(s, 0) = "n"
      s1  == IF neg THEN Advance(s, 1) ELSE s
      n   == Span(s1.in, s1.cur, Digit)
      v   == Decimal(s1.in, s1.cur, n)
  IN  IF n = 0 THEN No(s1)
      ELSE [Advance(s1, n) EXCEPT !.num = IF neg THEN -v ELSE v]

anon_prefix == "_GLOBAL__N_"

\* AtLeastNumCharsRemaining compares the pointer with '\0' and is always
\* true: an identifier may reach past the end of the name ("past"), and one of
\* negative length moves the cursor back ("back").
ParseIdentifier(s) ==
  LET rest == SubSeq(s.in, s.cur + 1, Len(s.in))
      id   == SubSeq(rest, 1, s.num)
      anon == s.num > Len(anon_prefix)
                /\ SubSeq(rest, 1, Len(anon_prefix)) = anon_prefix
  IN  IF s.num = -1 THEN No(s)
      ELSE IF s.num < 0 THEN Stop(s, "back")
      ELSE IF s.num > Len(rest) THEN Stop(s, "past")
      ELSE Advance(MaybeAppend(s, IF anon THEN "(anonymous namespace)" ELSE id),
                   s.num)

\* The two-letter operators.
ParseOperatorCode(s) ==
  IF Peek(s, 0) \in Lower /\ Peek(s, 1) \in Alpha
       /\ Peek2(s) \in DOMAIN kOperatorList
  THEN LET name == kOperatorList[Peek2(s)]
           s1 == MaybeAppend(s, "operator")
           s2 == IF SubSeq(name, 1, 1) \in Lower THEN MaybeAppend(s1, " ") ELSE s1
       IN  Advance(MaybeAppend(s2, name), 2)
  ELSE No(s)

ParseBuiltinCode(s) ==
  IF Peek(s, 0) \in DOMAIN kBuiltinTypeList
  THEN Advance(MaybeAppend(s, kBuiltinTypeList[Peek(s, 0)]), 1) ELSE No(s)

\* What follows the S of an abbreviation.
ParseAbbreviation(s) ==
  IF Peek(s, 0) \in DOMAIN kSubstitutionList
  THEN LET name == kSubstitutionList[Peek(s, 0)]
           s1 == MaybeAppend(s, "std")
           s2 == IF name # "" THEN MaybeAppend(MaybeAppend(s1, "::"), name) ELSE s1
       IN  Advance(s2, 1)
  ELSE No(s)

\* The name of the class that a constructor or destructor is of.
PrevName(s) ==
  IF s.prevLen <= 0 THEN ""
  ELSE SubSeq(s.buf, s.prev + 1,
              IF s.prev + s.prevLen <= Len(s.buf) THEN s.prev + s.prevLen
              ELSE Len(s.buf))

MaybeAppendPrevName(s) == MaybeAppend(s, PrevName(s))
-----------------------------------------------------------------------------
(* The terms of a rule.                                                    *)

All(terms)   == [op |-> "all", terms |-> terms]      \* a && b && ...
OneOf(terms) == [op |-> "any", terms |-> terms]      \* a || b || ...
Saved(terms) == [op |-> "saved", terms |-> terms]    \* else *state = copy
Optional(t)   == [op |-> "optional", terms |-> <<t>>]
OneOrMore(t)  == [op |-> "oneOrMore", terms |-> <<t>>]
ZeroOrMore(t) == [op |-> "zeroOrMore", terms |-> <<t>>]
Tok(token)   == [op |-> "token", arg |-> token]
Class(chars) == [op |-> "class", arg |-> Chars(chars)]
SpanOf(class) == [op |-> "span", arg |-> class]
Put(text)    == [op |-> "put", arg |-> text]         \* MaybeAppend
Do(what)     == [op |-> "do", arg |-> what]
R(rule)      == [op |-> "rule", arg |-> rule]        \* Parse<rule>(state)
-----------------------------------------------------------------------------
(* The grammar, one definition per parsing function.                       *)

ParseMangledName == All(<<Tok("_Z"), R("Encoding")>>)

ParseEncoding ==
  OneOf(<<Saved(<<R("Name"), R("BareFunctionType")>>),
        R("Name"), R("SpecialName")>>)

\* Mutant: the less greedy alternative first.
NameWithoutArguments ==
  OneOf(<<R("NestedName"), R("LocalName"), R("UnscopedName"),
          Saved(<<R("UnscopedTemplateName"), R("TemplateArgs")>>)>>)

ParseName ==
  OneOf(<<R("NestedName"), R("LocalName"),
        Saved(<<R("UnscopedTemplateName"), R("TemplateArgs")>>),
        R("UnscopedName")>>)

ParseUnscopedName ==
  OneOf(<<R("UnqualifiedName"),
        Saved(<<Tok("St"), Put("std::"), R("UnqualifiedName")>>)>>)

ParseUnscopedTemplateName == OneOf(<<R("UnscopedName"), R("Substitution")>>)

\* Mutant: the State is not restored.
NestedNameKept ==
  All(<<Tok("N"), Do("EnterNestedName"), Optional(R("CVQualifiers")),
        R("Prefix"), Do("LeaveNestedName"), Tok("E")>>)

ParseNestedName ==
  Saved(<<Tok("N"), Do("EnterNestedName"), Optional(R("CVQualifiers")),
          R("Prefix"), Do("LeaveNestedName"), Tok("E")>>)

PrefixItem == OneOf(<<R("TemplateParam"), R("Substitution"), R("UnscopedName")>>)
NextItem == All(<<PrefixItem, Do("IncreaseNestLevel"), R("PrefixLoop")>>)

\* The loop of ParsePrefix before anything was found, and after.
ParsePrefix ==
  All(<<Do("AppendSeparator"), OneOf(<<NextItem, Do("CancelLastSeparator")>>)>>)
PrefixLoop ==
  All(<<Do("AppendSeparator"),
        OneOf(<<NextItem,
              All(<<Do("CancelLastSeparator"),
                    Optional(All(<<R("TemplateArgs"), R("Prefix")>>))>>)>>)>>)

ParseUnqualifiedName ==
  OneOf(<<R("OperatorName"), R("CtorDtorName"), R("SourceName"),
        R("LocalSourceName")>>)

ParseSourceName == Saved(<<R("Number"), Do("Identifier")>>)

ParseLocalSourceName ==
  Saved(<<Tok("L"), R("SourceName"), Optional(R("Discriminator"))>>)

ParseFloatNumber == SpanOf(Digit \cup Chars("abcdef"))
ParseSeqId == SpanOf(Digit \cup Upper)

ParseOperatorName ==
  OneOf(<<Saved(<<Tok("cv"), Put("operator "), Do("EnterNestedName"), R("Type"),
                Do("LeaveNestedName")>>),
        Saved(<<Tok("v"), Class(Digits), R("SourceName")>>),
        Do("OperatorCode")>>)

ParseSpecialName ==
  OneOf(<<Saved(<<Tok("T"), Class("VTIS"), R("Type")>>),
        Saved(<<Tok("Tc"), R("CallOffset"), R("CallOffset"), R("Encoding")>>),
        Saved(<<Tok("GV"), R("Name")>>),
        Saved(<<Tok("T"), R("CallOffset"), R("Encoding")>>),
        Saved(<<Tok("TC"), R("Type"), R("Number"), Tok("_"),
                Do("DisableAppend"), R("Type"), Do("RestoreAppend")>>),
        Saved(<<Tok("T"), Class("FJ"), R("Type")>>),
        Saved(<<Tok("GR"), R("Name")>>),
        Saved(<<Tok("GA"), R("Encoding")>>),
        Saved(<<Tok("T"), Class("hv"), R("CallOffset"), R("Encoding")>>)>>)

ParseCallOffset ==
  OneOf(<<Saved(<<Tok("h"), R("NVOffset"), Tok("_")>>),
        Saved(<<Tok("v"), R("VOffset"), Tok("_")>>)>>)

ParseNVOffset == R("Number")
ParseVOffset == Saved(<<R("Number"), Tok("_"), R("Number")>>)

ParseCtorDtorName ==
  OneOf(<<Saved(<<Tok("C"), Class("123"), Do("PrevName")>>),
        Saved(<<Tok("D"), Class("012"), Put("~"), Do("PrevName")>>)>>)

ParseType ==
  OneOf(<<Saved(<<R("CVQualifiers"), R("Type")>>),
        Saved(<<Class("OPRCG"), R("Type")>>),
        Saved(<<Tok("Dp"), R("Type")>>),
        Saved(<<Tok("D"), Class("tT"), R("Expression"), Tok("E")>>),
        Saved(<<Tok("U"), R("SourceName"), R("Type")>>),
        R("BuiltinType"), R("FunctionType"), R("ClassEnumType"),
        R("ArrayType"), R("PointerToMemberType"), R("Substitution"),
        Saved(<<R("TemplateTemplateParam"), R("TemplateArgs")>>),
        R("TemplateParam")>>)

\* At least one of r, V and K, in this order.
ParseCVQualifiers ==
  OneOf(<<All(<<Tok("r"), Optional(Tok("V")), Optional(Tok("K"))>>),
        All(<<Tok("V"), Optional(Tok("K"))>>),
        Tok("K")>>)

ParseBuiltinType ==
  OneOf(<<Do("BuiltinCode"), Saved(<<Tok("u"), R("SourceName")>>)>>)

ParseFunctionType ==
  Saved(<<Tok("F"), Optional(Tok("Y")), R("BareFunctionType"), Tok("E")>>)

ParseBareFunctionType ==
  Saved(<<Do("DisableAppend"), OneOrMore(R("Type")), Do("RestoreAppend"),
          Put("()")>>)

ParseClassEnumType == R("Name")

ParseArrayType ==
  OneOf(<<Saved(<<Tok("A"), R("Number"), Tok("_"), R("Type")>>),
        Saved(<<Tok("A"), Optional(R("Expression")), Tok("_"), R("Type")>>)>>)

ParsePointerToMemberType == Saved(<<Tok("M"), R("Type"), R("Type")>>)

ParseTemplateParam ==
  OneOf(<<All(<<Tok("T_"), Put("?")>>),
        Saved(<<Tok("T"), R("Number"), Tok("_"), Put("?")>>)>>)

ParseTemplateTemplateParam == OneOf(<<R("TemplateParam"), R("Substitution")>>)

ParseTemplateArgs ==
  Saved(<<Do("DisableAppend"), Tok("I"), OneOrMore(R("TemplateArg")), Tok("E"),
          Do("RestoreAppend"), Put("<>")>>)

ParseTemplateArg ==
  OneOf(<<Saved(<<Tok("I"), ZeroOrMore(R("TemplateArg")), Tok("E")>>),
        Saved(<<OneOf(<<R("Type"), R("ExprPrimary")>>)>>),
        Saved(<<Tok("X"), R("Expression"), Tok("E")>>)>>)

ParseExpression ==
  LET Operands(n) == Saved(<<R("OperatorName")>> \o [i \in 1..n |-> R("Expression")])
  IN  OneOf(<<R("TemplateParam"), R("ExprPrimary"),
            Operands(3), Operands(2), Operands(1),
            Saved(<<Tok("st"), R("Type")>>),
            Saved(<<Tok("sr"), R("Type"), R("UnqualifiedName"), R("TemplateArgs")>>),
            Saved(<<Tok("sr"), R("Type"), R("UnqualifiedName")>>)>>)

ParseExprPrimary ==
  OneOf(<<Saved(<<Tok("L"), R("Type"), R("Number"), Tok("E")>>),
        Saved(<<Tok("L"), R("Type"), R("FloatNumber"), Tok("E")>>),
        Saved(<<Tok("L"), R("MangledName"), Tok("E")>>),
        Saved(<<Tok("LZ"), R("Encoding"), Tok("E")>>)>>)

ParseLocalName ==
  OneOf(<<Saved(<<Tok("Z"), R("Encoding"), Tok("E"), Put("::"), R("Name"),
                Optional(R("Discriminator"))>>),
        Saved(<<Tok("Z"), R("Encoding"), Tok("Es"), Optional(R("Discriminator"))>>)>>)

ParseDiscriminator == Saved(<<Tok("_"), R("Number")>>)

ParseSubstitution ==
  OneOf(<<All(<<Tok("S_"), Put("?")>>),
        Saved(<<Tok("S"), R("SeqId"), Tok("_"), Put("?")>>),
        Saved(<<Tok("S"), Do("Abbreviation")>>)>>)

Grammar ==
  [MangledName |-> ParseMangledName, Encoding |-> ParseEncoding,
   Name |-> ParseName, UnscopedName |-> ParseUnscopedName,
   UnscopedTemplateName |-> ParseUnscopedTemplateName,
   NestedName |-> ParseNestedName, Prefix |-> ParsePrefix,
   PrefixLoop |-> PrefixLoop, UnqualifiedName |-> ParseUnqualifiedName,
   SourceName |-> ParseSourceName, LocalSourceName |-> ParseLocalSourceName,
   Number |-> Do("Number"), FloatNumber |-> ParseFloatNumber,
   SeqId |-> ParseSeqId, OperatorName |-> ParseOperatorName,
   SpecialName |-> ParseSpecialName, CallOffset |-> ParseCallOffset,
   NVOffset |-> ParseNVOffset, VOffset |-> ParseVOffset,
   CtorDtorName |-> ParseCtorDtorName, Type |-> ParseType,
   CVQualifiers |-> ParseCVQualifiers, BuiltinType |-> ParseBuiltinType,
   FunctionType |-> ParseFunctionType,
   BareFunctionType |-> ParseBareFunctionType,
   ClassEnumType |-> ParseClassEnumType, ArrayType |-> ParseArrayType,
   PointerToMemberType |-> ParsePointerToMemberType,
   TemplateParam |-> ParseTemplateParam,
   TemplateTemplateParam |-> ParseTemplateTemplateParam,
   TemplateArgs |-> ParseTemplateArgs, TemplateArg |-> ParseTemplateArg,
   Expression |-> ParseExpression, ExprPrimary |-> ParseExprPrimary,
   LocalName |-> ParseLocalName, Discriminator |-> ParseDiscriminator,
   Substitution |-> ParseSubstitution]
-----------------------------------------------------------------------------
(* Evaluation.                                                             *)

\* The functions with an effect of their own; copy is the State on entry of
\* the rule that calls them.
Effect(what, s, copy) ==
  CASE what = "Number" -> ParseNumber(s)
    [] what = "Identifier" -> ParseIdentifier(s)
    [] what = "OperatorCode" -> ParseOperatorCode(s)
    [] what = "BuiltinCode" -> ParseBuiltinCode(s)
    [] what = "Abbreviation" -> ParseAbbreviation(s)
    [] what = "PrevName" -> MaybeAppendPrevName(s)
    [] what = "EnterNestedName" -> Yes([s EXCEPT !.nest = 0])
    [] what = "LeaveNestedName" -> Yes([s EXCEPT !.nest = copy.nest])
    [] what = "DisableAppend" -> Yes([s EXCEPT !.append = FALSE])
    [] what = "RestoreAppend" -> Yes([s EXCEPT !.append = copy.append])
    [] what = "AppendSeparator" -> MaybeAppendSeparator(s)
    [] what = "CancelLastSeparator" -> MaybeCancelLastSeparator(s)
    [] what = "IncreaseNestLevel" -> MaybeIncreaseNestLevel(s)

\* A rule that fails is to leave the State as it was.
Leaks(rule, before, after) ==
  IF ~after.ok /\ after.verdict = "fine" /\ Saveable(after) # Saveable(before)
  THEN [after EXCEPT !.leaks = @ \cup {rule}] ELSE after

RECURSIVE Run(_, _, _), RunAll(_, _, _, _), RunAny(_, _, _, _), RunMore(_, _, _)

Run(t, s, copy) ==
  CASE t.op = "token" -> ParseToken(s, t.arg)
    [] t.op = "class" -> ParseCharClass(s, t.arg)
    [] t.op = "span" -> ParseSpan(s, t.arg)
    [] t.op = "put" -> MaybeAppend(s, t.arg)
    [] t.op = "do" -> Effect(t.arg, s, copy)
    [] t.op = "rule" -> Leaks(t.arg, s, Run(Grammar[t.arg], s, s))
    [] t.op = "all" -> RunAll(t.terms, 1, s, copy)
    [] t.op = "any" -> RunAny(t.terms, 1, s, copy)
    [] t.op = "saved" -> LET r == RunAll(t.terms, 1, s, copy)
                         IN  IF r.ok THEN r ELSE Restore(r, copy)
    [] t.op = "optional" -> LET r == Run(t.terms[1], s, copy)
                            IN  [r EXCEPT !.ok = r.verdict = "fine"]
    [] t.op = "zeroOrMore" -> RunMore(t.terms[1], s, copy)
    [] t.op = "oneOrMore" -> LET r == Run(t.terms[1], s, copy)
                             IN  IF r.ok THEN RunMore(t.terms[1], r, copy) ELSE r

RunAll(terms, i, s, copy) ==
  IF i > Len(terms) THEN Yes(s)
  ELSE LET r == Run(terms[i], s, copy)
       IN  IF r.ok THEN RunAll(terms, i + 1, r, copy) ELSE r

RunAny(terms, i, s, copy) ==
  IF i > Len(terms) THEN No(s)
  ELSE LET r == Run(terms[i], s, copy)
       IN  IF r.ok \/ r.verdict # "fine" THEN r
           ELSE RunAny(terms, i + 1, r, copy)

RunMore(t, s, copy) ==
  LET r == Run(t, s, copy)
  IN  IF r.ok THEN RunMore(t, r, copy) ELSE [r EXCEPT !.ok = r.verdict = "fine"]

\* (.<alpha>+.<digit>+)+ from position k of str to its end.
RECURSIVE IsFunctionCloneSuffix(_, _)
IsFunctionCloneSuffix(str, k) ==
  \/ k = Len(str)
  \/ LET Is(c, i) == i < Len(str) /\ SubSeq(str, i + 1, i + 1) = c
         a == Span(str, k + 1, Alpha)
         d == Span(str, k + a + 2, Digit)
     IN  /\ Is(".", k) /\ a > 0 /\ Is(".", k + a + 1) /\ d > 0
         /\ IsFunctionCloneSuffix(str, k + a + d + 2)

\* What may follow the name: nothing, a clone's suffix, or a version.
TopLevel(r) ==
  IF ~r.ok \/ Peek(r, 0) = Nul \/ IsFunctionCloneSuffix(r.in, r.cur) THEN r
  ELSE IF Peek(r, 0) = "@" THEN MaybeAppend(r, SubSeq(r.in, r.cur + 1, Len(r.in)))
  ELSE No(r)
ParseTopLevelMangledName(s) == TopLevel(Run(R("MangledName"), s, s))

Fitting(r) == [r EXCEPT !.ok = @ /\ ~r.overflowed]
Demangled(name, size) == Fitting(ParseTopLevelMangledName(InitState(name, size)))

\* The string in a buffer; a buffer that nobody wrote to holds none.
Ends(buf) == {i \in 1..Len(buf) : SubSeq(buf, i, i) = Nul}
CString(buf) ==
  LET end == CHOOSE i \in Ends(buf) : \A j \in Ends(buf) : i <= j
  IN  IF Ends(buf) = {} THEN buf ELSE SubSeq(buf, 1, end - 1)

vars == <<call, result, wide>>
Pending == [ok |-> FALSE, verdict |-> "pending"]

Init == call \in Input /\ result = Pending /\ wide = Pending

Demangle ==
  /\ result = Pending
  /\ result' = Demangled(call.mangled, call.size)
  /\ wide' = IF call.size = Wide THEN result' ELSE Demangled(call.mangled, Wide)
  /\ UNCHANGED call

Done == result # Pending /\ UNCHANGED vars
Next == Demangle \/ Done
Spec == Init /\ [][Next]_vars
=============================================================================
