----------------------------- MODULE MCDemangle -----------------------------
(* Instances of Demangle for TLC.                                          *)
EXTENDS DemangleProps, SequencesExt

CONSTANTS Letter, MaxWord

RECURSIVE Join(_)
Join(w) == IF w = <<>> THEN "" ELSE Head(w) \o Join(Tail(w))

Of(names, sizes) ==
  {[mangled |-> m, size |-> z, text |-> Unknown] : m \in names, z \in sizes}
Known(e, z) == [mangled |-> "_Z" \o e.m, size |-> z, text |-> e.t]

\* Any letters after a prefix, the start of each longer name, and the names
\* of the reference, some in a buffer about as long as their text.
Words(prefix, n) ==
  {prefix \o Join(w) : w \in UNION {[1..k -> Chars(Letter)] : k \in 0..n}}
Starts ==
  UNION {{SubSeq(e.m, 1, k) : k \in 1..(Len(e.m) - 1)} :
           e \in LocalName \cup SpecialName
                   \cup {P("1fI" \o a \o "E", "") : a \in TemplateArg}}
Short == Function({n \in NestedName : Len(n.m) < 16})
Inputs ==
  Of(Words("_Z", MaxWord) \cup Words("_ZN1f", MaxWord - 1)
       \cup {"_Z" \o n : n \in Starts}, {Wide})
  \cup {[mangled |-> e.m, size |-> Wide, text |-> e.t] : e \in Reference}
  \cup {Known(e, Len(e.t) + d) : e \in Short, d \in 0..3}
Ids == {"f", "Foo"}
=============================================================================
