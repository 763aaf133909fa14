------------------------------- MODULE MCVLog -------------------------------
(* Instances of VLog for TLC.                                              *)
EXTENDS VLogProps, TLC

Entry(pattern, level) == [pattern |-> pattern, level |-> level, parses |-> TRUE]
Wrong(pattern) == [pattern |-> pattern, level |-> 0, parses |-> FALSE]

\* A statement that the flag's "f*o" matches, in a file whose "-inl" is trimmed,
\* and one that only a call of SetVLOGLevel with "?" gives a module.
Sites == {"foo", "g"}
Files ==
  [s \in Sites |->
     IF s = "foo"
     THEN <<"d", "/", "f", "o", "o", "-", "i", "n", "l", ".", "h">>
     ELSE <<"g", ".", "c", "c">>]
Flags == <<Wrong(<<"?">>), Entry(<<"f", "*", "o">>, 1)>>
Patterns == {<<"?">>, <<"f", "*", "o">>}

\* The example of the header, foo*, and a file that begins with foo.
GlobFile == [s \in Sites |-> <<"f", "o", "o", "b", "a", "r", ".", "c", "c">>]
GlobFlag == <<Entry(<<"f", "o", "o", "*">>, 1)>>

ThreadSymmetry == Permutations(Thread)
=============================================================================
