---------------------------- MODULE MCStatements ----------------------------
(***************************************************************************)
(* Instances of Statements for TLC.                                        *)
(***************************************************************************)
EXTENDS Statements, TLC

Sites ==
  {[kind |-> "first", n |-> n] : n \in {0, 1, 2}}
    \cup {[kind |-> k, n |-> n] : k \in {"every", "if_every"}, n \in 0..3}
ThreadSymmetry == Permutations(Thread)
=============================================================================
