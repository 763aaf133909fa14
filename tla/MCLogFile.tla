------------------------------ MODULE MCLogFile ------------------------------
(* Instances of LogFile for TLC.                                           *)
EXTENDS LogFileProps, TLC

OneDir == <<"/tmp/">>
TwoDirs == <<"/tmp/", "./">>
NoNames == {NoName}
ObjectSymmetry == Permutations(Object)
=============================================================================
