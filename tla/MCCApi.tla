------------------------------- MODULE MCCApi -------------------------------
(* CApi on a string, which is a value with a block of its own.              *)
EXTENDS CApi, TLC

MCAtoms == { Cpp("string", "alice", << >>) }
MCKeys  == { "id" }

\* Variables are what they hold.
MCSymmetry == Permutations(Variables)
=============================================================================
