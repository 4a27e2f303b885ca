------------------------------- MODULE MCLog --------------------------------
(***************************************************************************)
(* Small instances of Log.  No operation tells blocks apart.               *)
(***************************************************************************)
EXTENDS Log, TLC

BlockSymmetry == Permutations(Blocks)
=============================================================================
