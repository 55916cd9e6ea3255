------------------------- MODULE MCReflectionStream -------------------------
(***************************************************************************)
(* Small instances of ReflectionStream for TLC.                            *)
(***************************************************************************)
EXTENDS ReflectionStream, TLC

Sym == Permutations(Callers) \cup Permutations(Streams)
=============================================================================
