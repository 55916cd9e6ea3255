------------------------ MODULE MCDescriptorRegistry ------------------------
(***************************************************************************)
(* A small instance of DescriptorRegistry for TLC: two types, in a file    *)
(* that reaches a second one both directly and through a third.            *)
(***************************************************************************)
EXTENDS DescriptorRegistry

SomeFiles == {"listener", "route", "base"}
SomeTypes == {"Listener", "Route"}
SomeDeps  == [f \in SomeFiles |->
               CASE f = "listener" -> {"route", "base"}
                 [] f = "route"    -> {"base"}
                 [] f = "base"     -> {}]
SomeFileOf == [t \in SomeTypes |-> IF t = "Listener" THEN "listener" ELSE "route"]
=============================================================================
