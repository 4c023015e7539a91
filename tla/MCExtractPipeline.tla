------------------------- MODULE MCExtractPipeline -------------------------
(***************************************************************************)
(* An instance of ExtractPipeline for TLC: four positions, two in one file *)
(* and one in another of package "a", one in package "b"; package "c" has  *)
(* nothing but tests.                                                      *)
(***************************************************************************)
EXTENDS ExtractPipeline

MCSites == 1 .. 4
MCSource == <<"error", "warn", "error", "warn">>

MCFiles ==
    [p \in {"a", "b", "c"} |->
        CASE p = "a" -> {<<1, 2>>, <<3>>}
          [] p = "b" -> {<<4>>}
          [] p = "c" -> {}]
=============================================================================
