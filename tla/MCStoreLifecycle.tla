-------------------------- MODULE MCStoreLifecycle --------------------------
(***************************************************************************)
(* Instances of StoreLifecycle for TLC.                                    *)
(***************************************************************************)
EXTENDS StoreLifecycle, TLC

CONSTANTS s1, s2

MCSites == {s1, s2}

MCCounts == {-1, 0, 1}

SiteSymmetry == Permutations(MCSites)
=============================================================================
