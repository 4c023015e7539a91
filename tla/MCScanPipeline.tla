------------------------- MODULE MCScanPipeline -------------------------
(***************************************************************************)
(* Instances of ScanPipeline for TLC.                                      *)
(***************************************************************************)
EXTENDS ScanPipeline, TLC

CONSTANTS l1, l2, p1, p2, q1

(* Two files, each read by a line of its own.                              *)
MCLines == {l1, l2}
OwnPath == [l \in MCLines |-> l]

(* The same path given twice: two lines share the CovCountByLog entry.     *)
SamePath == [l \in MCLines |-> "log"]

(* A log two patterns match, a log no pattern matches, and one the rule    *)
(* does not want either.                                                   *)
MCLogs == {[hits |-> {p1, p2}, inRule |-> TRUE, position |-> q1],
           [hits |-> {}, inRule |-> TRUE, position |-> q1],
           [hits |-> {}, inRule |-> FALSE, position |-> q1]}

(* Two kinds of logs, for the runs that check liveness.                    *)
MCFewLogs == {[hits |-> {p1}, inRule |-> TRUE, position |-> q1],
              [hits |-> {}, inRule |-> TRUE, position |-> q1]}
MCOneLog == {[hits |-> {p1}, inRule |-> TRUE, position |-> q1]}

LineSymmetry == Permutations(MCLines)
=========================================================================
