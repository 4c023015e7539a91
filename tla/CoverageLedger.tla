-------------------------- MODULE CoverageLedger --------------------------
(***************************************************************************)
(* What `logcov scan` promises its store, without threads or counters: a   *)
(* ledger of hits <<line, index>> per pattern, each entered once, sealed   *)
(* before anything is published; a published entry is the total of the     *)
(* sealed ledger, and the process may stop at any point.  ScanPipeline     *)
(* implements it.                                                          *)
(***************************************************************************)
EXTENDS Naturals, FiniteSets

CONSTANTS Lines, LogPath, Patterns, Indices, OldCoverage

VARIABLES
    ledger,     \* per pattern, the hits recorded so far
    sealed,     \* no hit may be entered any more
    published,  \* per pattern, the coverage entry of the store
    stopped     \* the process has ended

vars == <<ledger, sealed, published, stopped>>

Hits == Lines \X Indices

Total(p) ==
    [count |-> Cardinality(ledger[p]),
     byLog |-> [f \in {LogPath[l] : l \in Lines} |->
                  Cardinality({h \in ledger[p] : LogPath[h[1]] = f})]]

Init ==
    /\ ledger = [p \in Patterns |-> {}]
    /\ sealed = FALSE
    /\ published = [p \in Patterns |-> OldCoverage]
    /\ stopped = FALSE

Observe(p, h) ==
    /\ ~sealed /\ ~stopped /\ h \notin ledger[p]
    /\ ledger' = [ledger EXCEPT ![p] = @ \cup {h}]
    /\ UNCHANGED <<sealed, published, stopped>>

Seal ==
    /\ ~sealed /\ ~stopped
    /\ sealed' = TRUE
    /\ UNCHANGED <<ledger, published, stopped>>

Publish(p) ==
    /\ sealed /\ ~stopped
    /\ ledger[p] # {}
    /\ published' = [published EXCEPT ![p] = Total(p)]
    /\ UNCHANGED <<ledger, sealed, stopped>>

Stop ==
    /\ ~stopped
    /\ stopped' = TRUE
    /\ UNCHANGED <<ledger, sealed, published>>

Next ==
    \/ \E p \in Patterns, h \in Hits : Observe(p, h)
    \/ Seal
    \/ \E p \in Patterns : Publish(p)
    \/ Stop

Spec == Init /\ [][Next]_vars
===========================================================================
