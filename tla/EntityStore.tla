---------------------------- MODULE EntityStore ----------------------------
(***************************************************************************)
(* What a pattern store promises its clients, without keys and bytes: per  *)
(* kind of entity and position the message entered last, and a pool that   *)
(* keeps messages back and enters them all at once, in their order, or     *)
(* none of them with an error.                                             *)
(***************************************************************************)
EXTENDS Integers, Sequences, SequencesExt, TLC

CONSTANTS
    Kinds,  \* "log", "cov", "rule"
    Puts    \* records [kind, pos, msg] that clients write

VARIABLES
    entities, \* per kind, a function from positions to messages
    staged,   \* the puts that the pool keeps back
    call      \* the last call and its result: what a client sees

vars == <<entities, staged, call>>

Called(op, put, ok) == call' = [op |-> op, put |-> put, ok |-> ok]

NoPut == [kind |-> "none"]

(* The entities after some puts in their order.                            *)
Enter(puts) ==
    FoldLeft(LAMBDA e, p : [e EXCEPT ![p.kind] = (p.pos :> p.msg) @@ @], entities, puts)

Init ==
    /\ entities = [k \in Kinds |-> <<>>]
    /\ staged = <<>>
    /\ call = [op |-> "open", put |-> NoPut, ok |-> TRUE]

Write(p) == Called("write", p, TRUE) /\ entities' = Enter(<<p>>) /\ UNCHANGED staged

Refuse(p) == Called("write", p, FALSE) /\ UNCHANGED <<entities, staged>>

Stage(p) == Called("stage", p, TRUE) /\ staged' = Append(staged, p) /\ UNCHANGED entities

StageAndEnter(p) ==
    Called("stage", p, TRUE) /\ entities' = Enter(Append(staged, p)) /\ staged' = <<>>

StageAndLose(p) == Called("stage", p, FALSE) /\ staged' = <<>> /\ UNCHANGED entities

Flush == Called("flush", NoPut, TRUE) /\ entities' = Enter(staged) /\ staged' = <<>>

FlushFails == Called("flush", NoPut, FALSE) /\ staged' = <<>> /\ UNCHANGED entities

(* The process ends, and another one opens the store.                      *)
Reopen == Called("open", NoPut, TRUE) /\ staged' = <<>> /\ UNCHANGED entities

Next ==
    \/ \E p \in Puts : Write(p) \/ Refuse(p) \/ Stage(p) \/ StageAndEnter(p) \/ StageAndLose(p)
    \/ Flush
    \/ FlushFails
    \/ Reopen

Spec == Init /\ [][Next]_vars
============================================================================
