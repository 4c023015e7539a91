--------------------------- MODULE MCPatternStore ---------------------------
(***************************************************************************)
(* An instance of PatternStore for TLC: positions that differ in one field *)
(* or swap two, numbers and lengths on both sides of the limits of a       *)
(* varint, negative counts, maps with zeros.                               *)
(***************************************************************************)
EXTENDS PatternStore

Text(n) == [i \in 1 .. n |-> 97]

Pos(file, line, column) ==
    [packagePath |-> [repo |-> Text(3), path |-> <<>>],
     filePath |-> Text(file), lineNumber |-> line, columnOffset |-> column]

Func(file) == [name |-> Text(2), pos |-> [Pos(file, 1, 0) EXCEPT !.packagePath = Nil], code |-> <<>>]

PatternAt(pos) ==
    [kind |-> "log", pos |-> pos,
     msg |-> [pos |-> pos, func |-> Func(1), level |-> Text(4), signature |-> <<Text(2)>>]]

CoverageAt(pos, count, byLog) ==
    [kind |-> "cov", pos |-> pos, msg |-> [pos |-> pos, covCount |-> count, covCountByLog |-> byLog]]

Rule(levels, signatures) ==
    [kind |-> "rule", pos |-> Nil, msg |-> [logLevel |-> levels, logSignatures |-> signatures]]

P1 == Pos(1, 1, 2)
LastPos == Pos(128, 128, 2147483647)

MCPuts ==
    {PatternAt(pos) : pos \in {P1, Pos(1, 2, 1), Pos(1, 1, 127), LastPos}}
    \cup {[PatternAt(P1) EXCEPT !.msg.signature = <<Text(130)>>, !.msg.func = Func(127)],
          [PatternAt(P1) EXCEPT !.msg.pos = Nil, !.pos = Nil],
          CoverageAt(P1, 1, Text(1) :> 1),
          CoverageAt(P1, -2147483647 - 1, (Text(1) :> -1) @@ (Text(128) :> 2147483647)),
          CoverageAt(LastPos, 128, (<<>> :> 0) @@ (Text(2) :> -300)),
          Rule(<<>>, <<>>), Rule(<<Text(5), <<>>>>, <<Text(128)>>)}
=============================================================================
