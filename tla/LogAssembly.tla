---------------------------- MODULE LogAssembly ----------------------------
(***************************************************************************)
(* LogScanner.Scan: how the lines of one file become logs, for the calls   *)
(* that runLogScan makes until one fails (scanner/log_scan/log.go), with   *)
(* the parser it uses (zapLogParser, parser.go).                           *)
(*                                                                         *)
(* A line is a sequence of tokens: the brackets and the space the parser   *)
(* looks for, "in" and "fo" for the halves of a level name, and "x" for    *)
(* any other text.  The reader hands out every line in memory of its own,  *)
(* as the mock reader of the tests does; ReadBuffer models the file        *)
(* reader, which does not.                                                 *)
(***************************************************************************)
EXTENDS Integers, Sequences, FiniteSets, SequencesExt

CONSTANTS
    LineKinds,  \* the lines a file may have
    MaxLines    \* bound of the model: lines per file

Tokens == {"[", "]", " ", "in", "fo", "x"}

ASSUME LineAssumption == LineKinds \subseteq Seq(Tokens)
ASSUME FileAssumption == MaxLines \in Nat

VARIABLES
    file,     \* the lines of the file
    next,     \* the index of the line that reader.Scan returns next
    parser,   \* LogScanner.parser: "nil" or the name of the elected parser
    content,  \* the local variable line of Scan: what has been gathered so far
    pc,       \* where the calls to Scan are
    blocks    \* a history: the runs of lines that became a log or were skipped

vars == <<file, next, parser, content, pc, blocks>>

---------------------------------------------------------------------------
(* The parser.                                                             *)

Opener(k) == IF k = 1 THEN <<"[">> ELSE <<" ", "[">>

(* isVaildLogEvel *)
ValidLevel(text) == text = <<"in", "fo">>

(* Where the fields of a line end: its "]", and the one that ends field k. *)
Closers(line) == {i \in 1 .. Len(line) : line[i] = "]"}
Closer(line, k) ==
    CHOOSE i \in Closers(line) : Cardinality({j \in Closers(line) : j <= i}) = k

FieldStart(line, k) == IF k = 1 THEN 1 ELSE Closer(line, k - 1) + 1

(* The text of field k of a line, between its opener and its "]".          *)
Text(line, k) ==
    SubSeq(line, FieldStart(line, k) + Len(Opener(k)), Closer(line, k) - 1)

(* What Extract meets at field k once the fields before it are taken.      *)
FieldErr(line, k) ==
    LET rest == SubSeq(line, FieldStart(line, k), Len(line))
    IN  IF ~IsPrefix(Opener(k), rest) THEN "skip"
        ELSE IF Cardinality(Closers(line)) < k THEN "incomplete"
        ELSE IF k = 2 /\ ~ValidLevel(Text(line, k)) THEN "skip"
        ELSE "nil"

(* ZapLog.Extract: time, level, position and message in this order; the    *)
(* first field that fails decides, and level, position and message go into *)
(* the log.                                                                *)
Outcome(line) ==
    IF FieldErr(line, 1) # "nil" THEN FieldErr(line, 1)
    ELSE IF FieldErr(line, 2) # "nil" THEN FieldErr(line, 2)
    ELSE IF FieldErr(line, 3) # "nil" THEN FieldErr(line, 3)
    ELSE FieldErr(line, 4)

Fields(line) == [k \in 1 .. 4 |-> Text(line, k)]

(* zapLogParser.IsSuitable, the only parser of the hub.                    *)
IsSuitable(line) == Outcome(line) = "nil"

---------------------------------------------------------------------------
(* The index of the first line of the pending content.                     *)
First == IF blocks = <<>> THEN 1 ELSE Last(blocks).last + 1

Block(kind, lg) == [kind |-> kind, first |-> First, last |-> next - 1, log |-> lg]

Init ==
    /\ file \in BoundedSeq(LineKinds, MaxLines)
    /\ next = 1
    /\ parser = "nil"
    /\ content = <<>>
    /\ pc = "call"
    /\ blocks = <<>>

(* Scan reads a line; without a parser the line has to elect one, and the  *)
(* call fails with ErrNotFoundParser when it does not.                     *)
ReadFirst ==
    /\ pc = "call" /\ next <= Len(file)
    /\ next' = next + 1
    /\ content' = file[next]
    /\ IF parser = "nil" /\ ~IsSuitable(file[next])
          THEN pc' = "noparser" /\ UNCHANGED parser
          ELSE pc' = "parse" /\ parser' = "zap"
    /\ UNCHANGED <<file, blocks>>

(* Parse succeeds: Scan returns the log and runLogScan calls it again.     *)
ReturnLog ==
    /\ pc = "parse" /\ Outcome(content) = "nil"
    /\ blocks' = Append(blocks, Block("log", Fields(content)))
    /\ content' = <<>>
    /\ pc' = "call"
    /\ UNCHANGED <<file, next, parser>>

(* The content gathered is kept: breaks AtMostOneLost.                     *)
SkipKeepsContent ==
    /\ pc = "parse" /\ Outcome(content) = "skip"
    /\ pc' = "fetch"
    /\ UNCHANGED <<file, next, parser, content, blocks>>

(* ErrNeedSkipLog, taken up again without a new line: breaks ScanEnds.     *)
SkipRetries ==
    /\ pc = "parse" /\ Outcome(content) = "skip"
    /\ UNCHANGED vars

(* ErrNeedSkipLog: everything gathered so far is dropped.                  *)
SkipContent ==
    /\ pc = "parse" /\ Outcome(content) = "skip"
    /\ blocks' = Append(blocks, Block("skipped", <<>>))
    /\ content' = <<>>
    /\ pc' = "fetch"
    /\ UNCHANGED <<file, next, parser>>

(* An incomplete log dropped like an invalid one: breaks BlocksExact.      *)
DropIncomplete ==
    /\ pc = "parse" /\ Outcome(content) = "incomplete"
    /\ blocks' = Append(blocks, Block("skipped", <<>>))
    /\ content' = <<>>
    /\ pc' = "fetch"
    /\ UNCHANGED <<file, next, parser>>

(* ErrLogIncomplete: the content is kept and the next line is added to it. *)
KeepIncomplete ==
    /\ pc = "parse" /\ Outcome(content) = "incomplete"
    /\ pc' = "fetch"
    /\ UNCHANGED <<file, next, parser, content, blocks>>

(* The next line is read past the end: breaks TypeOK.                      *)
FetchPastEnd ==
    /\ pc = "fetch"
    /\ content' = IF next <= Len(file) THEN content \o file[next] ELSE content
    /\ next' = next + 1
    /\ pc' = "parse"
    /\ UNCHANGED <<file, parser, blocks>>

(* LogScanner.scanLog: content = append(content, rest...), then Parse.     *)
Fetch ==
    /\ pc = "fetch" /\ next <= Len(file)
    /\ content' = content \o file[next]
    /\ next' = next + 1
    /\ pc' = "parse"
    /\ UNCHANGED <<file, parser, blocks>>

(* reader.Scan returns io.EOF: an incomplete log at the end is lost.       *)
ReadEOF ==
    /\ pc \in {"call", "fetch"} /\ next > Len(file)
    /\ pc' = "eof"
    /\ UNCHANGED <<file, next, parser, content, blocks>>

(* reader.Scan fails: a line beyond the buffer's size or an I/O error.     *)
ReadError ==
    /\ pc \in {"call", "fetch"}
    /\ pc' = "ioerror"
    /\ UNCHANGED <<file, next, parser, content, blocks>>

Ended == pc \in {"eof", "ioerror", "noparser"}

Terminated == Ended /\ UNCHANGED vars

Next ==
    \/ ReadFirst
    \/ ReturnLog
    \/ SkipContent
    \/ KeepIncomplete
    \/ Fetch
    \/ ReadEOF
    \/ ReadError
    \/ Terminated

(* The goroutine that scans keeps running.                                 *)
Spec == Init /\ [][Next]_vars /\ WF_vars(Next)

---------------------------------------------------------------------------
(* Properties.                                                             *)

Joined(i, j) == FlattenSeq(SubSeq(file, i, j))

(* Every variable keeps its type; the reader never runs past the file.     *)
TypeOK ==
    /\ file \in Seq(LineKinds)
    /\ next \in 1 .. Len(file) + 1
    /\ parser \in {"nil", "zap"}
    /\ content \in Seq(Tokens)
    /\ pc \in {"call", "parse", "fetch", "eof", "ioerror", "noparser"}
    /\ \A i \in 1 .. Len(blocks) : blocks[i].kind \in {"log", "skipped"}

(* The lines first .. last are what Scan makes of them: nothing shorter    *)
(* was complete or invalid, and the whole is.                              *)
BlockExact(b) ==
    /\ b.first <= b.last
    /\ \A i \in b.first .. b.last - 1 : Outcome(Joined(b.first, i)) = "incomplete"
    /\ IF b.kind = "skipped" THEN Outcome(Joined(b.first, b.last)) = "skip"
       ELSE /\ Outcome(Joined(b.first, b.last)) = "nil"
            /\ b.log = Fields(Joined(b.first, b.last))

(* No line is dropped in silence, used twice or moved: the lines read so   *)
(* far are exactly the logs returned and the blocks skipped, in file       *)
(* order, then the pending content, and each log comes from the shortest   *)
(* run of lines that makes one.                                            *)
BlocksExact ==
    /\ \A i \in 1 .. Len(blocks) :
         /\ BlockExact(blocks[i])
         /\ blocks[i].first = IF i = 1 THEN 1 ELSE blocks[i - 1].last + 1
    /\ content = Joined(First, next - 1)
    /\ pc = "fetch" /\ content # <<>> => Outcome(content) = "incomplete"

Complete(line) == Outcome(line) = "nil"

(* A truncated line costs at most one good log: whatever is gathered, at   *)
(* most its last line is a complete log, so the scan is in step again      *)
(* right after it.                                                         *)
AtMostOneLost ==
    /\ \A i \in 1 .. Len(blocks) :
         \A k \in blocks[i].first .. blocks[i].last - 1 : ~Complete(file[k])
    /\ pc = "fetch" => \A k \in First .. next - 1 : ~Complete(file[k])

(* Scanning a finite file ends.                                            *)
ScanEnds == <>Ended

(* A line that the parser cannot use never ends the scan of a file that    *)
(* still holds complete logs.  log_test.go:40-47 passes over such lines;   *)
(* parser_test.go:36 says of those that elect no parser "it's a bug, need  *)
(* to fix later".                                                          *)
EndsAtEOF ==
    pc = "noparser" => \A k \in next .. Len(file) : ~Complete(file[k])
===========================================================================
