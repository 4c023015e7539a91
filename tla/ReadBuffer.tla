---------------------------- MODULE ReadBuffer ----------------------------
(***************************************************************************)
(* The bytes behind LogScanner.Scan when it reads from a file: the reader  *)
(* returns bufio.Scanner.Bytes (scanner/log_scan/reader.go), a slice of    *)
(* the scanner's own buffer, and Scan keeps that slice across the next     *)
(* read and appends to it (log.go, Scan and scanLog).                      *)
(*                                                                         *)
(* A byte is <<i, j>>, the j-th of line i, and <<i, 0>> is the newline     *)
(* after it, so that every misplaced byte shows.  What Parse answers is    *)
(* nondeterministic here; LogAssembly models it.  The buffer is that of    *)
(* bufio.Scanner, which is not part of the repository.                     *)
(***************************************************************************)
EXTENDS Integers, Sequences, SequencesExt

CONSTANTS
    Size,       \* size of the buffer and of the longest line (102400)
    MaxLines,   \* bounds of the model: lines per file
    MaxLength   \* and bytes per line

ASSUME SizeAssumption == Size \in Nat \ {0}
ASSUME BoundAssumption == MaxLines \in Nat /\ MaxLength \in Nat

VARIABLES
    lengths,    \* the length of every line of the file
    finalNL,    \* whether the last line ends in a newline
    offset,     \* how many bytes of the file have been read
    buf,        \* Scanner.buf
    start, end, \* the unread part of it is buf[start + 1 .. end]
    sawEOF,     \* Scanner.err = io.EOF
    pc,         \* "call", "fetch": reading for Scan or for scanLog; "parse";
                \* or how the calls ended
    lines,      \* a history: the number of lines returned so far
    first,      \* a history: the first line of the content
    content,    \* the local variable line of Scan, a slice
    shifted     \* a history: the buffer moved under the content

bufferVars == <<offset, buf, start, end, sawEOF>>
vars == <<lengths, finalNL, bufferVars, pc, lines, first, content, shifted>>

Newline(i) == <<i, 0>>
Line(i) == [j \in 1 .. lengths[i] |-> <<i, j>>]

(* The file, byte by byte.                                                 *)
Data ==
    FlattenSeq([i \in 1 .. Len(lengths) |->
        IF i < Len(lengths) \/ finalNL THEN Append(Line(i), Newline(i)) ELSE Line(i)])

(* A slice of the buffer, or one that append has allocated.                *)
Alias(from, len) == [shared |-> TRUE, from |-> from, len |-> len, bytes |-> <<>>]
Own(bytes) == [shared |-> FALSE, from |-> 0, len |-> 0, bytes |-> bytes]

Bytes(slice) ==
    IF slice.shared THEN SubSeq(buf, slice.from + 1, slice.from + slice.len)
    ELSE slice.bytes

NoContent == Own(<<>>)

Reading == pc \in {"call", "fetch"}

Init ==
    /\ lengths \in BoundedSeq(0 .. MaxLength, MaxLines)
    /\ finalNL \in BOOLEAN
    /\ offset = 0
    /\ buf = [k \in 1 .. Size |-> <<0, 0>>]
    /\ start = 0 /\ end = 0
    /\ sawEOF = FALSE
    /\ pc = "call"
    /\ lines = 0
    /\ first = 1
    /\ content = NoContent
    /\ shifted = FALSE

---------------------------------------------------------------------------
(* bufio.Scanner.Scan with ScanLines.                                      *)

(* The length of the token at the front of the unread part, or -1.         *)
TokenLength ==
    LET nl == SelectInSubSeq(buf, start + 1, end, LAMBDA b : b[2] = 0)
    IN  IF nl # 0 THEN nl - start - 1
        ELSE IF sawEOF /\ end > start THEN end - start
        ELSE -1

(* Unread bytes move to the front when the buffer is full or half used.    *)
NeedsShift == start > 0 /\ (end = Size \/ start > Size \div 2)

Shifted ==
    [k \in 1 .. Size |-> IF k <= end - start THEN buf[start + k] ELSE buf[k]]

(* There is no token in the buffer and the read returns n bytes, or the    *)
(* end of the file if n is 0.                                              *)
Refill(n) ==
    LET kept == IF NeedsShift THEN end - start ELSE end
        base == IF NeedsShift THEN Shifted ELSE buf
    IN  /\ Reading /\ TokenLength = -1 /\ ~sawEOF
        /\ kept < Size
        /\ n <= Size - kept /\ n <= Len(Data) - offset
        /\ n = 0 => offset = Len(Data)
        /\ buf' = [k \in 1 .. Size |->
                      IF k \in kept + 1 .. kept + n THEN Data[offset + k - kept]
                      ELSE base[k]]
        /\ start' = IF NeedsShift THEN 0 ELSE start
        /\ end' = kept + n
        /\ offset' = offset + n
        /\ sawEOF' = (n = 0)
        /\ shifted' = (shifted \/ (NeedsShift /\ content.shared))
        /\ UNCHANGED <<lengths, finalNL, pc, lines, first, content>>

(* The buffer is full without a newline in it: ErrTooLong.                 *)
TooLong ==
    /\ Reading /\ TokenLength = -1 /\ ~sawEOF
    /\ start = 0 /\ end = Size
    /\ pc' = "toolong"
    /\ UNCHANGED <<lengths, finalNL, bufferVars, lines, first, content, shifted>>

(* The end is not told apart from an empty line: breaks TypeOK.            *)
EndOfFileRead ==
    /\ Reading /\ TokenLength = -1 /\ sawEOF
    /\ content' = IF pc = "call" THEN NoContent ELSE content
    /\ lines' = lines + 1
    /\ pc' = "parse"
    /\ UNCHANGED <<lengths, finalNL, bufferVars, first, shifted>>

EndOfFile ==
    /\ Reading /\ TokenLength = -1 /\ sawEOF
    /\ pc' = "eof"
    /\ UNCHANGED <<lengths, finalNL, bufferVars, lines, first, content, shifted>>

---------------------------------------------------------------------------
(* The slice appended on the wrong side: breaks IntactUntilShift.          *)
AppendSwapped(slice, token) == Own(Bytes(token) \o Bytes(slice))

(* append(slice, token...): in place when the slice's array has room, that *)
(* is up to the end of the buffer, and else in a new array.                *)
AppendSlice(slice, token) ==
    IF slice.shared /\ slice.from + slice.len + token.len <= Size
    THEN Alias(slice.from, slice.len + token.len)
    ELSE Own(Bytes(slice) \o Bytes(token))

(* What an append in place writes to the buffer.                           *)
Written(slice, token) ==
    IF AppendSlice(slice, token).shared
    THEN [k \in 1 .. Size |->
            IF k \in slice.from + slice.len + 1 .. slice.from + slice.len + token.len
            THEN Bytes(token)[k - slice.from - slice.len] ELSE buf[k]]
    ELSE buf

(* reader.Scan returns a line.  Scan's first line of a log becomes the     *)
(* content, scanLog appends the others to it.                              *)
ReturnLine ==
    /\ Reading /\ TokenLength # -1
    /\ LET token == Alias(start, TokenLength)
       IN  IF pc = "call"
           THEN content' = token /\ UNCHANGED buf
           ELSE /\ content' = AppendSlice(content, token)
                /\ buf' = Written(content, token)
    /\ start' = IF start + TokenLength < end THEN start + TokenLength + 1 ELSE end
    /\ lines' = lines + 1
    /\ pc' = "parse"
    /\ UNCHANGED <<lengths, finalNL, offset, end, sawEOF, first, shifted>>

(* Parse accepts the content and copies its fields out of it.              *)
Accepted ==
    /\ pc = "parse"
    /\ content' = NoContent
    /\ first' = lines + 1
    /\ pc' = "call"
    /\ UNCHANGED <<lengths, finalNL, bufferVars, lines, shifted>>

(* Parse asks to skip it: line = []byte{}, and the next line is appended.  *)
Skipped ==
    /\ pc = "parse"
    /\ content' = Own(<<>>)
    /\ first' = lines + 1
    /\ pc' = "fetch"
    /\ UNCHANGED <<lengths, finalNL, bufferVars, lines, shifted>>

(* Parse wants more: Scan holds on to the slice and reads the next line.   *)
Incomplete ==
    /\ pc = "parse"
    /\ pc' = "fetch"
    /\ UNCHANGED <<lengths, finalNL, bufferVars, lines, first, content, shifted>>

Terminated == pc \in {"eof", "toolong"} /\ UNCHANGED vars

Next ==
    \/ \E n \in 0 .. Size : Refill(n)
    \/ TooLong
    \/ EndOfFile
    \/ ReturnLine
    \/ Accepted
    \/ Skipped
    \/ Incomplete
    \/ Terminated

Spec == Init /\ [][Next]_vars

---------------------------------------------------------------------------
(* Properties.                                                             *)

(* The indices stay in the buffer, and no slice reaches beyond its end.    *)
TypeOK ==
    /\ 0 <= start /\ start <= end /\ end <= Size
    /\ DOMAIN buf = 1 .. Size
    /\ offset \in 0 .. Len(Data)
    /\ sawEOF \in BOOLEAN /\ shifted \in BOOLEAN
    /\ pc \in {"call", "fetch", "parse", "eof", "toolong"}
    /\ lines \in 0 .. Len(lengths) /\ first \in 1 .. lines + 1
    /\ content.shared => content.from + content.len <= Size

Intact == Bytes(content) = FlattenSeq([i \in 1 .. lines - first + 1 |-> Line(first + i - 1)])

(* As long as the buffer has not moved under a gathered content, what      *)
(* Parse sees is exactly the lines of the file, however the reads were cut *)
(* and although the appends write over the buffer.                         *)
IntactUntilShift == pc = "parse" /\ ~shifted => Intact

(* reader.go:12 "Scan one line log content": what is parsed is what the    *)
(* file holds.                                                             *)
ContentIntact == pc = "parse" => Intact
===========================================================================
