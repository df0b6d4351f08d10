------------------------------ MODULE TornRead ------------------------------
(***************************************************************************)
(* The tailer reading a line that ProFTPd is still writing.  readline()    *)
(* returns what there is when it meets the end of the file, with or        *)
(* without a newline, and tail_loop parses it as if it were a line.        *)
(***************************************************************************)
EXTENDS LogLine

VARIABLES line,      \* the parts of the line being written
          head,      \* what the file holds of it after the first half of the write
          tail,      \* what the second half of the write adds
          written,   \* halves of the write that reached the file
          consumed,  \* halves the tailer's file handle is past
          rows       \* rows that parse_line made for the line, in order

vars == <<line, head, tail, written, consumed, rows>>

(***************************************************************************)
(* The ways a field can be split between the two halves of a write.  (That *)
(* a piece of a path could read as a time is left out: it changes nothing  *)
(* but the time of the row.)                                               *)
(***************************************************************************)
Pieces(field) ==
    {<<"", field>>, <<field, "">>} \cup
    (CASE field \in {"", "-"}  -> {}
       [] field \in Numbers   -> {<<"number", "number">>}
       [] OTHER               -> {"cut", "number"} \X {"cut", "number"})

Init ==
    /\ line \in Line
    /\ \E i \in DOMAIN line : \E piece \in Pieces(line[i]) :
         /\ head = SubSeq(line, 1, i - 1) \o <<piece[1]>>
         /\ tail = <<piece[2]>> \o SubSeq(line, i + 1, Len(line))
    /\ written = 0
    /\ consumed = 0
    /\ rows = <<>>

WriteHalf ==
    /\ written < 2
    /\ written' = written + 1
    /\ UNCHANGED <<line, head, tail, consumed, rows>>

\* Mutant of Unread: the handle goes back to the start of the line.
UnreadFromLineStart == IF written = 1 THEN head ELSE line

\* What readline() returns between the handle's position and the end of the file.
Unread == CASE consumed = 0 /\ written = 1 -> head
            [] consumed = 1 /\ written = 2 -> tail
            [] OTHER                       -> line

ReadLine ==
    /\ consumed < written
    /\ consumed' = written
    /\ rows' = LET row == parse_line(Unread)
               IN  IF row = NoRow THEN rows ELSE Append(rows, row)
    /\ UNCHANGED <<line, head, tail, written>>

\* Both halves are written and read: nothing more happens to the line.
Done ==
    /\ consumed = 2
    /\ UNCHANGED vars

Next == WriteHalf \/ ReadLine \/ Done

Spec == Init /\ [][Next]_vars

TypeOK ==
    /\ line \in Line
    /\ written \in 0..2 /\ consumed \in 0..written
    /\ \A i \in DOMAIN rows : rows[i] \in Rows

(***************************************************************************)
(* A line read in two pieces gives one row at most: the pieces have one    *)
(* part more than the line between them, so that both pass the seven-field *)
(* test of parse_line (tailer.py 173-180) only if the line has 13 parts,   *)
(* which takes a path with six separators.                                 *)
(***************************************************************************)
AtMostOneRow == Len(line) # 13 => Len(rows) <= 1

(***************************************************************************)
(* A row made from a piece of a line whose path holds no separator says    *)
(* the same user, address and table as the whole line would: only the time *)
(* and the byte count can be wrong.                                        *)
(***************************************************************************)
NeverMisattributed ==
    Len(line) = 7 =>
        \A i \in DOMAIN rows :
            /\ Recorded(line)
            /\ rows[i].table = parse_line(line).table
            /\ rows[i].user = User(line)
            /\ rows[i].ip = Ip(line)
=============================================================================
