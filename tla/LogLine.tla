------------------------------ MODULE LogLine ------------------------------
(***************************************************************************)
(* One line of the ProFTPd ExtendedLog and what logtailer/tailer.py makes  *)
(* of it.  A text is the list of its parts, line.split("|"); a part is the *)
(* class of values the parser tells apart, not the characters.             *)
(***************************************************************************)
EXTENDS Naturals, Sequences

ANON_USER == "anonftp"

CONSTANT Paths    \* the paths that the log shows, each as the list of its parts

(***************************************************************************)
(* The fields of the custom_user format: %t|%a|%u|%f|%m|%s|%b.  Nothing    *)
(* keeps the separator out of a path, so that a path is one or more parts, *)
(* and a part may look like any other field.  "digits" is the byte count,  *)
(* "number" another number; "cut" is what a reader sees of a field that it *)
(* meets half, if that is not a number.                                    *)
(***************************************************************************)
Ips       == {"addr", "-", ""}
LogUsers  == {"alice", ANON_USER, "-", ""}
PathParts == {"path", "number", ANON_USER, "RETR", "226", "-", ""}
Commands  == {"RETR", "STOR"}
Statuses  == {"226", "426"}
Sizes     == {"digits", "-"}
Numbers   == {"digits", "number"} \cup Statuses

ASSUME PathsAssumption == Paths \subseteq Seq(PathParts) /\ <<>> \notin Paths

LineOf(ip, user, path, cmd, status, size) ==
    <<"stamp", ip, user>> \o path \o <<cmd, status, size>>

Line == {LineOf(ip, user, path, cmd, status, size) :
            ip \in Ips, user \in LogUsers, path \in Paths,
            cmd \in Commands, status \in Statuses, size \in Sizes}

NoRow == [table |-> "none"]
Rows  == [table : {"user_downloads", "anon_downloads"},
          user  : (LogUsers \cup PathParts) \ {"-", ""},
          ip    : (Ips \cup LogUsers \cup PathParts \cup {"0.0.0.0"}) \ {"-", ""},
          at    : {"logged", "now"}, bytes : {"full", "other", "null"}]

(***************************************************************************)
(* parse_timestamp: a stamp that does not match the pattern is replaced by *)
(* the current time.  bytes: a piece of a number is still a number.        *)
(***************************************************************************)
parse_timestamp(stamp) == IF stamp = "stamp" THEN "logged" ELSE "now"

ParseBytes(size) == CASE size = "digits"                -> "full"
                      [] size \in Numbers \ {"digits"} -> "other"
                      [] OTHER                           -> "null"

\* Part i of a text that has seven parts.
User(text) == IF text[3] \in {"", "-"} THEN ANON_USER ELSE text[3]
Ip(text)   == IF text[2] \in {"", "-"} THEN "0.0.0.0" ELSE text[2]

Recorded(text) ==
    /\ Len(text) = 7
    /\ text[5] = "RETR"
    /\ text[6] = "226"
    /\ text[4] \notin {"", "-"}

\* Mutant of parse_line: counts the fields from the end, and needs only six.
parse_lineFromEnd(text) ==
    LET field(i) == text[Len(text) - 7 + i] IN
    IF Len(text) < 6 \/ field(5) # "RETR" \/ field(6) # "226" \/ field(4) \in {"", "-"}
    THEN NoRow
    ELSE [table |-> IF field(3) \in {"", "-", ANON_USER} THEN "anon_downloads" ELSE "user_downloads",
          user  |-> IF field(3) \in {"", "-"} THEN ANON_USER ELSE field(3),
          ip    |-> IF field(2) \in {"", "-"} THEN "0.0.0.0" ELSE field(2),
          at |-> parse_timestamp(text[1]), bytes |-> ParseBytes(field(7))]

parse_line(text) ==
    IF ~Recorded(text) THEN NoRow
    ELSE [table |-> IF User(text) = ANON_USER THEN "anon_downloads" ELSE "user_downloads",
          user  |-> User(text),
          ip    |-> Ip(text),
          at    |-> parse_timestamp(text[1]),
          bytes |-> ParseBytes(text[7])]
=============================================================================
