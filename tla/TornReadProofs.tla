--------------------------- MODULE TornReadProofs ---------------------------
(***************************************************************************)
(* Theorems about a line that is read while it is written.                 *)
(***************************************************************************)
EXTENDS TornRead, SequenceTheorems, TLAPS

-----------------------------------------------------------------------------
(***************************************************************************)
(* The two pieces.  One field of the line is cut, so that the pieces have  *)
(* one part more than the line between them.  A piece of seven parts that  *)
(* begins the line shares its fields 2 to 6, one that ends the line shares *)
(* its last six.                                                           *)
(***************************************************************************)
BeginsRight == Len(head) = 7 => \A j \in 2..6 : head[j] = line[j]
EndsRight   == Len(tail) = 7 => \A j \in 2..7 : tail[j] = line[Len(line) - 7 + j]

PiecesInv ==
    /\ Len(head) \in Nat /\ Len(tail) \in Nat /\ Len(head) + Len(tail) = Len(line) + 1
    /\ BeginsRight /\ EndsRight

\* Where a row can come from.
RowsInv ==
    \/ rows = <<>>
    \/ rows = <<parse_line(head)>> /\ Recorded(head) /\ consumed # 0
    \/ rows = <<parse_line(tail)>> /\ Recorded(tail) /\ consumed = 2
    \/ rows = <<parse_line(line)>> /\ Recorded(line) /\ consumed = 2
    \/ rows = <<parse_line(head), parse_line(tail)>> /\ Recorded(head) /\ Recorded(tail) /\ consumed = 2

HandleInv == line \in Line /\ written \in 0..2 /\ consumed \in 0..written

TornInv == HandleInv /\ PiecesInv /\ RowsInv

\* What a part of a text can be.
Parts == {"stamp", "cut"} \cup Ips \cup LogUsers \cup PathParts \cup Commands \cup Statuses \cup Sizes

\* A path with what is before and after it.
LEMMA Joined ==
    ASSUME NEW path \in Seq(Parts), NEW x1 \in Parts, NEW x2 \in Parts, NEW x3 \in Parts,
           NEW y1 \in Parts, NEW y2 \in Parts, NEW y3 \in Parts
    PROVE  LET text == <<x1, x2, x3>> \o path \o <<y1, y2, y3>> IN
           /\ text \in Seq(Parts) /\ Len(text) = Len(path) + 6
           /\ text[1] = x1 /\ text[2] = x2 /\ text[3] = x3
           /\ \A j \in 1..Len(path) : text[j + 3] = path[j]
<1> DEFINE before == <<x1, x2, x3>>
           after == <<y1, y2, y3>>
<1>1. before \in Seq(Parts) /\ Len(before) = 3 /\ before[1] = x1 /\ before[2] = x2 /\ before[3] = x3
  OBVIOUS
<1>2. after \in Seq(Parts) /\ Len(after) = 3
  OBVIOUS
<1> HIDE DEF before, after
<1>5. Len(path) \in Nat
  BY LenProperties
<1>3. /\ before \o path \in Seq(Parts) /\ Len(before \o path) = 3 + Len(path)
      /\ \A j \in 1..(3 + Len(path)) : (before \o path)[j] = IF j <= 3 THEN before[j] ELSE path[j - 3]
  <2>1. /\ before \o path \in Seq(Parts) /\ Len(before \o path) = Len(before) + Len(path)
        /\ \A j \in 1..(Len(before) + Len(path)) : (before \o path)[j] =
              IF j <= Len(before) THEN before[j] ELSE path[j - Len(before)]
    BY <1>1, ConcatProperties
  <2> QED
    BY <1>1, <2>1
<1> DEFINE front == before \o path
<1> HIDE DEF front
<1>4. /\ front \o after \in Seq(Parts)
      /\ Len(front \o after) = 3 + Len(path) + 3
      /\ \A j \in 1..(3 + Len(path) + 3) : (front \o after)[j] =
            IF j <= 3 + Len(path) THEN front[j] ELSE after[j - (3 + Len(path))]
  <2>1. front \in Seq(Parts) /\ Len(front) = 3 + Len(path)
    BY <1>3 DEF front
  <2>2. /\ front \o after \in Seq(Parts)
        /\ Len(front \o after) = Len(front) + Len(after)
        /\ \A j \in 1..(Len(front) + Len(after)) : (front \o after)[j] =
              IF j <= Len(front) THEN front[j] ELSE after[j - Len(front)]
    BY <1>2, <2>1, ConcatProperties
  <2> QED
    BY <1>2, <2>1, <2>2
<1> DEFINE n == Len(path)
<1> HIDE DEF n
<1>n. n \in Nat
  BY <1>5 DEF n
<1>6. \A j \in 1..(3 + n) : (front \o after)[j] = front[j]
  <2>1. ASSUME NEW j \in 1..(3 + n) PROVE (front \o after)[j] = front[j]
    <3>1. j \in 1..(3 + n + 3) /\ j <= 3 + n
      BY <1>n
    <3> QED
      BY <1>4, <3>1 DEF n
  <2> QED
    BY <2>1
<1>7. ASSUME NEW j \in 1..n
      PROVE  (front \o after)[j + 3] = path[j]
  <2>1. j + 3 \in 1..(3 + n) /\ ~(j + 3 <= 3) /\ j + 3 - 3 = j
    BY <1>n
  <2>2. front[j + 3] = path[j + 3 - 3]
    BY <1>3, <2>1 DEF n, front
  <2> QED
    BY <1>6, <2>1, <2>2
<1>8. 1 \in 1..(3 + n) /\ 2 \in 1..(3 + n) /\ 3 \in 1..(3 + n)
  BY <1>n
<1>9. (front \o after)[1] = x1 /\ (front \o after)[2] = x2 /\ (front \o after)[3] = x3
  <2>1. front[1] = before[1] /\ front[2] = before[2] /\ front[3] = before[3]
    BY <1>3, <1>8 DEF n, front
  <2> QED
    BY <1>1, <1>6, <1>8, <2>1
<1>10. Len(front \o after) = Len(path) + 6
  BY <1>4, <1>5
<1> QED
  BY <1>4, <1>7, <1>9, <1>10 DEF front, before, after, n

\* The fields of a line.
LEMMA Fields ==
    ASSUME NEW text \in Line
    PROVE  /\ text \in Seq(Parts) /\ Len(text) \in Nat /\ Len(text) >= 7 /\ DOMAIN text = 1..Len(text)
           /\ text[2] \in Ips /\ text[3] \in LogUsers
           /\ \A j \in 4..(Len(text) - 3) : text[j] \in PathParts
<1>1. PICK ip \in Ips, user \in LogUsers, path \in Paths, cmd \in Commands, status \in Statuses,
           size \in Sizes : text = LineOf(ip, user, path, cmd, status, size)
  BY DEF Line
<1>2. /\ "stamp" \in Parts /\ ip \in Parts /\ user \in Parts
      /\ cmd \in Parts /\ status \in Parts /\ size \in Parts
  BY DEF Parts
<1>3. path \in Seq(PathParts) /\ path # <<>>
  BY PathsAssumption
<1>4. path \in Seq(Parts) /\ Len(path) \in Nat /\ Len(path) >= 1 /\ \A j \in 1..Len(path) : path[j] \in PathParts
  <2>1. Len(path) \in Nat /\ \A j \in 1..Len(path) : path[j] \in PathParts
    BY <1>3, LenProperties, ElementOfSeq
  <2>2. PathParts \subseteq Parts
    BY DEF Parts
  <2>3. path \in Seq(Parts)
    BY <1>3, <2>2
  <2>4. Len(path) # 0
    BY <1>3, EmptySeq
  <2> QED
    BY <2>1, <2>3, <2>4
<1>5. /\ text \in Seq(Parts) /\ Len(text) = Len(path) + 6 /\ text[2] = ip /\ text[3] = user
      /\ \A j \in 1..Len(path) : text[j + 3] = path[j]
  BY <1>1, <1>2, <1>4, Joined DEF LineOf
<1>6. DOMAIN text = 1..Len(text)
  BY <1>5, LenProperties
<1>7. ASSUME NEW j \in 4..(Len(text) - 3) PROVE text[j] \in PathParts
  <2>1. j - 3 \in 1..Len(path) /\ (j - 3) + 3 = j
    BY <1>4, <1>5
  <2> QED
    BY <1>4, <1>5, <2>1
<1> QED
  BY <1>4, <1>5, <1>6, <1>7

\* A second row after the first.
LEMMA TwoRows == ASSUME NEW a, NEW b PROVE Append(<<a>>, b) = <<a, b>>
<1> DEFINE S == {a, b}
<1>1. <<a>> \in Seq(S) /\ Len(<<a>>) = 1 /\ b \in S
  OBVIOUS
<1>2. <<a, b>> \in Seq(S) /\ Len(<<a, b>>) = 2
  OBVIOUS
<1>3. /\ Append(<<a>>, b) \in Seq(S) /\ Len(Append(<<a>>, b)) = 2
      /\ Append(<<a>>, b)[1] = a /\ Append(<<a>>, b)[2] = b
  BY <1>1, AppendProperties
<1> DEFINE both == Append(<<a>>, b)
           pair == <<a, b>>
<1>4. both[1] = pair[1] /\ both[2] = pair[2]
  BY <1>3
<1> HIDE DEF both, pair, S
<1>5. both \in Seq(S) /\ pair \in Seq(S) /\ Len(both) = 2 /\ Len(pair) = 2
  BY <1>2, <1>3 DEF both, pair
<1>6. \A j \in 1..Len(both) : both[j] = pair[j]
  BY <1>4, <1>5
<1>7. both = pair
  BY <1>5, <1>6, SeqEqual
<1> QED
  BY <1>7 DEF both, pair

\* A text gives a row if, and only if, it passes the tests.
LEMMA RowOrNone ==
    ASSUME NEW text
    PROVE  parse_line(text) = NoRow <=> ~Recorded(text)
<1>1. ASSUME Recorded(text) PROVE parse_line(text).table # NoRow.table
  BY <1>1 DEF parse_line, NoRow
<1> QED
  BY <1>1 DEF parse_line

\* The row of a text that passes the tests.
LEMMA RowOf ==
    ASSUME NEW text, Recorded(text),
           text[2] \in Ips \cup LogUsers \cup PathParts, text[3] \in LogUsers \cup PathParts
    PROVE  /\ parse_line(text) \in Rows
           /\ parse_line(text).table = IF User(text) = ANON_USER THEN "anon_downloads"
                                       ELSE "user_downloads"
           /\ parse_line(text).user = User(text) /\ parse_line(text).ip = Ip(text)
<1>1. User(text) \in (LogUsers \cup PathParts) \ {"-", ""}
  BY DEF User, LogUsers, ANON_USER
<1>2. Ip(text) \in (Ips \cup LogUsers \cup PathParts \cup {"0.0.0.0"}) \ {"-", ""}
  BY DEF Ip
<1>3. parse_timestamp(text[1]) \in {"logged", "now"} /\ ParseBytes(text[7]) \in {"full", "other", "null"}
  BY Zenon DEF parse_timestamp, ParseBytes
<1>4. parse_line(text) = [table |-> IF User(text) = ANON_USER THEN "anon_downloads" ELSE "user_downloads",
                          user |-> User(text), ip |-> Ip(text),
                          at |-> parse_timestamp(text[1]), bytes |-> ParseBytes(text[7])]
  BY DEF parse_line
<1> QED
  <2> DEFINE table == IF User(text) = ANON_USER THEN "anon_downloads" ELSE "user_downloads"
  <2>2. [table |-> table, user |-> User(text), ip |-> Ip(text),
         at |-> parse_timestamp(text[1]), bytes |-> ParseBytes(text[7])] \in Rows
    <3> HIDE DEF table
    <3>1. table \in {"user_downloads", "anon_downloads"}
      BY DEF table
    <3> QED
      BY <1>1, <1>2, <1>3, <3>1 DEF Rows
  <2>3. parse_line(text) \in Rows
    BY <1>4, <2>2
  <2> QED
    BY <1>4, <2>3

\* The pieces that have seven parts have an address and a user like a line's.
LEMMA PieceFields ==
    ASSUME line \in Line, PiecesInv, NEW text \in {head, tail, line}, Len(text) = 7
    PROVE  /\ text[2] \in Ips \cup LogUsers \cup PathParts
           /\ text[3] \in LogUsers \cup PathParts
<1>1. /\ Len(line) \in Nat /\ Len(line) >= 7 /\ line[2] \in Ips /\ line[3] \in LogUsers
      /\ \A j \in 4..(Len(line) - 3) : line[j] \in PathParts
  BY Fields
<1>2. CASE text = head \/ text = line
  <2>1. text[2] = line[2] /\ text[3] = line[3]
    BY <1>2 DEF PiecesInv, BeginsRight
  <2> QED
    BY <1>1, <2>1
<1>3. CASE text = tail
  <2>1. text[2] = line[Len(line) - 5] /\ text[3] = line[Len(line) - 4]
    <3>1. tail[2] = line[Len(line) - 7 + 2] /\ tail[3] = line[Len(line) - 7 + 3]
      BY <1>3 DEF PiecesInv, EndsRight
    <3>2. Len(line) - 7 + 2 = Len(line) - 5 /\ Len(line) - 7 + 3 = Len(line) - 4
      BY <1>1
    <3> QED
      BY <1>3, <3>1, <3>2
  <2>2. CASE Len(line) = 7
    BY <1>1, <2>1, <2>2
  <2>3. CASE Len(line) = 8
    <3>1. text[2] = line[3] /\ text[3] = line[4] /\ 4 \in 4..(Len(line) - 3)
      BY <2>1, <2>3
    <3> QED
      BY <1>1, <3>1
  <2>4. CASE Len(line) >= 9
    <3>1. Len(line) - 5 \in 4..(Len(line) - 3) /\ Len(line) - 4 \in 4..(Len(line) - 3)
      BY <1>1, <2>4
    <3> QED
      BY <1>1, <2>1, <3>1
  <2> QED
    <3> DEFINE n == Len(line)
    <3> HIDE DEF n
    <3>2. n \in Nat /\ n >= 7
      BY <1>1 DEF n
    <3>3. n = 7 \/ n = 8 \/ n >= 9
      BY <3>2
    <3>1. Len(line) = 7 \/ Len(line) = 8 \/ Len(line) >= 9
      BY <3>3 DEF n
    <3> QED
      BY <2>2, <2>3, <2>4, <3>1
<1> QED
  BY <1>2, <1>3

\* In a line of seven parts the pieces have the fields 2 to 6 of the line.
LEMMA SameFields ==
    ASSUME line \in Line, PiecesInv, Len(line) = 7, NEW text \in {head, tail, line}, Len(text) = 7
    PROVE  \A j \in 2..6 : text[j] = line[j]
<1>1. \A j \in 2..7 : Len(line) - 7 + j = j
  OBVIOUS
<1> QED
  BY <1>1 DEF PiecesInv, BeginsRight, EndsRight

\* A text that has the fields 2 to 6 of the line passes the tests if the
\* line does, and its row is of the same table, user and address.
LEMMA SameRow ==
    ASSUME line \in Line, Len(line) = 7, NEW text, Len(text) = 7, Recorded(text),
           \A j \in 2..6 : text[j] = line[j]
    PROVE  /\ Recorded(line) /\ parse_line(text).table = parse_line(line).table
           /\ parse_line(text).user = User(line) /\ parse_line(text).ip = Ip(line)
<1>1. /\ text[2] = line[2] /\ text[3] = line[3] /\ text[4] = line[4]
      /\ text[5] = line[5] /\ text[6] = line[6]
  OBVIOUS
<1>2. Recorded(line) /\ User(text) = User(line) /\ Ip(text) = Ip(line)
  BY <1>1 DEF Recorded, User, Ip
<1>3. text[2] \in Ips /\ text[3] \in LogUsers /\ line[2] \in Ips /\ line[3] \in LogUsers
  BY <1>1, Fields
<1> QED
  BY <1>2, <1>3, RowOf

\* A text of one part.
LEMMA OnePart == ASSUME NEW S, NEW x \in S PROVE <<x>> \in Seq(S) /\ Len(<<x>>) = 1
OBVIOUS

\* A line that is cut in a field.
LEMMA Cut ==
    ASSUME NEW text \in Seq(Parts), NEW n \in Nat, Len(text) = n, NEW i \in 1..n,
           NEW first \in Parts, NEW second \in Parts
    PROVE  /\ Len(SubSeq(text, 1, i - 1) \o <<first>>) = i
           /\ \A j \in 1..(i - 1) : (SubSeq(text, 1, i - 1) \o <<first>>)[j] = text[j]
           /\ Len(<<second>> \o SubSeq(text, i + 1, n)) = n + 1 - i
           /\ \A j \in 2..(n + 1 - i) : (<<second>> \o SubSeq(text, i + 1, n))[j] = text[i + j - 1]
<1>1. \A j \in 1..n : text[j] \in Parts
  BY ElementOfSeq
<1>2. /\ SubSeq(text, 1, i - 1) \in Seq(Parts) /\ Len(SubSeq(text, 1, i - 1)) = i - 1
      /\ \A j \in 1..(i - 1) : SubSeq(text, 1, i - 1)[j] = text[j]
  <2>1. \A j \in 1..(i - 1) : text[j] \in Parts
    BY <1>1
  <2>2. 1 \in Int /\ i - 1 \in Int
    OBVIOUS
  <2>3. /\ SubSeq(text, 1, i - 1) \in Seq(Parts)
        /\ Len(SubSeq(text, 1, i - 1)) = IF 1 <= i - 1 THEN i - 1 - 1 + 1 ELSE 0
        /\ \A j \in 1..(i - 1 - 1 + 1) : SubSeq(text, 1, i - 1)[j] = text[1 + j - 1]
    BY <2>1, <2>2, SubSeqProperties
  <2>4. i - 1 - 1 + 1 = i - 1 /\ \A j \in 1..(i - 1) : 1 + j - 1 = j
    OBVIOUS
  <2> QED
    BY <2>3, <2>4
<1>3. /\ SubSeq(text, i + 1, n) \in Seq(Parts) /\ Len(SubSeq(text, i + 1, n)) = n - i
      /\ \A j \in 1..(n - i) : SubSeq(text, i + 1, n)[j] = text[i + j]
  <2>1. \A j \in (i + 1)..n : text[j] \in Parts
    BY <1>1
  <2>2. n \in Int /\ i + 1 \in Int
    OBVIOUS
  <2>3. /\ SubSeq(text, i + 1, n) \in Seq(Parts)
        /\ Len(SubSeq(text, i + 1, n)) = IF i + 1 <= n THEN n - (i + 1) + 1 ELSE 0
        /\ \A j \in 1..(n - (i + 1) + 1) : SubSeq(text, i + 1, n)[j] = text[i + 1 + j - 1]
    BY <2>1, <2>2, SubSeqProperties
  <2>4. n - (i + 1) + 1 = n - i /\ \A j \in 1..(n - i) : i + 1 + j - 1 = i + j
    OBVIOUS
  <2> QED
    BY <2>3, <2>4
<1>4. /\ <<first>> \in Seq(Parts) /\ Len(<<first>>) = 1
      /\ <<second>> \in Seq(Parts) /\ Len(<<second>>) = 1
  BY OnePart
<1>5. /\ Len(SubSeq(text, 1, i - 1) \o <<first>>) = i - 1 + 1
      /\ \A j \in 1..(i - 1 + 1) : (SubSeq(text, 1, i - 1) \o <<first>>)[j] =
            IF j <= i - 1 THEN SubSeq(text, 1, i - 1)[j] ELSE <<first>>[j - (i - 1)]
  BY <1>2, <1>4, ConcatProperties
<1>6. /\ Len(<<second>> \o SubSeq(text, i + 1, n)) = 1 + (n - i)
      /\ \A j \in 1..(1 + (n - i)) : (<<second>> \o SubSeq(text, i + 1, n))[j] =
            IF j <= 1 THEN <<second>>[j] ELSE SubSeq(text, i + 1, n)[j - 1]
  BY <1>3, <1>4, ConcatProperties
<1>7. /\ Len(SubSeq(text, 1, i - 1) \o <<first>>) = i
      /\ Len(<<second>> \o SubSeq(text, i + 1, n)) = n + 1 - i
  BY <1>5, <1>6
<1>8. \A j \in 1..(i - 1) : (SubSeq(text, 1, i - 1) \o <<first>>)[j] = text[j]
  BY <1>2, <1>5
<1>9. ASSUME NEW j \in 2..(n + 1 - i)
      PROVE  (<<second>> \o SubSeq(text, i + 1, n))[j] = text[i + j - 1]
  <2>1. j \in 1..(1 + (n - i)) /\ ~(j <= 1) /\ j - 1 \in 1..(n - i) /\ i + (j - 1) = i + j - 1
    BY <1>9
  <2> QED
    BY <1>3, <1>6, <2>1
<1> QED
  BY <1>7, <1>8, <1>9

\* The pieces of a field are parts.
LEMMA PiecesAreParts ==
    ASSUME NEW field \in Parts, NEW piece \in Pieces(field)
    PROVE  piece[1] \in Parts /\ piece[2] \in Parts
<1>1. {"", "cut", "number"} \subseteq Parts
  BY DEF Parts, Ips, PathParts
<1>2. \/ piece = <<"", field>> \/ piece = <<field, "">>
      \/ piece = <<"number", "number">> \/ piece \in {"cut", "number"} \X {"cut", "number"}
  <2>1. Pieces(field) \subseteq {<<"", field>>, <<field, "">>, <<"number", "number">>}
                                  \cup ({"cut", "number"} \X {"cut", "number"})
    BY DEF Pieces
  <2> QED
    BY <2>1
<1>3. CASE piece \in {"cut", "number"} \X {"cut", "number"}
  <2>1. piece[1] \in {"cut", "number"} /\ piece[2] \in {"cut", "number"}
    BY <1>3
  <2> QED
    BY <1>1, <2>1
<1>4. CASE piece \in {<<"", field>>, <<field, "">>, <<"number", "number">>}
  <2>1. CASE piece = <<"", field>>
    BY <1>1, <2>1
  <2>2. CASE piece = <<field, "">>
    BY <1>1, <2>2
  <2>3. CASE piece = <<"number", "number">>
    BY <1>1, <2>3
  <2> QED
    BY <1>4, <2>1, <2>2, <2>3
<1> QED
  BY <1>2, <1>3, <1>4

\* The pieces of a line that is about to be written.
LEMMA PiecesBegin == ASSUME Init PROVE PiecesInv
<1> DEFINE n == Len(line)
<1>1. line \in Line /\ line \in Seq(Parts) /\ n \in Nat /\ n >= 7 /\ DOMAIN line = 1..n
  BY Fields DEF Init
<1>2. PICK i \in 1..n : \E piece \in Pieces(line[i]) :
        /\ head = SubSeq(line, 1, i - 1) \o <<piece[1]>>
        /\ tail = <<piece[2]>> \o SubSeq(line, i + 1, n)
  BY <1>1 DEF Init
<1> PICK piece \in Pieces(line[i]) :
        /\ head = SubSeq(line, 1, i - 1) \o <<piece[1]>>
        /\ tail = <<piece[2]>> \o SubSeq(line, i + 1, n)
  BY <1>2
<1>3. piece[1] \in Parts /\ piece[2] \in Parts
  <2>1. line[i] \in Parts
    BY <1>1, ElementOfSeq
  <2> QED
    BY <2>1, PiecesAreParts
<1>4. /\ Len(head) = i /\ \A j \in 1..(i - 1) : head[j] = line[j]
      /\ Len(tail) = n + 1 - i /\ \A j \in 2..(n + 1 - i) : tail[j] = line[i + j - 1]
  BY <1>1, <1>3, Cut
<1> HIDE DEF n
<1>5. Len(head) \in Nat /\ Len(tail) \in Nat /\ Len(head) + Len(tail) = n + 1
  BY <1>1, <1>4
<1>6. BeginsRight
  BY <1>4 DEF BeginsRight
<1>7. EndsRight
  <2>1. ASSUME Len(tail) = 7, NEW j \in 2..7 PROVE tail[j] = line[n - 7 + j]
    <3>1. i = n - 6
      BY <1>1, <1>4, <2>1
    <3>2. j \in 2..(n + 1 - i) /\ i + j - 1 = n - 7 + j
      BY <1>1, <3>1
    <3> QED
      BY <1>4, <3>2
  <2> QED
    BY <2>1 DEF EndsRight, n
<1> QED
  BY <1>5, <1>6, <1>7 DEF PiecesInv, n

\* What is read gives a row for the line, at most once.
LEMMA OneMoreRead ==
    ASSUME TornInv, ReadLine PROVE RowsInv'
<1> USE DEF TornInv, HandleInv
<1>1. /\ consumed \in 0..1 /\ written \in 1..2 /\ consumed < written /\ consumed' = written
      /\ head' = head /\ tail' = tail /\ line' = line
  BY DEF ReadLine
<1>2. rows' = IF Recorded(Unread) THEN Append(rows, parse_line(Unread)) ELSE rows
  BY RowOrNone DEF ReadLine
<1>3. /\ parse_line(head)' = parse_line(head) /\ Recorded(head)' = Recorded(head)
      /\ parse_line(tail)' = parse_line(tail) /\ Recorded(tail)' = Recorded(tail)
      /\ parse_line(line)' = parse_line(line) /\ Recorded(line)' = Recorded(line)
  BY <1>1 DEF parse_line, Recorded, User, Ip
<1>4. CASE consumed = 0
  <2>1. rows = <<>>
    BY <1>4 DEF RowsInv
  <2>2. Unread = IF written = 1 THEN head ELSE line
    BY <1>1, <1>4 DEF Unread
  <2>3. CASE written = 1
    BY <1>1, <1>2, <1>3, <2>1, <2>2, <2>3 DEF RowsInv
  <2>4. CASE written = 2
    BY <1>1, <1>2, <1>3, <2>1, <2>2, <2>4 DEF RowsInv
  <2> QED
    BY <1>1, <2>3, <2>4
<1>5. CASE consumed = 1
  <2>1. Unread = tail /\ consumed' = 2
    BY <1>1, <1>5 DEF Unread
  <2>2. CASE rows = <<>>
    BY <1>2, <1>3, <2>1, <2>2 DEF RowsInv
  <2>3. CASE rows # <<>>
    <3>1. rows = <<parse_line(head)>> /\ Recorded(head)
      BY <1>5, <2>3 DEF RowsInv
    <3> DEFINE row1 == parse_line(head)
               row2 == parse_line(tail)
    <3>2. rows' = rows \/ (rows' = <<row1, row2>> /\ Recorded(tail))
      <4>1. rows' = (IF Recorded(tail) THEN Append(rows, row2) ELSE rows) /\ rows = <<row1>>
        BY <1>2, <2>1, <3>1
      <4>2. Append(<<row1>>, row2) = <<row1, row2>>
        BY TwoRows
      <4> HIDE DEF row1, row2
      <4> QED
        BY <4>1, <4>2
    <3>3. CASE rows' = rows
      BY <1>3, <2>1, <3>1, <3>3 DEF RowsInv
    <3>4. CASE rows' = <<row1, row2>> /\ Recorded(tail)
      BY <1>3, <2>1, <3>1, <3>4 DEF RowsInv
    <3> QED
      BY <3>2, <3>3, <3>4
  <2> QED
    BY <2>2, <2>3
<1> QED
  BY <1>1, <1>4, <1>5

\* Without a read, what was stored stays explained.
LEMMA NothingRead ==
    ASSUME PiecesInv, RowsInv, UNCHANGED <<line, head, tail, consumed, rows>>
    PROVE  PiecesInv' /\ RowsInv'
<1>1. PiecesInv'
  BY DEF PiecesInv, BeginsRight, EndsRight
<1>2. /\ parse_line(head)' = parse_line(head) /\ Recorded(head)' = Recorded(head)
      /\ parse_line(tail)' = parse_line(tail) /\ Recorded(tail)' = Recorded(tail)
      /\ parse_line(line)' = parse_line(line) /\ Recorded(line)' = Recorded(line)
  BY DEF parse_line, Recorded, User, Ip
<1>3. RowsInv'
  BY <1>2 DEF RowsInv
<1> QED
  BY <1>1, <1>3

\* TornInv is inductive.
LEMMA TornInvHolds == Spec => []TornInv
<1>1. ASSUME Init PROVE TornInv
  <2>1. HandleInv /\ RowsInv
    BY <1>1 DEF Init, HandleInv, RowsInv
  <2> QED
    BY <1>1, <2>1, PiecesBegin DEF TornInv
<1>2. ASSUME TornInv, [Next]_vars PROVE TornInv'
  <2>1. ASSUME UNCHANGED vars PROVE TornInv'
    <3>1. HandleInv'
      BY <1>2, <2>1 DEF vars, TornInv, HandleInv
    <3> QED
      BY <1>2, <2>1, <3>1, NothingRead DEF vars, TornInv
  <2>2. ASSUME WriteHalf PROVE TornInv'
    <3>1. HandleInv'
      BY <1>2, <2>2 DEF WriteHalf, TornInv, HandleInv
    <3> QED
      BY <1>2, <2>2, <3>1, NothingRead DEF WriteHalf, TornInv
  <2>3. ASSUME ReadLine PROVE TornInv'
    <3>1. RowsInv'
      BY <1>2, <2>3, OneMoreRead
    <3>2. HandleInv' /\ PiecesInv'
      BY <1>2, <2>3 DEF ReadLine, TornInv, HandleInv, PiecesInv, BeginsRight, EndsRight
    <3> QED
      BY <3>1, <3>2 DEF TornInv
  <2> QED
    BY <1>2, <2>1, <2>2, <2>3 DEF Next, Done
<1> QED
  BY <1>1, <1>2, PTL DEF Spec

\* A row comes from a text that passed the tests.
LEMMA RowSource ==
    ASSUME TornInv, NEW i \in DOMAIN rows
    PROVE  \E text \in {head, tail, line} : rows[i] = parse_line(text) /\ Recorded(text) /\ Len(text) = 7
<1>1. \/ DOMAIN rows = {} \/ DOMAIN rows = {1}
      \/ DOMAIN rows = {1, 2} /\ rows = <<parse_line(head), parse_line(tail)>> /\ Recorded(head) /\ Recorded(tail)
  BY DEF TornInv, RowsInv
<1>2. \E text \in {head, tail, line} : rows[i] = parse_line(text) /\ Recorded(text)
  BY <1>1 DEF TornInv, RowsInv
<1> QED
  BY <1>2 DEF Recorded

-----------------------------------------------------------------------------
(***************************************************************************)
(* TypeOK holds: every row made for the line is a row of the two tables,   *)
(* whatever piece of the line it was made from (parse_line, tailer.py),    *)
(* and never has a time, a command or a status for an address.             *)
(***************************************************************************)
THEOREM TornTypesHold == Spec => []TypeOK
<1>1. ASSUME TornInv PROVE TypeOK
  <2>1. ASSUME NEW i \in DOMAIN rows PROVE rows[i] \in Rows
    <3>1. PICK text \in {head, tail, line} : rows[i] = parse_line(text) /\ Recorded(text) /\ Len(text) = 7
      BY <1>1, <2>1, RowSource
    <3>2. line \in Line /\ PiecesInv
      BY <1>1 DEF TornInv, HandleInv
    <3> QED
      BY <3>1, <3>2, PieceFields, RowOf
  <2> QED
    BY <1>1, <2>1 DEF TornInv, HandleInv, TypeOK
<1> QED
  BY <1>1, TornInvHolds, PTL

(***************************************************************************)
(* AtMostOneRow holds: the pieces have one part more than the line between *)
(* them, and both need seven to give a row (tailer.py 173-180).            *)
(***************************************************************************)
THEOREM OneRowPerLine == Spec => []AtMostOneRow
<1>1. ASSUME TornInv PROVE AtMostOneRow
  <2>1. ASSUME rows = <<parse_line(head), parse_line(tail)>>, Recorded(head), Recorded(tail)
        PROVE  Len(line) = 13
    <3>1. Len(line) \in Nat
      BY <1>1, Fields DEF TornInv, HandleInv
    <3>2. Len(head) = 7 /\ Len(tail) = 7
      BY <2>1 DEF Recorded
    <3>3. Len(head) + Len(tail) = Len(line) + 1
      BY <1>1 DEF TornInv, PiecesInv
    <3> DEFINE n == Len(line)
    <3> HIDE DEF n
    <3>4. n \in Nat /\ 7 + 7 = n + 1
      BY <3>1, <3>2, <3>3 DEF n
    <3>5. n = 13
      BY <3>4
    <3> QED
      BY <3>5 DEF n
  <2>2. CASE Len(rows) \in {0, 1}
    <3> DEFINE n == Len(rows)
    <3> HIDE DEF n
    <3>1. n \in {0, 1}
      BY <2>2 DEF n
    <3>2. n <= 1
      BY <3>1
    <3> QED
      BY <3>2 DEF AtMostOneRow, n
  <2>3. CASE Len(rows) \notin {0, 1}
    BY <1>1, <2>1, <2>3 DEF TornInv, RowsInv, AtMostOneRow
  <2> QED
    BY <2>2, <2>3
<1> QED
  BY <1>1, TornInvHolds, PTL

(***************************************************************************)
(* NeverMisattributed holds: if the path holds no separator, a piece that  *)
(* passes the tests has the user, the address and the path of the line.    *)
(***************************************************************************)
THEOREM NothingIsMisattributed == Spec => []NeverMisattributed
<1>1. ASSUME TornInv PROVE NeverMisattributed
  <2>1. ASSUME Len(line) = 7, NEW i \in DOMAIN rows
        PROVE  /\ Recorded(line) /\ rows[i].table = parse_line(line).table
               /\ rows[i].user = User(line) /\ rows[i].ip = Ip(line)
    <3>1. PICK text \in {head, tail, line} : rows[i] = parse_line(text) /\ Recorded(text) /\ Len(text) = 7
      BY <1>1, <2>1, RowSource
    <3>2. line \in Line /\ PiecesInv
      BY <1>1 DEF TornInv, HandleInv
    <3>3. \A j \in 2..6 : text[j] = line[j]
      BY <2>1, <3>1, <3>2, SameFields
    <3> QED
      BY <2>1, <3>1, <3>2, <3>3, SameRow
  <2> QED
    BY <2>1 DEF NeverMisattributed
<1> QED
  BY <1>1, TornInvHolds, PTL
=============================================================================
