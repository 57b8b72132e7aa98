-------------------------- MODULE NginxLogsProofs ---------------------------
(* Proofs about NginxLogs, for any channel capacity and any number of lines,  *)
(* rotations and restarts.                                                    *)
EXTENDS NginxLogs, SequenceTheorems, TLAPS

USE LogBoundAssumption

-----------------------------------------------------------------------------
(* The inductive invariant.                                                   *)

\* The file holds the newest lines, all of them.
LogIsRecent ==
    /\ Len(log) <= written
    /\ \A i \in 1..Len(log) : log[i].id = written - Len(log) + i

\* What a reader has read up to offset `off` is older than what it will read:
\* older than the file, when that was rotated since, or among its first lines.
Covers(ids, off, isRotated) ==
    /\ ~isRotated => off <= Len(log)
    /\ \A id \in ids : id <= IF isRotated THEN written - Len(log) ELSE written - Len(log) + off

Elems(s) == {s[i] : i \in 1..Len(s)}

\* The audit pipeline holds what its tailer has read.
Piped ==
    /\ last \in read \union {0}
    /\ Elems(batch) \subseteq read /\ Elems(ch) \subseteq read /\ IdsOf(pending) \subseteq read

Before(A, B) == \A x \in A, y \in B : x < y
SortedLines(q) == \A i, j \in 1..Len(q) : i < j => q[i].id < q[j].id

\* It is sorted, stage by stage.
InOrder ==
    /\ Increasing(batch) /\ Increasing(ch) /\ SortedLines(pending)
    /\ Before({last}, Elems(batch)) /\ Before({last}, Elems(ch)) /\ Before({last}, IdsOf(pending))
    /\ Before(Elems(batch), Elems(ch)) /\ Before(Elems(batch), IdsOf(pending))
    /\ Before(Elems(ch), IdsOf(pending))

\* The traffic collector has counted every line it has passed.
AllCounted ==
    tmissed \/ trotated \/ \A i \in 1..toffset : log[i].kind # "other" => log[i].id \in counted

-----------------------------------------------------------------------------
(* Sequences.                                                                 *)

\* A sequence without its head.
LEMMA TailElems ==
    ASSUME NEW S, NEW s \in Seq(S), s # <<>>
    PROVE  /\ Tail(s) \in Seq(S) /\ Len(s) \in Nat \ {0} /\ Len(Tail(s)) = Len(s) - 1
           /\ \A i \in 1..Len(Tail(s)) : i + 1 \in 1..Len(s) /\ Tail(s)[i] = s[i + 1]
           /\ Head(s) = s[1] /\ Head(s) \in S
           /\ Elems(Tail(s)) \subseteq Elems(s) /\ Head(s) \in Elems(s)
<1>1. Len(s) \in Nat \ {0}
  BY EmptySeq
<1>2. /\ Tail(s) \in Seq(S) /\ Len(Tail(s)) = Len(s) - 1
      /\ \A i \in 1..Len(Tail(s)) : Tail(s)[i] = s[i + 1]
      /\ Head(s) \in S
  BY HeadTailProperties
<1>3. \A i \in 1..Len(Tail(s)) : i + 1 \in 1..Len(s)
  BY <1>1, <1>2
<1>4. Head(s) = s[1]
  OBVIOUS
<1>5. Elems(Tail(s)) \subseteq Elems(s)
  BY <1>2, <1>3 DEF Elems
<1>6. Head(s) \in Elems(s)
  BY <1>1, <1>4 DEF Elems
<1> QED
  BY <1>1, <1>2, <1>3, <1>4, <1>5, <1>6

\* A sequence with an element more.
LEMMA AppendElems ==
    ASSUME NEW S, NEW s \in Seq(S), NEW e \in S
    PROVE  /\ Append(s, e) \in Seq(S) /\ Append(s, e) # <<>> /\ Len(Append(s, e)) = Len(s) + 1
           /\ Elems(Append(s, e)) = Elems(s) \union {e}
           /\ \A i \in 1..Len(Append(s, e)) :
                 \/ i \in 1..Len(s) /\ Append(s, e)[i] = s[i]
                 \/ i = Len(s) + 1 /\ Append(s, e)[i] = e
<1>1. Len(s) \in Nat
  BY LenProperties
<1>2. /\ Append(s, e) \in Seq(S) /\ Append(s, e) # <<>> /\ Len(Append(s, e)) = Len(s) + 1
      /\ \A i \in 1..Len(s) : Append(s, e)[i] = s[i]
      /\ Append(s, e)[Len(s) + 1] = e
  BY AppendProperties
<1>3. \A i \in 1..Len(Append(s, e)) :
         \/ i \in 1..Len(s) /\ Append(s, e)[i] = s[i]
         \/ i = Len(s) + 1 /\ Append(s, e)[i] = e
  BY <1>1, <1>2
<1>4. Elems(Append(s, e)) \subseteq Elems(s) \union {e}
  BY <1>3 DEF Elems
<1>5. Elems(s) \union {e} \subseteq Elems(Append(s, e))
  BY <1>1, <1>2 DEF Elems
<1> QED
  BY <1>2, <1>3, <1>4, <1>5

\* The head of an increasing sequence is before the rest.
LEMMA TailSorted ==
    ASSUME NEW s \in Seq(Ids), s # <<>>, Increasing(s)
    PROVE  Increasing(Tail(s)) /\ Before({Head(s)}, Elems(Tail(s)))
<1>1. /\ Len(s) \in Nat \ {0} /\ Len(Tail(s)) = Len(s) - 1 /\ Head(s) = s[1]
      /\ \A i \in 1..Len(Tail(s)) : i + 1 \in 1..Len(s) /\ Tail(s)[i] = s[i + 1]
  BY TailElems
<1>2. \A i, j \in 1..Len(Tail(s)) : i < j => Tail(s)[i] < Tail(s)[j]
  <2> SUFFICES ASSUME NEW i \in 1..Len(Tail(s)), NEW j \in 1..Len(Tail(s)), i < j
               PROVE  Tail(s)[i] < Tail(s)[j]
    OBVIOUS
  <2>1. i + 1 \in 1..Len(s) /\ j + 1 \in 1..Len(s) /\ i + 1 < j + 1
    BY <1>1
  <2>2. s[i + 1] < s[j + 1]
    BY <2>1 DEF Increasing
  <2> QED
    BY <1>1, <2>2
<1>3. \A i \in 1..Len(Tail(s)) : s[1] < Tail(s)[i]
  BY <1>1 DEF Increasing
<1> QED
  BY <1>1, <1>2, <1>3 DEF Increasing, Before, Elems

\* A larger element keeps a sequence increasing.
LEMMA AppendSorted ==
    ASSUME NEW s \in Seq(Ids), NEW e \in Ids, Increasing(s), Before(Elems(s), {e})
    PROVE  Increasing(Append(s, e))
<1>1. Len(s) \in Nat
  BY LenProperties
<1>2. \A i \in 1..Len(Append(s, e)) :
         \/ i \in 1..Len(s) /\ Append(s, e)[i] = s[i]
         \/ i = Len(s) + 1 /\ Append(s, e)[i] = e
  BY AppendElems
<1>3. \A i \in 1..Len(s) : s[i] < e
  BY DEF Before, Elems
<1> QED
  BY <1>1, <1>2, <1>3 DEF Increasing

\* A sequence of one.
LEMMA OneElem ==
    ASSUME NEW e \in Ids
    PROVE  /\ <<e>> \in Seq(Ids) /\ <<e>> # <<>> /\ Elems(<<e>>) = {e} /\ Increasing(<<e>>)
BY DEF Elems, Increasing

\* The empty sequence.
LEMMA NoElems == Elems(<<>>) = {} /\ IdsOf(<<>>) = {} /\ Increasing(<<>>) /\ SortedLines(<<>>)
BY EmptySeq DEF Elems, IdsOf, Increasing, SortedLines

\* The lines after the first one.
LEMMA TailLines ==
    ASSUME NEW q \in Seq(Line), q # <<>>
    PROVE  /\ Tail(q) \in Seq(Line) /\ Head(q) \in Line
           /\ Head(q).id \in IdsOf(q) /\ IdsOf(Tail(q)) \subseteq IdsOf(q)
           /\ SortedLines(q) => SortedLines(Tail(q)) /\ Before({Head(q).id}, IdsOf(Tail(q)))
<1>1. /\ Tail(q) \in Seq(Line) /\ Len(q) \in Nat \ {0} /\ Len(Tail(q)) = Len(q) - 1
      /\ \A i \in 1..Len(Tail(q)) : i + 1 \in 1..Len(q) /\ Tail(q)[i] = q[i + 1]
      /\ Head(q) = q[1] /\ Head(q) \in Line
  BY TailElems
<1>2. Head(q).id \in IdsOf(q) /\ IdsOf(Tail(q)) \subseteq IdsOf(q)
  BY <1>1 DEF IdsOf
<1>3. ASSUME SortedLines(q) PROVE SortedLines(Tail(q))
  <2> SUFFICES ASSUME NEW i \in 1..Len(Tail(q)), NEW j \in 1..Len(Tail(q)), i < j
               PROVE  Tail(q)[i].id < Tail(q)[j].id
    BY DEF SortedLines
  <2>1. i + 1 \in 1..Len(q) /\ j + 1 \in 1..Len(q) /\ i + 1 < j + 1
    BY <1>1
  <2>2. q[i + 1].id < q[j + 1].id
    BY <1>3, <2>1 DEF SortedLines
  <2> QED
    BY <1>1, <2>2
<1>4. ASSUME SortedLines(q) PROVE \A i \in 1..Len(Tail(q)) : q[1].id < Tail(q)[i].id
  BY <1>1, <1>4 DEF SortedLines
<1>5. SortedLines(q) => Before({Head(q).id}, IdsOf(Tail(q)))
  BY <1>1, <1>4 DEF Before, IdsOf
<1> QED
  BY <1>1, <1>2, <1>3, <1>5

-----------------------------------------------------------------------------
(* Reading on from an offset.                                                 *)

\* What a read finds: the lines after the offset, or all of a shorter file, in
\* order, up to the end.
LEMMA ReadFrom ==
    ASSUME log \in Seq(Line), written \in Nat, LogIsRecent, NEW off \in Nat
    PROVE  /\ Len(log) \in Nat /\ Start(off) \in 0..Len(log)
           /\ Start(off) = IF off > Len(log) THEN 0 ELSE off
           /\ Unread(off) \in Seq(Line) /\ Len(Unread(off)) = Len(log) - Start(off)
           /\ \A i \in 1..Len(Unread(off)) :
                 Start(off) + i \in 1..Len(log) /\ Unread(off)[i] = log[Start(off) + i]
           /\ \A i \in 1..Len(log) :
                 i > Start(off) => /\ i - Start(off) \in 1..Len(Unread(off))
                                   /\ Unread(off)[i - Start(off)] = log[i]
           /\ Advanced(off) = Len(log)
           /\ SortedLines(Unread(off))
           /\ IdsOf(Unread(off)) \subseteq Ids
           /\ \A id \in IdsOf(Unread(off)) :
                 written - Len(log) + Start(off) < id /\ id <= written
<1> DEFINE n == Len(log)
           b == Start(off)
           u == Unread(off)
<1>1. n \in Nat /\ \A i \in 1..n : log[i] \in Line
  BY LenProperties, ElementOfSeq
<1>2. b \in 0..n /\ b = IF off > n THEN 0 ELSE off
  BY <1>1 DEF Start
<1>3. u = SubSeq(log, b + 1, n)
  BY DEF Unread
<1> HIDE DEF n, b, u
<1>4. /\ SubSeq(log, b + 1, n) \in Seq(Line)
      /\ Len(SubSeq(log, b + 1, n)) = IF b + 1 <= n THEN n - (b + 1) + 1 ELSE 0
      /\ \A i \in 1..(n - (b + 1) + 1) : SubSeq(log, b + 1, n)[i] = log[(b + 1) + i - 1]
  <2>1. b + 1 \in Int /\ n \in Int /\ \A i \in (b + 1)..n : log[i] \in Line
    BY <1>1, <1>2
  <2> QED
    BY <2>1, SubSeqProperties
<1>5. u \in Seq(Line) /\ Len(u) = n - b
  BY <1>1, <1>2, <1>3, <1>4
<1>6. \A i \in 1..Len(u) : b + i \in 1..n /\ u[i] = log[b + i]
  BY <1>1, <1>2, <1>3, <1>4, <1>5
<1>7. \A i \in 1..n : i > b => i - b \in 1..Len(u) /\ u[i - b] = log[i]
  BY <1>1, <1>2, <1>5, <1>6
<1>8. \A i \in 1..Len(u) : u[i].id = written - n + (b + i)
  BY <1>6 DEF LogIsRecent, n
<1>9. SortedLines(u)
  <2> SUFFICES ASSUME NEW i \in 1..Len(u), NEW j \in 1..Len(u), i < j
               PROVE  u[i].id < u[j].id
    BY DEF SortedLines
  <2>1. i \in Nat /\ j \in Nat
    BY <1>1, <1>2, <1>5
  <2>2. u[i].id = written - n + (b + i) /\ u[j].id = written - n + (b + j)
    BY <1>8
  <2> QED
    BY <1>1, <1>2, <2>1, <2>2
<1>10. \A i \in 1..Len(u) : u[i].id \in Ids
  BY <1>1, <1>6 DEF Line
<1>11. IdsOf(u) \subseteq Ids
  BY <1>10 DEF IdsOf
<1>12. \A i \in 1..Len(u) : written - n + b < u[i].id /\ u[i].id <= written
  <2> SUFFICES ASSUME NEW i \in 1..Len(u)
               PROVE  written - n + b < u[i].id /\ u[i].id <= written
    OBVIOUS
  <2>1. i \in Nat /\ 1 <= i /\ i <= n - b
    BY <1>1, <1>2, <1>5
  <2>2. u[i].id = written - n + (b + i)
    BY <1>8
  <2> QED
    BY <1>1, <1>2, <2>1, <2>2
<1>13. \A id \in IdsOf(u) : written - n + b < id /\ id <= written
  BY <1>12 DEF IdsOf
<1>14. b + Len(u) = n
  BY <1>1, <1>2, <1>5
<1>15. Advanced(off) = n
  BY <1>14 DEF Advanced, n, b, u
<1> QED
  BY <1>1, <1>2, <1>5, <1>6, <1>7, <1>9, <1>11, <1>13, <1>15 DEF n, b, u

-----------------------------------------------------------------------------
(* The file and the types, step by step.                                      *)

TailerInv ==
    /\ LogTypeOK /\ LogIsRecent /\ Piped
    /\ Covers(read, offset, rotated) /\ Covers(counted, toffset, trotated)

\* Types in the form the proofs use.
LEMMA Facts ==
    ASSUME TailerInv
    PROVE  /\ log \in Seq(Line) /\ Len(log) \in Nat /\ written \in Nat /\ Len(log) <= written
           /\ offset \in Nat /\ toffset \in Nat
           /\ read \subseteq Nat /\ counted \subseteq Nat
           /\ \A id \in read : id <= written
           /\ \A id \in counted : id <= written
           /\ rotated \in BOOLEAN /\ trotated \in BOOLEAN /\ missed \in BOOLEAN /\ tmissed \in BOOLEAN
<1>1. log \in Seq(Line) /\ written \in Nat /\ offset \in Nat /\ toffset \in Nat
      /\ read \subseteq Nat /\ counted \subseteq Nat
  BY DEF TailerInv, LogTypeOK, Ids
<1>2. Len(log) \in Nat /\ Len(log) <= written
  BY <1>1, LenProperties DEF TailerInv, LogIsRecent
<1>3. \A id \in read : id <= written
  BY <1>1, <1>2 DEF TailerInv, Covers
<1>4. \A id \in counted : id <= written
  BY <1>1, <1>2 DEF TailerInv, Covers
<1>5. rotated \in BOOLEAN /\ trotated \in BOOLEAN /\ missed \in BOOLEAN /\ tmissed \in BOOLEAN
  <2>1. {rotated, missed, trotated, tmissed} \subseteq BOOLEAN
    BY DEF TailerInv, LogTypeOK
  <2> QED
    BY <2>1, Zenon
<1> QED
  BY <1>1, <1>2, <1>3, <1>4, <1>5

\* Four flags in the form of the type invariant.
LEMMA Flags ==
    ASSUME rotated' \in BOOLEAN, trotated' \in BOOLEAN, missed' \in BOOLEAN, tmissed' \in BOOLEAN
    PROVE  ({rotated, missed, trotated, tmissed} \subseteq BOOLEAN)'
BY Zenon

\* nginx appends a line.
LEMMA RequestTailer ==
    ASSUME TailerInv, NEW kind \in Kinds, Request(kind)
    PROVE  /\ TailerInv'
           /\ Len(log') = Len(log) + 1 /\ \A i \in 1..Len(log) : log'[i] = log[i]
<1> DEFINE l == [id |-> written + 1, kind |-> kind]
<1>1. /\ written < MaxLines /\ written' = written + 1 /\ log' = Append(log, l)
      /\ UNCHANGED <<rotations, crashes, audit, traffic>>
  BY DEF Request
<1>2. UNCHANGED <<offset, pending, ch, batch, loop, last, read, rotated, missed, published, dropped,
                  toffset, trotated, tmissed, counted>>
  BY <1>1 DEF audit, traffic
<1>3. l \in Line /\ written \in 0..MaxLines
  BY <1>1, Facts DEF Line, Ids, TailerInv, LogTypeOK
<1>4. /\ log' \in Seq(Line) /\ Len(log') = Len(log) + 1
      /\ \A i \in 1..Len(log) : log'[i] = log[i]
      /\ log'[Len(log) + 1] = l
  BY <1>1, <1>3, Facts, AppendProperties
<1>5. LogIsRecent'
  <2>1. \A i \in 1..Len(log') : i \in 1..Len(log) \/ i = Len(log) + 1
    BY <1>4, Facts
  <2>2. \A i \in 1..Len(log') : log'[i].id = written' - Len(log') + i
    BY <1>1, <1>4, <2>1, Facts DEF TailerInv, LogIsRecent
  <2> QED
    BY <1>1, <1>4, <2>2, Facts DEF LogIsRecent
<1>6. Covers(read, offset, rotated)' /\ Covers(counted, toffset, trotated)'
  BY <1>1, <1>2, <1>4, Facts DEF TailerInv, Covers
<1>7. ({rotated, missed, trotated, tmissed} \subseteq BOOLEAN)'
  BY <1>2, Facts, Flags
<1>8. LogTypeOK'
  BY <1>1, <1>2, <1>3, <1>4, <1>7 DEF TailerInv, LogTypeOK
<1>9. Piped'
  BY <1>2 DEF TailerInv, Piped
<1> QED
  BY <1>4, <1>5, <1>6, <1>8, <1>9 DEF TailerInv

\* A new file takes the place of the old one: all that was read is older.
LEMMA RotateTailer ==
    ASSUME TailerInv, Rotate
    PROVE  TailerInv'
<1>1. /\ rotations' = rotations + 1 /\ log' = <<>> /\ rotated' = TRUE /\ trotated' = TRUE
      /\ UNCHANGED <<written, crashes, offset, pending, ch, batch, loop, last, read, missed,
                     published, dropped, toffset, tmissed, counted>>
  BY DEF Rotate
<1>2. log' \in Seq(Line) /\ Len(log') = 0
  BY <1>1, EmptySeq
<1>3. LogIsRecent'
  BY <1>1, <1>2, Facts DEF LogIsRecent
<1>4. Covers(read, offset, rotated)' /\ Covers(counted, toffset, trotated)'
  BY <1>1, <1>2, Facts DEF Covers
<1>5. ({rotated, missed, trotated, tmissed} \subseteq BOOLEAN)'
  <2>1. rotated' \in BOOLEAN /\ trotated' \in BOOLEAN /\ missed' \in BOOLEAN /\ tmissed' \in BOOLEAN
    BY <1>1, Facts, Zenon
  <2> QED
    BY <2>1, Flags
<1>6. LogTypeOK'
  BY <1>1, <1>2, <1>5 DEF TailerInv, LogTypeOK
<1>7. Piped'
  BY <1>1 DEF TailerInv, Piped
<1> QED
  BY <1>3, <1>4, <1>6, <1>7 DEF TailerInv

\* The audit tailer reads on to the end of the file.
LEMMA ReadTailer ==
    ASSUME TailerInv, readNewLines
    PROVE  TailerInv'
<1>1. /\ pending = <<>> /\ pending' = Unread(offset) /\ offset' = Advanced(offset)
      /\ read' = read \union IdsOf(Unread(offset))
      /\ missed' = (missed \/ Misses(offset, rotated)) /\ rotated' = FALSE
      /\ UNCHANGED <<log, written, rotations, crashes, ch, batch, loop, last, published, dropped>>
      /\ UNCHANGED <<toffset, trotated, tmissed, counted>>
  BY DEF readNewLines, traffic
<1>2. /\ Unread(offset) \in Seq(Line) /\ Advanced(offset) = Len(log)
      /\ IdsOf(Unread(offset)) \subseteq Ids
      /\ \A id \in IdsOf(Unread(offset)) : id <= written
  BY Facts, ReadFrom DEF TailerInv
<1>3. Covers(read, offset, rotated)'
  <2>1. \A id \in read' : id \in Nat /\ id <= written
    BY <1>1, <1>2, Facts DEF Ids
  <2>2. offset' = Len(log) /\ log' = log /\ written' = written /\ ~rotated'
    BY <1>1, <1>2
  <2> QED
    BY <2>1, <2>2, Facts DEF Covers
<1>4. ({rotated, missed, trotated, tmissed} \subseteq BOOLEAN)'
  <2>1. rotated' \in BOOLEAN /\ trotated' \in BOOLEAN /\ missed' \in BOOLEAN /\ tmissed' \in BOOLEAN
    BY <1>1, Facts, Zenon
  <2> QED
    BY <2>1, Flags
<1>5. LogTypeOK'
  BY <1>1, <1>2, <1>4, Facts DEF TailerInv, LogTypeOK
<1>6. Piped'
  BY <1>1 DEF TailerInv, Piped
<1>7. LogIsRecent' /\ Covers(counted, toffset, trotated)'
  BY <1>1 DEF TailerInv, LogIsRecent, Covers
<1> QED
  BY <1>3, <1>5, <1>6, <1>7 DEF TailerInv

\* Steps of the pipeline move ids on and read nothing.
LEMMA PipeTailer ==
    ASSUME TailerInv,
           UNCHANGED <<log, written, rotations, crashes, offset, read, rotated, missed>>,
           UNCHANGED traffic,
           pending' \in Seq(Line), ch' \in Seq(Ids), Len(ch') <= Cap, batch' \in Seq(Ids),
           loop' \in {"wait", "drain", "publish"}, loop' = "wait" <=> batch' = <<>>,
           published' \subseteq Ids, dropped' \subseteq Ids,
           last' \in {last} \union Elems(batch),
           Elems(batch') \subseteq Elems(batch) \union Elems(ch),
           Elems(ch') \subseteq Elems(ch) \union IdsOf(pending),
           IdsOf(pending') \subseteq IdsOf(pending)
    PROVE  TailerInv'
<1>1. UNCHANGED <<toffset, trotated, tmissed, counted>>
  BY DEF traffic
<1>2. Piped'
  BY DEF TailerInv, Piped
<1>3. last' \in 0..written'
  BY Facts DEF TailerInv, Piped
<1>4. ({rotated, missed, trotated, tmissed} \subseteq BOOLEAN)'
  BY <1>1, Facts, Flags
<1>5. LogTypeOK'
  BY <1>1, <1>3, <1>4 DEF TailerInv, LogTypeOK
<1>6. LogIsRecent' /\ Covers(read, offset, rotated)' /\ Covers(counted, toffset, trotated)'
  BY <1>1 DEF TailerInv, LogIsRecent, Covers
<1> QED
  BY <1>2, <1>5, <1>6 DEF TailerInv

\* Types of the pipeline.
LEMMA PipeTypes ==
    ASSUME TailerInv
    PROVE  /\ pending \in Seq(Line) /\ ch \in Seq(Ids) /\ batch \in Seq(Ids)
           /\ Len(ch) \in Nat /\ Len(batch) \in Nat /\ Len(ch) <= Cap
           /\ Elems(ch) \subseteq Ids /\ Elems(batch) \subseteq Ids
           /\ published \subseteq Ids /\ dropped \subseteq Ids
           /\ loop \in {"wait", "drain", "publish"} /\ (loop = "wait" <=> batch = <<>>)
<1>1. /\ pending \in Seq(Line) /\ ch \in Seq(Ids) /\ batch \in Seq(Ids) /\ Len(ch) <= Cap
      /\ published \subseteq Ids /\ dropped \subseteq Ids
      /\ loop \in {"wait", "drain", "publish"} /\ (loop = "wait" <=> batch = <<>>)
  BY DEF TailerInv, LogTypeOK
<1>2. Len(ch) \in Nat /\ Len(batch) \in Nat
  BY <1>1, LenProperties
<1>3. Elems(ch) \subseteq Ids /\ Elems(batch) \subseteq Ids
  BY <1>1, ElementOfSeq DEF Elems
<1> QED
  BY <1>1, <1>2, <1>3

\* poll hands a line on, or drops its event.
LEMMA pollStep ==
    ASSUME TailerInv, InOrder, poll
    PROVE  TailerInv' /\ InOrder'
<1> DEFINE e == Head(pending).id
<1>1. /\ pending # <<>> /\ pending' = Tail(pending)
      /\ \/ UNCHANGED <<ch, dropped>>
         \/ Len(ch) < Cap /\ ch' = Append(ch, e) /\ UNCHANGED dropped
         \/ dropped' = dropped \union {e} /\ UNCHANGED ch
      /\ UNCHANGED <<log, written, rotations, crashes, offset, batch, loop, last, read,
                     rotated, missed, published, traffic>>
  BY DEF poll, Emit
<1>2. /\ pending' \in Seq(Line) /\ Head(pending) \in Line
      /\ e \in IdsOf(pending) /\ IdsOf(pending') \subseteq IdsOf(pending)
      /\ SortedLines(pending') /\ Before({e}, IdsOf(pending'))
  BY <1>1, PipeTypes, TailLines DEF InOrder
<1>3. e \in Ids
  BY <1>2 DEF Line
<1> HIDE DEF e
<1>4. /\ ch' \in Seq(Ids) /\ Len(ch') <= Cap /\ Increasing(ch')
      /\ Elems(ch') \subseteq Elems(ch) \union {e}
  <2>1. CASE ch' = ch
    BY <2>1, PipeTypes DEF InOrder
  <2>2. CASE Len(ch) < Cap /\ ch' = Append(ch, e)
    <3>1. ch' \in Seq(Ids) /\ Len(ch') = Len(ch) + 1 /\ Elems(ch') = Elems(ch) \union {e}
      BY <1>3, <2>2, PipeTypes, AppendElems
    <3>2. Before(Elems(ch), {e})
      BY <1>2 DEF InOrder, Before
    <3>3. Increasing(ch')
      BY <1>3, <2>2, <3>2, PipeTypes, AppendSorted DEF InOrder
    <3>4. Len(ch') <= Cap
      BY <2>2, <3>1, PipeTypes
    <3> QED
      BY <3>1, <3>3, <3>4
  <2> QED
    BY <1>1, <2>1, <2>2
<1>5. dropped' \subseteq Ids
  BY <1>1, <1>3, PipeTypes
<1>6. TailerInv'
  BY <1>1, <1>2, <1>4, <1>5, PipeTypes, PipeTailer
<1>7. InOrder'
  BY <1>1, <1>2, <1>4 DEF InOrder, Before
<1> QED
  BY <1>6, <1>7

\* auditLoop starts a batch.
LEMMA FirstEventStep ==
    ASSUME TailerInv, InOrder, FirstEvent
    PROVE  TailerInv' /\ InOrder'
<1> DEFINE e == Head(ch)
<1>1. /\ loop = "wait" /\ ch # <<>> /\ batch' = <<e>> /\ ch' = Tail(ch) /\ loop' = "drain"
      /\ UNCHANGED <<log, written, rotations, crashes, offset, pending, last, read, rotated,
                     missed, published, dropped, traffic>>
  BY DEF FirstEvent
<1>2. /\ ch' \in Seq(Ids) /\ Len(ch') = Len(ch) - 1 /\ e \in Ids
      /\ e \in Elems(ch) /\ Elems(ch') \subseteq Elems(ch)
  BY <1>1, PipeTypes, TailElems
<1>3. Increasing(ch') /\ Before({e}, Elems(ch'))
  BY <1>1, PipeTypes, TailSorted DEF InOrder
<1> HIDE DEF e
<1>4. batch' \in Seq(Ids) /\ batch' # <<>> /\ Elems(batch') = {e} /\ Increasing(batch')
  BY <1>1, <1>2, OneElem
<1>5. Len(ch') <= Cap
  BY <1>2, PipeTypes
<1>6. TailerInv'
  BY <1>1, <1>2, <1>4, <1>5, PipeTypes, PipeTailer
<1>7. InOrder'
  BY <1>1, <1>2, <1>3, <1>4 DEF InOrder, Before
<1> QED
  BY <1>6, <1>7

\* auditLoop adds to its batch or has emptied the channel.
LEMMA DrainStep ==
    ASSUME TailerInv, InOrder, Drain
    PROVE  TailerInv' /\ InOrder'
<1>0. /\ loop = "drain" /\ batch # <<>>
      /\ UNCHANGED <<log, written, rotations, crashes, offset, pending, last, read, rotated,
                     missed, published, dropped, traffic>>
  BY PipeTypes DEF Drain
<1>1. CASE ch # <<>> /\ batch' = Drained(Head(ch)) /\ ch' = Tail(ch) /\ loop' = loop
  <2> DEFINE e == Head(ch)
  <2>1. /\ ch' \in Seq(Ids) /\ Len(ch') = Len(ch) - 1 /\ e \in Ids
        /\ e \in Elems(ch) /\ Elems(ch') \subseteq Elems(ch)
    BY <1>1, PipeTypes, TailElems
  <2>2. Increasing(ch') /\ Before({e}, Elems(ch'))
    BY <1>1, PipeTypes, TailSorted DEF InOrder
  <2>3. batch' = Append(batch, e)
    BY <1>1 DEF Drained
  <2> HIDE DEF e
  <2>4. batch' \in Seq(Ids) /\ batch' # <<>> /\ Elems(batch') = Elems(batch) \union {e}
    BY <2>1, <2>3, PipeTypes, AppendElems
  <2>5. Increasing(batch')
    <3>1. Before(Elems(batch), {e})
      BY <2>1 DEF InOrder, Before
    <3> QED
      BY <2>1, <2>3, <3>1, PipeTypes, AppendSorted DEF InOrder
  <2>6. Len(ch') <= Cap
    BY <2>1, PipeTypes
  <2>7. TailerInv'
    BY <1>0, <1>1, <2>1, <2>4, <2>6, PipeTypes, PipeTailer
  <2>8. InOrder'
    BY <1>0, <2>1, <2>2, <2>4, <2>5 DEF InOrder, Before
  <2> QED
    BY <2>7, <2>8
<1>2. CASE loop' = "publish" /\ UNCHANGED <<batch, ch>>
  <2>1. TailerInv'
    BY <1>0, <1>2, PipeTypes, PipeTailer
  <2>2. InOrder'
    BY <1>0, <1>2 DEF InOrder, Before
  <2> QED
    BY <2>1, <2>2
<1> QED
  BY <1>1, <1>2 DEF Drain

\* A batch is published or dropped.
LEMMA PublishStep ==
    ASSUME TailerInv, InOrder, PublishAudit
    PROVE  TailerInv' /\ InOrder'
<1>1. /\ loop = "publish" /\ batch' = <<>> /\ loop' = "wait"
      /\ UNCHANGED <<log, written, rotations, crashes, offset, pending, ch, read, rotated,
                     missed, traffic>>
  BY DEF PublishAudit
<1>2. Len(batch) \in 1..Len(batch)
  <2>1. batch # <<>>
    BY <1>1, PipeTypes
  <2>2. Len(batch) \in Nat \ {0}
    BY <2>1, PipeTypes, EmptySeq
  <2> QED
    BY <2>2
<1>3. InBatch = Elems(batch) /\ batch[Len(batch)] \in Elems(batch)
  BY <1>2 DEF InBatch, Elems
<1>4. /\ last' \in {last} \union Elems(batch)
      /\ published' \subseteq Ids /\ dropped' \subseteq Ids
  BY <1>3, PipeTypes DEF PublishAudit
<1>5. batch' \in Seq(Ids) /\ Elems(batch') = {} /\ Increasing(batch')
  BY <1>1, EmptySeq, NoElems
<1>6. TailerInv'
  BY <1>1, <1>4, <1>5, PipeTypes, PipeTailer
<1>7. InOrder'
  BY <1>1, <1>4, <1>5 DEF InOrder, Before
<1> QED
  BY <1>6, <1>7

\* A traffic window is flushed up to the end of the file.
LEMMA flushStep ==
    ASSUME TailerInv, flush
    PROVE  TailerInv'
<1>1. /\ counted' = counted \union Counted(Unread(toffset)) /\ toffset' = Advanced(toffset)
      /\ tmissed' = (tmissed \/ Misses(toffset, trotated)) /\ trotated' = FALSE
      /\ UNCHANGED <<log, written, rotations, crashes>>
      /\ UNCHANGED <<offset, pending, ch, batch, loop, last, read, rotated, missed, published, dropped>>
  BY DEF flush, audit
<1>2. /\ Advanced(toffset) = Len(log) /\ IdsOf(Unread(toffset)) \subseteq Ids
      /\ \A id \in IdsOf(Unread(toffset)) : id <= written
  BY Facts, ReadFrom DEF TailerInv
<1>3. Counted(Unread(toffset)) \subseteq IdsOf(Unread(toffset))
  BY DEF Counted, IdsOf
<1>4. Covers(counted, toffset, trotated)'
  <2>1. \A id \in counted' : id \in Nat /\ id <= written
    BY <1>1, <1>2, <1>3, Facts DEF Ids
  <2>2. toffset' = Len(log) /\ log' = log /\ written' = written /\ ~trotated'
    BY <1>1, <1>2
  <2> QED
    BY <2>1, <2>2, Facts DEF Covers
<1>5. ({rotated, missed, trotated, tmissed} \subseteq BOOLEAN)'
  <2>1. rotated' \in BOOLEAN /\ trotated' \in BOOLEAN /\ missed' \in BOOLEAN /\ tmissed' \in BOOLEAN
    BY <1>1, Facts, Zenon
  <2> QED
    BY <2>1, Flags
<1>6. LogTypeOK'
  BY <1>1, <1>2, <1>3, <1>5, Facts DEF TailerInv, LogTypeOK
<1>7. Piped' /\ LogIsRecent' /\ Covers(read, offset, rotated)'
  BY <1>1 DEF TailerInv, Piped, LogIsRecent, Covers
<1> QED
  BY <1>4, <1>6, <1>7 DEF TailerInv

\* A restart starts over with empty hands.
LEMMA CrashStep ==
    ASSUME TailerInv, Crash
    PROVE  TailerInv' /\ InOrder'
<1>1. /\ crashes' = crashes + 1 /\ offset' = 0 /\ pending' = <<>> /\ ch' = <<>> /\ batch' = <<>>
      /\ loop' = "wait" /\ last' = 0 /\ read' = {} /\ rotated' = FALSE /\ missed' = FALSE
      /\ toffset' = 0 /\ trotated' = FALSE /\ tmissed' = FALSE /\ counted' = {}
      /\ UNCHANGED <<log, written, rotations, published, dropped>>
  BY DEF Crash
<1>2. /\ pending' \in Seq(Line) /\ ch' \in Seq(Ids) /\ batch' \in Seq(Ids) /\ Len(ch') = 0
      /\ Elems(batch') = {} /\ Elems(ch') = {} /\ IdsOf(pending') = {}
      /\ Increasing(batch') /\ Increasing(ch') /\ SortedLines(pending')
  BY <1>1, EmptySeq, NoElems
<1>3. ({rotated, missed, trotated, tmissed} \subseteq BOOLEAN)'
  <2>1. rotated' \in BOOLEAN /\ trotated' \in BOOLEAN /\ missed' \in BOOLEAN /\ tmissed' \in BOOLEAN
    BY <1>1, Zenon
  <2> QED
    BY <2>1, Flags
<1>4. LogTypeOK'
  BY <1>1, <1>2, <1>3 DEF TailerInv, LogTypeOK
<1>5. Piped' /\ InOrder'
  BY <1>1, <1>2 DEF Piped, InOrder, Before
<1>6. LogIsRecent' /\ Covers(read, offset, rotated)' /\ Covers(counted, toffset, trotated)'
  BY <1>1, Facts DEF TailerInv, LogIsRecent, Covers
<1> QED
  BY <1>4, <1>5, <1>6 DEF TailerInv

\* A read appends to the pipeline: nothing it finds was read before.
LEMMA ReadOrder ==
    ASSUME TailerInv, InOrder, readNewLines
    PROVE  InOrder'
<1>1. /\ pending' = Unread(offset) /\ UNCHANGED <<ch, batch, last>>
  BY DEF readNewLines
<1>2. /\ Start(offset) = IF offset > Len(log) THEN 0 ELSE offset
      /\ SortedLines(Unread(offset)) /\ IdsOf(Unread(offset)) \subseteq Ids
      /\ \A id \in IdsOf(Unread(offset)) : written - Len(log) + Start(offset) < id
  BY Facts, ReadFrom DEF TailerInv
<1>3. \A id \in read : id <= written - Len(log) + Start(offset)
  BY <1>2, Facts DEF TailerInv, Covers
<1>4. Before(read \union {0}, IdsOf(Unread(offset)))
  <2> SUFFICES ASSUME NEW x \in read \union {0}, NEW y \in IdsOf(Unread(offset)) PROVE x < y
    BY DEF Before
  <2>1. y \in Nat /\ y > 0 /\ written - Len(log) + Start(offset) < y
    BY <1>2 DEF Ids
  <2>2. CASE x = 0
    BY <2>1, <2>2
  <2>3. CASE x \in read
    BY <1>2, <1>3, <2>1, <2>3, Facts
  <2> QED
    BY <2>2, <2>3
<1> QED
  BY <1>1, <1>2, <1>4 DEF InOrder, TailerInv, Piped, Before

\* The invariant and the order hold in every reachable state.
LEMMA TailerInvariance == Spec => [](TailerInv /\ InOrder)
<1>1. Init => TailerInv /\ InOrder
  <2> SUFFICES ASSUME Init PROVE TailerInv /\ InOrder
    OBVIOUS
  <2>1. /\ log \in Seq(Line) /\ Len(log) = 0
        /\ pending \in Seq(Line) /\ ch \in Seq(Ids) /\ batch \in Seq(Ids) /\ Len(ch) = 0
        /\ Elems(batch) = {} /\ Elems(ch) = {} /\ IdsOf(pending) = {}
        /\ Increasing(batch) /\ Increasing(ch) /\ SortedLines(pending)
    BY EmptySeq, NoElems DEF Init
  <2>2. {rotated, missed, trotated, tmissed} \subseteq BOOLEAN
    BY Zenon DEF Init
  <2>3. LogTypeOK
    BY <2>1, <2>2 DEF Init, LogTypeOK
  <2>4. Piped /\ InOrder
    BY <2>1 DEF Init, Piped, InOrder, Before
  <2>5. LogIsRecent /\ Covers(read, offset, rotated) /\ Covers(counted, toffset, trotated)
    BY <2>1 DEF Init, LogIsRecent, Covers
  <2> QED
    BY <2>3, <2>4, <2>5 DEF TailerInv
<1>2. TailerInv /\ InOrder /\ [Next]_vars => TailerInv' /\ InOrder'
  <2> SUFFICES ASSUME TailerInv, InOrder, [Next]_vars PROVE TailerInv' /\ InOrder'
    OBVIOUS
  <2>1. ASSUME UNCHANGED <<last, batch, ch, pending>> PROVE InOrder'
    BY <2>1 DEF InOrder
  <2>2. ASSUME NEW kind \in Kinds, Request(kind) PROVE TailerInv' /\ InOrder'
    BY <2>1, <2>2, RequestTailer DEF Request, audit
  <2>3. CASE Rotate
    BY <2>1, <2>3, RotateTailer DEF Rotate
  <2>4. CASE readNewLines
    BY <2>4, ReadTailer, ReadOrder
  <2>5. CASE poll \/ FirstEvent \/ Drain \/ PublishAudit
    BY <2>5, pollStep, FirstEventStep, DrainStep, PublishStep
  <2>6. CASE flush
    BY <2>1, <2>6, flushStep DEF flush, audit
  <2>7. CASE Crash
    BY <2>7, CrashStep
  <2>8. CASE UNCHANGED vars
    <3>1. /\ UNCHANGED <<log, written, rotations, crashes>>
          /\ UNCHANGED <<offset, pending, ch, batch, loop, last, read, rotated, missed, published, dropped>>
          /\ UNCHANGED traffic
      BY <2>8 DEF vars, audit
    <3>2. TailerInv'
      BY <3>1, PipeTypes, PipeTailer
    <3> QED
      BY <2>1, <3>1, <3>2
  <2> QED
    BY <2>2, <2>3, <2>4, <2>5, <2>6, <2>7, <2>8 DEF Next
<1> QED
  BY <1>1, <1>2, PTL DEF Spec

\* The types of NginxLogs hold throughout: the audit channel never holds more
\* than its capacity, and neither offset passes the lines nginx has written,
\* across rotations and restarts.
THEOREM LogTyping == Spec => []LogTypeOK
<1>1. TailerInv => LogTypeOK
  BY DEF TailerInv
<1> QED
  BY <1>1, TailerInvariance, PTL

-----------------------------------------------------------------------------
(* Order.                                                                     *)

\* Two increasing sequences, one before the other, make an increasing one.
LEMMA ConcatIncreasing ==
    ASSUME NEW s \in Seq(Nat), NEW t \in Seq(Nat), Increasing(s), Increasing(t),
           Before(Elems(s), Elems(t))
    PROVE  /\ s \o t \in Seq(Nat) /\ Increasing(s \o t)
           /\ Elems(s \o t) = Elems(s) \union Elems(t)
<1> DEFINE m == Len(s)
           n == Len(t)
           c == s \o t
<1>1. m \in Nat /\ n \in Nat
  BY LenProperties
<1>2. /\ c \in Seq(Nat) /\ Len(c) = m + n
      /\ \A i \in 1..(m + n) : c[i] = IF i <= m THEN s[i] ELSE t[i - m]
  BY ConcatProperties
<1>3. \A i \in 1..m, j \in 1..n : s[i] < t[j]
  BY DEF Before, Elems
<1> HIDE DEF m, n, c
<1>4. \A i \in 1..Len(c) : \/ i \in 1..m /\ c[i] = s[i]
                           \/ i > m /\ i - m \in 1..n /\ c[i] = t[i - m]
  BY <1>1, <1>2
<1>5. Increasing(c)
  <2> SUFFICES ASSUME NEW i \in 1..Len(c), NEW j \in 1..Len(c), i < j PROVE c[i] < c[j]
    BY DEF Increasing
  <2>0. i \in Int /\ j \in Int
    OBVIOUS
  <2>1. CASE j <= m
    <3>1. i \in 1..m /\ j \in 1..m /\ c[i] = s[i] /\ c[j] = s[j]
      BY <1>1, <1>4, <2>0, <2>1
    <3> QED
      BY <3>1 DEF Increasing, m
  <2>2. CASE i <= m /\ j > m
    <3>1. i \in 1..m /\ j - m \in 1..n /\ c[i] = s[i] /\ c[j] = t[j - m]
      BY <1>1, <1>4, <2>0, <2>2
    <3> QED
      BY <1>3, <3>1
  <2>3. CASE i > m
    <3>1. i - m \in 1..n /\ j - m \in 1..n /\ c[i] = t[i - m] /\ c[j] = t[j - m] /\ i - m < j - m
      BY <1>1, <1>4, <2>0, <2>3
    <3> QED
      BY <3>1 DEF Increasing, n
  <2> QED
    BY <1>1, <2>0, <2>1, <2>2, <2>3
<1>6. Elems(c) \subseteq Elems(s) \union Elems(t)
  BY <1>4 DEF Elems, m, n
<1>7. Elems(s) \subseteq Elems(c)
  <2>1. \A i \in 1..m : i \in 1..Len(c) /\ c[i] = s[i]
    BY <1>1, <1>2
  <2> QED
    BY <2>1 DEF Elems, m
<1>8. Elems(t) \subseteq Elems(c)
  <2>1. \A j \in 1..n : j + m \in 1..Len(c) /\ c[j + m] = t[(j + m) - m] /\ (j + m) - m = j
    BY <1>1, <1>2
  <2> QED
    BY <2>1 DEF Elems, n
<1> QED
  BY <1>2, <1>5, <1>6, <1>7, <1>8 DEF c

\* Audit events are published in log order and none twice while the agent runs,
\* for any channel capacity and however reading, draining, rotation and restart
\* interleave (auditTailer, auditLoop).
THEOREM AuditInOrderAlways == Spec => []AuditInOrder
<1>1. TailerInv /\ InOrder => AuditInOrder
  <2> SUFFICES ASSUME TailerInv, InOrder PROVE AuditInOrder
    OBVIOUS
  <2> DEFINE p == [i \in 1..Len(pending) |-> pending[i].id]
  <2>1. last \in Nat /\ batch \in Seq(Nat) /\ ch \in Seq(Nat)
    <3>1. last \in Nat
      BY Facts DEF TailerInv, LogTypeOK
    <3>2. ASSUME NEW s \in Seq(Ids) PROVE s \in Seq(Nat)
      <4>1. /\ Len(s) \in Nat /\ s = [i \in 1..Len(s) |-> s[i]]
            /\ \A i \in 1..Len(s) : s[i] \in Nat
        BY LenProperties DEF Ids
      <4>2. [i \in 1..Len(s) |-> s[i]] \in Seq(Nat)
        BY <4>1
      <4> QED
        BY <4>1, <4>2
    <3> QED
      BY <3>1, <3>2, PipeTypes
  <2>2. p \in Seq(Nat) /\ Elems(p) = IdsOf(pending) /\ Increasing(p)
    <3>1. Len(pending) \in Nat /\ \A i \in 1..Len(pending) : pending[i] \in Line
      BY PipeTypes, LenProperties, ElementOfSeq
    <3>2. \A i \in 1..Len(pending) : pending[i].id \in Nat
      BY <3>1 DEF Line, Ids
    <3>3. p \in Seq(Nat) /\ Len(p) = Len(pending)
      BY <3>1, <3>2
    <3>4. \A i \in 1..Len(pending) : p[i] = pending[i].id
      OBVIOUS
    <3> HIDE DEF p
    <3>5. Elems(p) = IdsOf(pending)
      BY <3>3, <3>4 DEF Elems, IdsOf
    <3>6. Increasing(p)
      BY <3>3, <3>4 DEF InOrder, SortedLines, Increasing
    <3> QED
      BY <3>3, <3>5, <3>6
  <2>3. <<last>> \in Seq(Nat) /\ Elems(<<last>>) = {last} /\ Increasing(<<last>>)
    BY <2>1 DEF Elems, Increasing
  <2> HIDE DEF p
  <2>4. /\ <<last>> \o batch \in Seq(Nat) /\ Increasing(<<last>> \o batch)
        /\ Elems(<<last>> \o batch) = {last} \union Elems(batch)
    BY <2>1, <2>3, ConcatIncreasing DEF InOrder
  <2>5. Before(Elems(<<last>> \o batch), Elems(ch))
    BY <2>4 DEF InOrder, Before
  <2>6. /\ (<<last>> \o batch) \o ch \in Seq(Nat) /\ Increasing((<<last>> \o batch) \o ch)
        /\ Elems((<<last>> \o batch) \o ch) = ({last} \union Elems(batch)) \union Elems(ch)
    BY <2>1, <2>4, <2>5, ConcatIncreasing DEF InOrder
  <2>7. Before(Elems((<<last>> \o batch) \o ch), Elems(p))
    BY <2>2, <2>6 DEF InOrder, Before
  <2>8. Increasing(((<<last>> \o batch) \o ch) \o p)
    BY <2>2, <2>6, <2>7, ConcatIncreasing
  <2> QED
    BY <2>8 DEF AuditInOrder, p
<1> QED
  BY <1>1, TailerInvariance, PTL

-----------------------------------------------------------------------------
(* What is stepped over.                                                      *)

\* The lines before the offset are read ones: those it started from, and those
\* the read has just added. A file shorter than the offset is read from its
\* first line, and one that has outgrown it is the rotation that goes missed.
LEMMA ReadSkips ==
    ASSUME TailerInv, OnlyMissedRotationSkips, readNewLines
    PROVE  OnlyMissedRotationSkips'
<1>1. /\ offset' = Advanced(offset) /\ read' = read \union IdsOf(Unread(offset))
      /\ missed' = (missed \/ Misses(offset, rotated)) /\ log' = log
  BY DEF readNewLines
<1>2. /\ Start(offset) = IF offset > Len(log) THEN 0 ELSE offset
      /\ Start(offset) \in 0..Len(log)
      /\ \A i \in 1..Len(log) :
            i > Start(offset) => /\ i - Start(offset) \in 1..Len(Unread(offset))
                                 /\ Unread(offset)[i - Start(offset)] = log[i]
      /\ Advanced(offset) = Len(log)
  BY Facts, ReadFrom DEF TailerInv
<1>3. \A i \in 1..Len(log) : i > Start(offset) => log[i].id \in read'
  BY <1>1, <1>2 DEF IdsOf
<1>4. CASE missed \/ Misses(offset, rotated)
  BY <1>1, <1>4, Zenon DEF OnlyMissedRotationSkips
<1>5. CASE ~missed /\ ~Misses(offset, rotated)
  <2>1. \A i \in 1..Len(log) : i <= Start(offset) => log[i].id \in read
    <3>1. CASE rotated
      <4>1. Start(offset) = 0
        BY <1>2, <1>5, <3>1, Facts DEF Misses
      <4> QED
        BY <4>1, Facts
    <3>2. CASE ~rotated
      <4>1. \A i \in 1..offset : log[i].id \in read
        BY <1>5, <3>2 DEF OnlyMissedRotationSkips
      <4>2. Start(offset) <= offset
        BY <1>2, Facts
      <4> QED
        BY <1>2, <4>1, <4>2, Facts
    <3> QED
      BY <3>1, <3>2
  <2>2. \A i \in 1..Len(log) : log[i].id \in read'
    BY <1>1, <1>2, <1>3, <2>1, Facts
  <2> QED
    BY <1>1, <1>2, <2>2 DEF OnlyMissedRotationSkips
<1> QED
  BY <1>4, <1>5

\* Whatever nginx logs and whenever it rotates the file, the audit tailer steps
\* over a line without reading it only when the new file had outgrown its
\* offset by the next poll (readNewLines compares the offset with the size).
THEOREM OnlyMissedRotationSkipsAlways == Spec => []OnlyMissedRotationSkips
<1>1. Init => OnlyMissedRotationSkips
  BY DEF Init, OnlyMissedRotationSkips
<1>2. TailerInv /\ OnlyMissedRotationSkips /\ [Next]_vars => OnlyMissedRotationSkips'
  <2> SUFFICES ASSUME TailerInv, OnlyMissedRotationSkips, [Next]_vars
               PROVE  OnlyMissedRotationSkips'
    OBVIOUS
  <2>1. ASSUME UNCHANGED <<log, offset, read, missed, rotated>> PROVE OnlyMissedRotationSkips'
    BY <2>1 DEF OnlyMissedRotationSkips
  <2>2. ASSUME NEW kind \in Kinds, Request(kind) PROVE OnlyMissedRotationSkips'
    <3>1. UNCHANGED <<offset, read, missed, rotated>>
      BY <2>2 DEF Request, audit
    <3>2. \A i \in 1..Len(log) : log'[i] = log[i]
      BY <2>2, RequestTailer
    <3>3. CASE missed \/ rotated
      BY <3>1, <3>3 DEF OnlyMissedRotationSkips
    <3>4. CASE ~missed /\ ~rotated
      <4>1. offset <= Len(log) /\ \A i \in 1..offset : log[i].id \in read
        BY <3>4 DEF TailerInv, Covers, OnlyMissedRotationSkips
      <4>2. \A i \in 1..offset : log'[i].id \in read
        BY <3>2, <4>1, Facts
      <4> QED
        BY <3>1, <4>2 DEF OnlyMissedRotationSkips
    <3> QED
      BY <3>3, <3>4
  <2>3. CASE Rotate
    BY <2>3, Zenon DEF Rotate, OnlyMissedRotationSkips
  <2>4. CASE readNewLines
    BY <2>4, ReadSkips
  <2>5. CASE poll \/ FirstEvent \/ Drain \/ PublishAudit
    BY <2>1, <2>5 DEF poll, FirstEvent, Drain, PublishAudit
  <2>6. CASE flush
    BY <2>1, <2>6 DEF flush, audit
  <2>7. CASE Crash
    BY <2>7 DEF Crash, OnlyMissedRotationSkips
  <2>8. CASE UNCHANGED vars
    BY <2>1, <2>8 DEF vars, audit
  <2> QED
    BY <2>2, <2>3, <2>4, <2>5, <2>6, <2>7, <2>8 DEF Next
<1> QED
  BY <1>1, <1>2, TailerInvariance, PTL DEF Spec

-----------------------------------------------------------------------------
(* Traffic windows.                                                           *)

\* What a flush adds to the window: the lines past the offset that count.
LEMMA CountedLines ==
    ASSUME TailerInv
    PROVE  /\ Counted(Unread(toffset)) \subseteq IdsOf(Unread(toffset))
           /\ \A i \in 1..Len(log) :
                 i > Start(toffset) /\ log[i].kind # "other"
                   => log[i].id \in Counted(Unread(toffset))
<1>1. \A i \in 1..Len(log) :
         i > Start(toffset) => /\ i - Start(toffset) \in 1..Len(Unread(toffset))
                               /\ Unread(toffset)[i - Start(toffset)] = log[i]
  BY Facts, ReadFrom DEF TailerInv
<1>2. Counted(Unread(toffset)) \subseteq IdsOf(Unread(toffset))
  BY DEF Counted, IdsOf
<1>3. ASSUME NEW i \in 1..Len(log), i > Start(toffset), log[i].kind # "other"
      PROVE  log[i].id \in Counted(Unread(toffset))
  <2>1. /\ i - Start(toffset) \in 1..Len(Unread(toffset))
        /\ Unread(toffset)[i - Start(toffset)] = log[i]
    BY <1>1, <1>3
  <2>2. PICK j \in 1..Len(Unread(toffset)) : Unread(toffset)[j] = log[i]
    BY <2>1
  <2>3. Unread(toffset)[j].kind # "other" /\ Unread(toffset)[j].id = log[i].id
    BY <1>3, <2>2
  <2> QED
    BY <2>3 DEF Counted
<1> QED
  BY <1>2, <1>3

\* A flush counts what is past the offset, and nothing before it was left out.
LEMMA flushCounts ==
    ASSUME TailerInv, AllCounted, flush
    PROVE  AllCounted'
<1>1. /\ toffset' = Advanced(toffset) /\ counted' = counted \union Counted(Unread(toffset))
      /\ tmissed' = (tmissed \/ Misses(toffset, trotated)) /\ log' = log
  BY DEF flush
<1>2. /\ Start(toffset) = IF toffset > Len(log) THEN 0 ELSE toffset
      /\ Start(toffset) \in 0..Len(log) /\ Advanced(toffset) = Len(log)
  BY Facts, ReadFrom DEF TailerInv
<1>3. \A i \in 1..Len(log) : i > Start(toffset) /\ log[i].kind # "other" => log[i].id \in counted'
  BY <1>1, CountedLines
<1>4. CASE tmissed \/ Misses(toffset, trotated)
  BY <1>1, <1>4, Zenon DEF AllCounted
<1>5. CASE ~tmissed /\ ~Misses(toffset, trotated)
  <2>1. \A i \in 1..Len(log) : i <= Start(toffset) /\ log[i].kind # "other" => log[i].id \in counted
    <3>1. CASE trotated
      <4>1. Start(toffset) = 0
        BY <1>2, <1>5, <3>1, Facts DEF Misses
      <4> QED
        BY <4>1, Facts
    <3>2. CASE ~trotated
      <4>1. \A i \in 1..toffset : log[i].kind # "other" => log[i].id \in counted
        BY <1>5, <3>2 DEF AllCounted
      <4>2. Start(toffset) <= toffset
        BY <1>2, Facts
      <4> QED
        BY <1>2, <4>1, <4>2, Facts
    <3> QED
      BY <3>1, <3>2
  <2>2. \A i \in 1..Len(log) : log[i].kind # "other" => log[i].id \in counted'
    BY <1>1, <1>2, <1>3, <2>1, Facts
  <2> QED
    BY <1>1, <1>2, <2>2 DEF AllCounted
<1> QED
  BY <1>4, <1>5

\* What the collector has passed is counted, in every reachable state.
LEMMA Counting == Spec => []AllCounted
<1>1. Init => AllCounted
  BY DEF Init, AllCounted
<1>2. TailerInv /\ AllCounted /\ [Next]_vars => AllCounted'
  <2> SUFFICES ASSUME TailerInv, AllCounted, [Next]_vars PROVE AllCounted'
    OBVIOUS
  <2>1. ASSUME UNCHANGED log, UNCHANGED traffic PROVE AllCounted'
    BY <2>1 DEF AllCounted, traffic
  <2>2. ASSUME NEW kind \in Kinds, Request(kind) PROVE AllCounted'
    <3>1. UNCHANGED <<toffset, counted, tmissed, trotated>>
      BY <2>2 DEF Request, traffic
    <3>2. \A i \in 1..Len(log) : log'[i] = log[i]
      BY <2>2, RequestTailer
    <3>3. CASE tmissed \/ trotated
      BY <3>1, <3>3 DEF AllCounted
    <3>4. CASE ~tmissed /\ ~trotated
      <4>1. toffset <= Len(log) /\ \A i \in 1..toffset : log[i].kind # "other" => log[i].id \in counted
        BY <3>4 DEF TailerInv, Covers, AllCounted
      <4>2. \A i \in 1..toffset : log'[i] = log[i]
        BY <3>2, <4>1, Facts
      <4> QED
        BY <3>1, <4>1, <4>2 DEF AllCounted
    <3> QED
      BY <3>3, <3>4
  <2>3. CASE Rotate
    BY <2>3, Zenon DEF Rotate, AllCounted
  <2>4. CASE readNewLines \/ poll \/ FirstEvent \/ Drain \/ PublishAudit
    BY <2>1, <2>4 DEF readNewLines, poll, FirstEvent, Drain, PublishAudit
  <2>5. CASE flush
    BY <2>5, flushCounts
  <2>6. CASE Crash
    BY <2>6 DEF Crash, AllCounted
  <2>7. CASE UNCHANGED vars
    BY <2>1, <2>7 DEF vars
  <2> QED
    BY <2>2, <2>3, <2>4, <2>5, <2>6, <2>7 DEF Next
<1> QED
  BY <1>1, <1>2, TailerInvariance, PTL DEF Spec

\* Whoever asks for the traffic windows and whenever the file is rotated: no
\* request is counted in two of them, and one that none will count was stepped
\* over by a missed rotation (FlushTraffic, called by s3TelemetryLoop and by
\* s3.bucket.stats).
THEOREM TrafficCountedOnceAlways == Spec => []TrafficCountedOnce
<1>1. TailerInv /\ AllCounted => TrafficCountedOnce
  <2> SUFFICES ASSUME TailerInv, AllCounted PROVE TrafficCountedOnce
    OBVIOUS
  <2>1. /\ Start(toffset) = IF toffset > Len(log) THEN 0 ELSE toffset
        /\ IdsOf(Unread(toffset)) \subseteq Ids
        /\ \A id \in IdsOf(Unread(toffset)) : written - Len(log) + Start(toffset) < id
    BY Facts, ReadFrom DEF TailerInv
  <2>2. \A id \in counted : id <= written - Len(log) + Start(toffset)
    BY <2>1, Facts DEF TailerInv, Covers
  <2>3. Counted(Unread(toffset)) \intersect counted = {}
    <3>1. \A id \in IdsOf(Unread(toffset)) : id \notin counted
      BY <2>1, <2>2, Facts
    <3> QED
      BY <3>1, CountedLines
  <2>4. ASSUME ~tmissed, ~trotated
        PROVE  Counted(log) \subseteq counted \union Counted(Unread(toffset))
    <3>1. Start(toffset) = toffset /\ toffset <= Len(log)
      BY <2>1, <2>4, Facts DEF TailerInv, Covers
    <3>2. \A i \in 1..toffset : log[i].kind # "other" => log[i].id \in counted
      BY <2>4 DEF AllCounted
    <3>3. \A i \in 1..Len(log) :
             log[i].kind # "other" => log[i].id \in counted \union Counted(Unread(toffset))
      BY <3>1, <3>2, CountedLines, Facts
    <3> QED
      BY <3>3 DEF Counted
  <2> QED
    BY <2>3, <2>4 DEF TrafficCountedOnce
<1> QED
  BY <1>1, TailerInvariance, Counting, PTL
=============================================================================
