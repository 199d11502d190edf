---------------------------- MODULE ScreensProofs ----------------------------
(***************************************************************************)
(* Theorems about Screens, for any table, any lines, any size of a page    *)
(* and any limit of a message that holds a character.                      *)
(***************************************************************************)
EXTENDS Screens, CallbackProofs

-----------------------------------------------------------------------------
(* Sequences                                                               *)

LEMMA PartOfSeq ==
  ASSUME NEW S, NEW s \in Seq(S), NEW m \in 1 .. Len(s), NEW n \in m .. Len(s)
  PROVE  /\ SubSeq(s, m, n) \in Seq(S)
         /\ Len(SubSeq(s, m, n)) = n - m + 1
         /\ DOMAIN SubSeq(s, m, n) = 1 .. (n - m + 1)
         /\ \A i \in 1 .. (n - m + 1) : SubSeq(s, m, n)[i] = s[m + i - 1]
<1>1. m \in Int /\ n \in Int /\ \A i \in m .. n : s[i] \in S
  BY LenProperties, ElementOfSeq
<1>2. /\ SubSeq(s, m, n) \in Seq(S)
      /\ Len(SubSeq(s, m, n)) = IF m <= n THEN n - m + 1 ELSE 0
      /\ \A i \in 1 .. n - m + 1 : SubSeq(s, m, n)[i] = s[m + i - 1]
  BY <1>1, SubSeqProperties
<1> QED
  BY <1>2, LenProperties

LEMMA FirstPart ==
  ASSUME NEW S, NEW s \in Seq(S), NEW n \in 1 .. Len(s)
  PROVE  /\ SubSeq(s, 1, n) \in Seq(S)
         /\ Len(SubSeq(s, 1, n)) = n
         /\ SubSeq(s, 1, n)[1] = s[1]
<1>1. 1 \in 1 .. Len(s) /\ Len(s) \in Nat
  BY LenProperties
<1>2. /\ SubSeq(s, 1, n) \in Seq(S)
      /\ Len(SubSeq(s, 1, n)) = n - 1 + 1
      /\ \A i \in 1 .. (n - 1 + 1) : SubSeq(s, 1, n)[i] = s[1 + i - 1]
  BY <1>1, PartOfSeq
<1> QED
  BY <1>1, <1>2

-----------------------------------------------------------------------------
(* safeCut                                                                 *)

LEMMA CutAtCharacter ==
  ASSUME NEW line, IsText(line), NEW limit \in Nat, limit >= 4, Len(line) > limit
  PROVE  /\ safeCut(line, limit) \in 1 .. limit
         /\ isUTF8Start(line[safeCut(line, limit) + 1])
<1> DEFINE starts == {cut \in 1 .. limit : isUTF8Start(line[cut + 1])}
<1>1. line \in Seq(0 .. 255) /\ Len(line) \in Nat /\ DOMAIN line = 1 .. Len(line)
  BY LenProperties DEF IsText
<1>2. limit - 2 \in DOMAIN line /\ limit + 1 \in DOMAIN line
  BY <1>1
<1>3. PICK j \in (limit - 2) .. (limit + 1) : isUTF8Start(line[j])
  <2>1. limit - 2 + 3 = limit + 1
    OBVIOUS
  <2> QED
    BY <1>2, <2>1 DEF IsText, WholeCharacters
<1>4. j - 1 \in starts
  BY <1>3
<1>5. Max(starts) \in starts
  BY <1>4, MaxOfNumbers
<1> QED
  BY <1>4, <1>5 DEF safeCut

(* What is left of a line after a cut is a text again.                     *)
LEMMA RestIsText ==
  ASSUME NEW line, IsText(line), NEW cut \in 1 .. (Len(line) - 1),
         isUTF8Start(line[cut + 1])
  PROVE  IsText(SubSeq(line, cut + 1, Len(line)))
<1> DEFINE rest == SubSeq(line, cut + 1, Len(line))
<1>1. line \in Seq(0 .. 255) /\ Len(line) \in Nat /\ DOMAIN line = 1 .. Len(line)
  BY LenProperties DEF IsText
<1>2. /\ rest \in Seq(0 .. 255)
      /\ Len(rest) = Len(line) - cut
      /\ DOMAIN rest = 1 .. (Len(line) - cut)
      /\ \A i \in 1 .. (Len(line) - cut) : rest[i] = line[cut + i]
  <2>1. PICK m \in 1 .. Len(line) : m = cut + 1
    BY <1>1
  <2>2. PICK n \in m .. Len(line) : n = Len(line)
    <3>1. Len(line) \in m .. Len(line)
      BY <1>1, <2>1
    <3> QED
      BY <3>1
  <2>3. /\ SubSeq(line, m, n) \in Seq(0 .. 255)
        /\ Len(SubSeq(line, m, n)) = n - m + 1
        /\ DOMAIN SubSeq(line, m, n) = 1 .. (n - m + 1)
        /\ \A i \in 1 .. (n - m + 1) : SubSeq(line, m, n)[i] = line[m + i - 1]
    BY <1>1, PartOfSeq, ZenonT(60)
  <2>4. rest = SubSeq(line, m, n) /\ n - m + 1 = Len(line) - cut
    BY <1>1, <2>1, <2>2
  <2> HIDE DEF rest
  <2>5. ASSUME NEW i \in 1 .. (Len(line) - cut)
        PROVE  m + i - 1 = cut + i
    BY <1>1, <2>1
  <2> QED
    BY <2>3, <2>4, <2>5
<1>3. ASSUME NEW i \in DOMAIN rest, i + 3 \in DOMAIN rest
      PROVE  \E j \in i .. (i + 3) : isUTF8Start(rest[j])
  <2>1. cut + i \in DOMAIN line /\ cut + i + 3 \in DOMAIN line
    BY <1>1, <1>2, <1>3
  <2>2. PICK k \in (cut + i) .. (cut + i + 3) : isUTF8Start(line[k])
    BY <2>1 DEF IsText, WholeCharacters
  <2>3. i \in 1 .. (Len(line) - cut) /\ i + 3 \in 1 .. (Len(line) - cut)
    BY <1>2, <1>3
  <2>4. k - cut \in i .. (i + 3) /\ k - cut \in 1 .. (Len(line) - cut)
    BY <1>1, <2>2, <2>3
  <2> HIDE DEF rest
  <2>5. cut + (k - cut) = k
    BY <2>2
  <2>6. rest[k - cut] = line[cut + (k - cut)]
    BY <1>2, <2>4
  <2>7. isUTF8Start(rest[k - cut])
    BY <2>2, <2>5, <2>6
  <2> QED
    BY <2>4, <2>7
<1>4. isUTF8Start(rest[1])
  <2>1. 1 \in 1 .. (Len(line) - cut)
    BY <1>1
  <2>2. rest[1] = line[cut + 1]
    BY <1>2, <2>1
  <2> QED
    BY <2>2
<1> QED
  BY <1>2, <1>3, <1>4 DEF IsText, WholeCharacters
-----------------------------------------------------------------------------
(* paginate                                                                *)

PageCount(n, size) == (n + size - 1) \div size

(* Where a page ends; it begins where the page before it ended.            *)
PageEnd(n, size, p) == IF (p + 1) * size < n THEN (p + 1) * size ELSE n

LEMMA PageNumbers ==
  ASSUME NEW n \in Nat, NEW size \in Nat \ {0}
  PROVE  /\ PageCount(n, size) \in Nat
         /\ n = 0 <=> PageCount(n, size) = 0
         /\ PageCount(n, size) * size >= n
         /\ n > 0 => (PageCount(n, size) - 1) * size < n
<1> DEFINE m == n + size - 1
           q == PageCount(n, size)
<1>1. m \in Nat /\ m \div size \in Int /\ m % size \in 0 .. (size - 1)
  OBVIOUS
<1>2. m = size * (m \div size) + (m % size)
  OBVIOUS
<1>3. q \in Int /\ q * size \in Int /\ m - q * size \in 0 .. (size - 1)
  BY <1>1, <1>2 DEF PageCount
<1>4. q >= 0
  <2>1. CASE q <= -1
    <3>1. q * size <= (-1) * size
      BY <1>3, <2>1, SMT
    <3> QED
      BY <1>1, <1>3, <3>1
  <2> QED
    BY <1>3, <2>1
<1>5. (q - 1) * size = q * size - size
  BY <1>3
<1>6. n = 0 => q = 0
  <2>1. CASE q >= 1
    <3>1. q * size >= size
      BY <1>3, <2>1, SMT
    <3> QED
      BY <1>3, <3>1
  <2> QED
    BY <1>3, <1>4, <2>1
<1>7. q = 0 => n = 0
  BY <1>3
<1> QED
  BY <1>3, <1>4, <1>5, <1>6, <1>7

(* A page is a part of the list, with the number asked for or the nearest  *)
(* one, and never empty.                                                   *)
LEMMA PageOfList ==
  ASSUME NEW S, NEW items \in Seq(S), items # <<>>, NEW size \in Nat \ {0},
         NEW page \in Nat
  PROVE  LET n     == Len(items)
             total == PageCount(n, size)
             p     == clamped(page, total)
         IN /\ paginate(items, page, size) =
                  [items |-> SubSeq(items, p * size + 1, PageEnd(n, size, p)),
                   page |-> p, total |-> total]
            /\ total \in Nat \ {0}
            /\ p \in 0 .. (total - 1)
            /\ page < total => p = page
            /\ p * size \in 0 .. (n - 1)
            /\ PageEnd(n, size, p) \in (p * size + 1) .. n
<1> DEFINE n     == Len(items)
           total == PageCount(n, size)
           p     == clamped(page, total)
<1>1. n \in Nat \ {0}
  BY LenProperties, EmptySeq
<1> HIDE DEF n
<1> HIDE DEF total
<1>2. total \in Nat \ {0} /\ (total - 1) * size < n
  <2>1. /\ PageCount(n, size) \in Nat
        /\ n = 0 <=> PageCount(n, size) = 0
        /\ n > 0 => (PageCount(n, size) - 1) * size < n
    BY <1>1, PageNumbers
  <2>2. total = PageCount(n, size)
    BY DEF total
  <2>3. n > 0 /\ n # 0
    BY <1>1
  <2> QED
    BY <2>1, <2>2, <2>3
<1>3. p \in 0 .. (total - 1) /\ (page < total => p = page)
  BY <1>2 DEF clamped
<1> HIDE DEF p
<1>4. p * size \in Nat /\ p * size <= (total - 1) * size
  BY <1>2, <1>3, SMT
<1>5. (p + 1) * size = p * size + size
  BY <1>3
<1>6. p * size \in 0 .. (n - 1)
  BY <1>1, <1>2, <1>4
<1>7. PageEnd(n, size, p) \in (p * size + 1) .. n
  BY <1>1, <1>5, <1>6 DEF PageEnd
<1>8. paginate(items, page, size) =
         [items |-> SubSeq(items, p * size + 1, PageEnd(n, size, p)),
          page |-> p, total |-> total]
  <2>1. total = (Len(items) + size - 1) \div size /\ total # 0 /\ ~(size <= 0)
    BY <1>2 DEF PageCount, total, n
  <2>2. PageEnd(n, size, p) = IF p * size + size < n THEN p * size + size ELSE n
    BY <1>5 DEF PageEnd
  <2> QED
    BY <2>1, <2>2, Zenon DEF paginate, p, n
<1> QED
  BY <1>2, <1>3, <1>6, <1>7, <1>8, Zenon DEF n, total, p

-----------------------------------------------------------------------------
(* The messages                                                            *)

Sendable(msg) == Len(msg) \in 1 .. Limit /\ isUTF8Start(msg[1])

AllText(lines) == \A i \in DOMAIN lines : IsText(lines[i])

AllSendable(msgs) == \A i \in DOMAIN msgs : Sendable(msgs[i])

(* The record job has its fields; nothing is said of the keyboard.         *)
JobRecord ==
    [pc : {"idle", "split", "send"}, chat : Chats \union {"nowhere"}, list : Seq(Bookings),
     text : Texts, rest : Texts, buf : Seq(0 .. 255), msgs : Texts, sent : Int,
     kb : {job.kb}]

(* What is left to split is text, and what was made of it can be sent.     *)
JobInv ==
    /\ job \in JobRecord
    /\ AllText(job.rest)
    /\ job.buf # <<>> => Sendable(job.buf)
    /\ AllSendable(job.msgs)

LEMMA AppendSendable ==
  ASSUME NEW msgs \in Texts, AllSendable(msgs), NEW m \in Seq(0 .. 255), Sendable(m)
  PROVE  Append(msgs, m) \in Texts /\ AllSendable(Append(msgs, m))
<1>1. /\ Append(msgs, m) \in Texts
      /\ DOMAIN Append(msgs, m) = 1 .. (Len(msgs) + 1)
      /\ \A i \in 1 .. Len(msgs) : Append(msgs, m)[i] = msgs[i]
      /\ Append(msgs, m)[Len(msgs) + 1] = m
      /\ DOMAIN msgs = 1 .. Len(msgs) /\ Len(msgs) \in Nat
  BY AppendProperties, LenProperties DEF Texts
<1> QED
  BY <1>1 DEF AllSendable

LEMMA FlushedSendable ==
  ASSUME JobInv
  PROVE  Flushed \in Texts /\ AllSendable(Flushed)
<1>1. job.msgs \in Texts /\ job.buf \in Seq(0 .. 255)
  BY DEF JobInv, JobRecord
<1> QED
  BY <1>1, AppendSendable DEF JobInv, Flushed

LEMMA TextFacts ==
  ASSUME NEW line, IsText(line)
  PROVE  /\ line \in Seq(0 .. 255) /\ Len(line) \in Nat
         /\ line # <<>> => Len(line) >= 1 /\ isUTF8Start(line[1])
  BY LenProperties, EmptySeq DEF IsText, WholeCharacters

LEMMA HeadOfLines ==
  ASSUME NEW lines \in Texts, AllText(lines), lines # <<>>
  PROVE  /\ IsText(Head(lines))
         /\ Tail(lines) \in Texts /\ AllText(Tail(lines))
<1>1. /\ Head(lines) = lines[1] /\ 1 \in DOMAIN lines
      /\ Tail(lines) \in Texts
      /\ DOMAIN Tail(lines) = 1 .. (Len(lines) - 1)
      /\ \A i \in 1 .. (Len(lines) - 1) : Tail(lines)[i] = lines[i + 1]
      /\ DOMAIN lines = 1 .. Len(lines) /\ Len(lines) \in Nat
  BY HeadTailProperties, LenProperties, EmptySeq DEF Texts
<1> QED
  BY <1>1 DEF AllText

LEMMA JoinText ==
  ASSUME NEW a \in Texts, AllText(a), NEW b \in Texts, AllText(b)
  PROVE  a \o b \in Texts /\ AllText(a \o b)
<1>1. /\ a \o b \in Texts
      /\ DOMAIN (a \o b) = 1 .. (Len(a) + Len(b))
      /\ \A i \in 1 .. Len(a) + Len(b) :
            (a \o b)[i] = IF i <= Len(a) THEN a[i] ELSE b[i - Len(a)]
      /\ DOMAIN a = 1 .. Len(a) /\ Len(a) \in Nat
      /\ DOMAIN b = 1 .. Len(b) /\ Len(b) \in Nat
  BY ConcatProperties, LenProperties DEF Texts
<1>2. ASSUME NEW i \in DOMAIN (a \o b)
      PROVE  IsText((a \o b)[i])
  <2>1. CASE i <= Len(a)
    BY <1>1, <2>1 DEF AllText
  <2>2. CASE i > Len(a)
    <3>1. i - Len(a) \in DOMAIN b /\ (a \o b)[i] = b[i - Len(a)]
      BY <1>1, <2>2
    <3> QED
      BY <3>1 DEF AllText
  <2> QED
    BY <1>1, <2>1, <2>2
<1> QED
  BY <1>1, <1>2 DEF AllText

LEMMA CutLineKeeps ==
  ASSUME JobInv, CutLine
  PROVE  JobInv'
<1> DEFINE line == Head(job.rest)
           cut  == safeCut(line, Limit)
           part == SubSeq(line, 1, cut)
           left == SubSeq(line, cut + 1, Len(line))
<1>0. Limit \in Nat
  BY ScreensAssumption
<1>1. /\ job \in JobRecord /\ job.rest \in Texts /\ job.rest # <<>>
      /\ AllText(job.rest) /\ Len(line) > Limit
  BY DEF JobInv, JobRecord, CutLine
<1>2. IsText(line) /\ Tail(job.rest) \in Texts /\ AllText(Tail(job.rest))
  BY <1>1, HeadOfLines
<1>3. line \in Seq(0 .. 255) /\ Len(line) \in Nat /\ isUTF8Start(line[1])
  BY <1>1, <1>2, TextFacts, EmptySeq, ScreensAssumption
<1>4. cut \in 1 .. Limit /\ isUTF8Start(line[cut + 1])
  BY <1>1, <1>2, CutAtCharacter, ScreensAssumption
<1> HIDE DEF line, cut
<1>5. part \in Seq(0 .. 255) /\ Sendable(part)
  <2>1. cut \in 1 .. Len(line)
    BY <1>0, <1>1, <1>3, <1>4
  <2>2. part \in Seq(0 .. 255) /\ Len(part) = cut /\ part[1] = line[1]
    BY <1>3, <2>1, FirstPart, ZenonT(60)
  <2> HIDE DEF part
  <2> QED
    BY <1>3, <1>4, <2>2 DEF Sendable
<1>6. IsText(left)
  <2>1. cut \in 1 .. (Len(line) - 1)
    BY <1>0, <1>1, <1>3, <1>4
  <2> QED
    BY <1>2, <1>4, <2>1, RestIsText
<1>7. <<left>> \in Texts /\ AllText(<<left>>)
  <2>1. left \in Seq(0 .. 255)
    BY <1>6, TextFacts
  <2> HIDE DEF left
  <2> QED
    BY <1>6, <2>1 DEF Texts, AllText
<1> HIDE DEF part, left
<1>8. <<left>> \o Tail(job.rest) \in Texts /\ AllText(<<left>> \o Tail(job.rest))
  BY <1>2, <1>7, JoinText
<1>9. Append(Flushed, part) \in Texts /\ AllSendable(Append(Flushed, part))
  BY <1>5, FlushedSendable, AppendSendable
<1>10. job' = [job EXCEPT !.msgs = Append(Flushed, part), !.buf = <<>>,
                          !.rest = <<left>> \o Tail(job.rest)]
  BY <1>1 DEF CutLine, line, cut, part, left, JobRecord
<1>11. /\ job' \in JobRecord'
       /\ job'.msgs = Append(Flushed, part) /\ job'.buf = <<>>
       /\ job'.rest = <<left>> \o Tail(job.rest)
  BY <1>1, <1>8, <1>9, <1>10, EmptySeq DEF JobRecord
<1> QED
  BY <1>8, <1>9, <1>11 DEF JobInv, AllText, AllSendable

LEMMA AddLineKeeps ==
  ASSUME JobInv, AddLine
  PROVE  JobInv'
<1> DEFINE line == Head(job.rest)
<1>1. /\ job \in JobRecord /\ job.rest \in Texts /\ job.rest # <<>>
      /\ AllText(job.rest) /\ Len(line) <= Limit
      /\ job.buf \in Seq(0 .. 255) /\ job.msgs \in Texts
  BY DEF JobInv, JobRecord, AddLine
<1>2. IsText(line) /\ Tail(job.rest) \in Texts /\ AllText(Tail(job.rest))
  BY <1>1, HeadOfLines
<1>3. line \in Seq(0 .. 255) /\ Len(line) \in Nat
      /\ (line # <<>> => Len(line) >= 1 /\ isUTF8Start(line[1]))
  BY <1>1, <1>2, TextFacts
<1>4. job' = IF Fits(line)
             THEN [job EXCEPT !.buf = Joined(line), !.rest = Tail(job.rest)]
             ELSE [job EXCEPT !.msgs = Flushed, !.buf = line, !.rest = Tail(job.rest)]
  BY <1>1 DEF AddLine, JobRecord
<1> HIDE DEF line
<1>5. CASE Fits(line)
  <2>1. Joined(line) \in Seq(0 .. 255) /\ (Joined(line) # <<>> => Sendable(Joined(line)))
    <3>1. CASE job.buf = <<>>
      BY <1>1, <1>3, <3>1 DEF Joined, Sendable, line
    <3>2. CASE job.buf # <<>>
      <4>1. Sendable(job.buf) /\ Len(job.buf) \in Nat
        BY <1>1, <3>2, LenProperties DEF JobInv
      <4>2. PICK tail \in Seq(0 .. 255) : tail = <<NL>> \o line
        <5>1. <<NL>> \in Seq(0 .. 255)
          BY DEF NL
        <5> QED
          BY <1>3, <5>1, ConcatProperties
      <4>3. Joined(line) = job.buf \o tail
        <5>1. PICK nl \in Seq(0 .. 255) : nl = <<NL>>
          <6>1. <<NL>> \in Seq(0 .. 255)
            BY DEF NL
          <6> QED
            BY <6>1, Zenon
        <5>2. (job.buf \o nl) \o line = job.buf \o (nl \o line)
          <6>1. PICK s \in Seq(0 .. 255), u \in Seq(0 .. 255) : s = job.buf /\ u = line
            BY <1>1, <1>3
          <6>2. (s \o nl) \o u = s \o (nl \o u)
            BY ConcatAssociative
          <6> QED
            BY <6>1, <6>2, Zenon
        <5> QED
          BY <3>2, <4>2, <5>1, <5>2, Zenon DEF Joined
      <4>4. /\ job.buf \o tail \in Seq(0 .. 255)
            /\ Len(job.buf \o tail) = Len(job.buf) + Len(tail)
            /\ \A i \in 1 .. Len(job.buf) + Len(tail) :
                  (job.buf \o tail)[i] = IF i <= Len(job.buf) THEN job.buf[i]
                                         ELSE tail[i - Len(job.buf)]
        BY <1>1, ConcatProperties
      <4>5. Len(tail) \in Nat
        BY LenProperties
      <4>6. (job.buf \o tail)[1] = job.buf[1] /\ Len(job.buf \o tail) >= 1
        BY <4>1, <4>4, <4>5 DEF Sendable
      <4>7. Len(job.buf \o tail) \in 1 .. Limit
        BY <1>5, <4>1, <4>3, <4>4, <4>5, <4>6, ScreensAssumption DEF Fits
      <4> QED
        BY <4>1, <4>3, <4>4, <4>6, <4>7 DEF Sendable
    <3> QED
      BY <3>1, <3>2
  <2>2. /\ job' \in JobRecord' /\ job'.buf = Joined(line)
        /\ job'.rest = Tail(job.rest) /\ job'.msgs = job.msgs
    <3>1. job' = [job EXCEPT !.buf = Joined(line), !.rest = Tail(job.rest)]
      BY <1>4, <1>5, Zenon
    <3> QED
      BY <1>1, <1>2, <2>1, <3>1 DEF JobRecord
  <2> QED
    BY <1>2, <2>1, <2>2 DEF JobInv, AllText, AllSendable
<1>6. CASE ~Fits(line)
  <2>1. /\ job' \in JobRecord' /\ job'.buf = line
        /\ job'.rest = Tail(job.rest) /\ job'.msgs = Flushed
    <3>1. job' = [job EXCEPT !.msgs = Flushed, !.buf = line, !.rest = Tail(job.rest)]
      BY <1>4, <1>6, Zenon
    <3> QED
      BY <1>1, <1>2, <1>3, <3>1, FlushedSendable DEF JobRecord
  <2>2. line # <<>> => Sendable(line)
    BY <1>1, <1>3, ScreensAssumption DEF Sendable, line
  <2> QED
    BY <1>2, <2>1, <2>2, FlushedSendable DEF JobInv, AllText, AllSendable
<1> QED
  BY <1>5, <1>6

-----------------------------------------------------------------------------
(* The lists                                                               *)

LEMMA OrderIsList ==
  ASSUME NEW S \in SUBSET Bookings, NEW list \in InOrder(S)
  PROVE  /\ Cardinality(S) \in Nat
         /\ list \in [1 .. Cardinality(S) -> S]
         /\ \A i, j \in 1 .. Cardinality(S) : i # j => list[i] # list[j]
         /\ \A i, j \in 1 .. Cardinality(S) : i < j => Start[list[i]] <= Start[list[j]]
         /\ list \in Seq(S) /\ list \in Seq(Bookings)
         /\ Len(list) = Cardinality(S)
<1>1. Cardinality(S) \in Nat
  BY ScreensAssumption, FS_Subset, FS_CardinalityType
<1>2. /\ list \in [1 .. Cardinality(S) -> S]
      /\ \A i, j \in 1 .. Cardinality(S) : i # j => list[i] # list[j]
      /\ \A i, j \in 1 .. Cardinality(S) : i < j => Start[list[i]] <= Start[list[j]]
  BY DEF InOrder, SetToSeqs
<1>3. list \in Seq(S) /\ list \in Seq(Bookings)
  BY <1>1, <1>2, SeqDef
<1>4. Len(list) = Cardinality(S)
  BY <1>1, <1>2, <1>3, LenProperties
<1> QED
  BY <1>1, <1>2, <1>3, <1>4

LEMMA ToSetOfConcat ==
  ASSUME NEW S, NEW s \in Seq(S), NEW t \in Seq(S)
  PROVE  ToSet(s \o t) = ToSet(s) \union ToSet(t)
<1>1. /\ DOMAIN (s \o t) = 1 .. (Len(s) + Len(t))
      /\ \A i \in 1 .. Len(s) + Len(t) :
            (s \o t)[i] = IF i <= Len(s) THEN s[i] ELSE t[i - Len(s)]
      /\ DOMAIN s = 1 .. Len(s) /\ Len(s) \in Nat
      /\ DOMAIN t = 1 .. Len(t) /\ Len(t) \in Nat
  BY ConcatProperties, LenProperties
<1>2. ASSUME NEW x \in ToSet(s)
      PROVE  x \in ToSet(s \o t)
  <2>1. PICK i \in 1 .. Len(s) : x = s[i]
    BY <1>1 DEF ToSet
  <2>2. i \in DOMAIN (s \o t) /\ (s \o t)[i] = x
    BY <1>1, <2>1
  <2> QED
    BY <2>2 DEF ToSet
<1>3. ASSUME NEW x \in ToSet(t)
      PROVE  x \in ToSet(s \o t)
  <2>1. PICK i \in 1 .. Len(t) : x = t[i]
    BY <1>1 DEF ToSet
  <2>2. /\ Len(s) + i \in DOMAIN (s \o t) /\ ~(Len(s) + i <= Len(s))
        /\ Len(s) + i - Len(s) = i
    BY <1>1
  <2>3. (s \o t)[Len(s) + i] = x
    BY <1>1, <2>1, <2>2
  <2> QED
    BY <2>2, <2>3 DEF ToSet
<1>4. ASSUME NEW x \in ToSet(s \o t)
      PROVE  x \in ToSet(s) \union ToSet(t)
  <2>1. PICK i \in 1 .. (Len(s) + Len(t)) : x = (s \o t)[i]
    BY <1>1 DEF ToSet
  <2>2. CASE i <= Len(s)
    BY <1>1, <2>1, <2>2 DEF ToSet
  <2>3. CASE i > Len(s)
    <3>1. i - Len(s) \in DOMAIN t /\ x = t[i - Len(s)]
      BY <1>1, <2>1, <2>3
    <3> QED
      BY <3>1 DEF ToSet
  <2> QED
    BY <1>1, <2>2, <2>3
<1> QED
  BY <1>2, <1>3, <1>4

LEMMA TwoLines ==
  ASSUME NEW a, IsText(a), NEW b, IsText(b)
  PROVE  <<a, b>> \in Texts /\ AllText(<<a, b>>) /\ ToSet(<<a, b>>) = {a, b}
<1>1. a \in Seq(0 .. 255) /\ b \in Seq(0 .. 255)
  BY DEF IsText
<1>2. /\ <<a, b>> \in Texts /\ DOMAIN <<a, b>> = 1 .. 2
      /\ <<a, b>>[1] = a /\ <<a, b>>[2] = b
  BY <1>1 DEF Texts
<1> QED
  BY <1>2 DEF AllText, ToSet

LEMMA NoLines == <<>> \in Texts /\ AllText(<<>>) /\ ToSet(<<>>) = {}
  BY EmptySeq DEF Texts, AllText, ToSet

LEMMA JoinLines ==
  ASSUME NEW a \in Texts, AllText(a), NEW b \in Texts, AllText(b)
  PROVE  a \o b \in Texts /\ AllText(a \o b) /\ ToSet(a \o b) = ToSet(a) \union ToSet(b)
<1>1. ToSet(a \o b) = ToSet(a) \union ToSet(b)
  BY ToSetOfConcat DEF Texts
<1> QED
  BY <1>1, JoinText

(* A text names the bookings of its list, and no other.                    *)
LEMMA LinesNameTheList ==
  ASSUME NEW list \in Seq(Bookings), NEW end \in {<<>>, <<<<>>, Label>>}
  PROVE  /\ Lines(list) \o end \in Texts /\ AllText(Lines(list) \o end)
         /\ {b \in Bookings : Line[b] \in ToSet(Lines(list) \o end)} = ToSet(list)
<1> DEFINE lines == Lines(list) \o end
           body == [i \in DOMAIN list |-> Line[list[i]]]
           top  == <<Header, <<>>>>
<1>1. IsText(<<>>) /\ IsText(Header) /\ IsText(Label)
  BY ScreensAssumption DEF IsText, WholeCharacters
<1>2. top \in Texts /\ AllText(top) /\ ToSet(top) = {Header, <<>>}
  BY <1>1, TwoLines
<1>3. end \in Texts /\ AllText(end) /\ ToSet(end) \subseteq {<<>>, Label}
  BY <1>1, TwoLines, NoLines
<1>4. Len(list) \in Nat /\ DOMAIN list = 1 .. Len(list)
      /\ \A i \in 1 .. Len(list) : list[i] \in Bookings
  BY LenProperties, ElementOfSeq
<1>5. body \in Texts /\ AllText(body) /\ ToSet(body) = {Line[b] : b \in ToSet(list)}
  <2>1. \A i \in DOMAIN list : IsText(Line[list[i]])
    BY <1>4, ScreensAssumption
  <2>2. body \in [1 .. Len(list) -> Seq(0 .. 255)]
    BY <1>4, <2>1 DEF IsText
  <2>3. body \in Texts
    BY <1>4, <2>2, SeqDef DEF Texts
  <2> QED
    BY <2>1, <2>3 DEF AllText, ToSet
<1> HIDE DEF body, top
<1>6. /\ top \o body \in Texts /\ AllText(top \o body)
      /\ ToSet(top \o body) = ToSet(top) \union ToSet(body)
  BY <1>2, <1>5, JoinLines
<1>7. /\ (top \o body) \o end \in Texts /\ AllText((top \o body) \o end)
      /\ ToSet((top \o body) \o end) = ToSet(top \o body) \union ToSet(end)
  BY <1>3, <1>6, JoinLines
<1>8. lines = (top \o body) \o end
  BY DEF Lines, top, body
<1>9. \A b \in Bookings : Line[b] \in ToSet(lines) <=> b \in ToSet(list)
  <2>1. \A b \in Bookings : Line[b] \notin {Header, <<>>, Label}
    BY ScreensAssumption
  <2>2. ToSet(list) \subseteq Bookings
    BY <1>4 DEF ToSet
  <2>3. \A a, b \in Bookings : Line[a] = Line[b] => a = b
    BY ScreensAssumption
  <2> QED
    BY <1>2, <1>3, <1>5, <1>6, <1>7, <1>8, <2>1, <2>2, <2>3
<1>10. ToSet(list) \subseteq Bookings
  BY <1>4 DEF ToSet
<1> HIDE DEF lines
<1>11. /\ lines \in Texts /\ AllText(lines)
       /\ {b \in Bookings : Line[b] \in ToSet(lines)} = ToSet(list)
  BY <1>7, <1>8, <1>9, <1>10
<1> QED
  BY <1>11 DEF lines

-----------------------------------------------------------------------------
(* The keyboards                                                           *)

(* The bookings a keyboard can cancel.                                     *)
Cancels(kb) ==
    {button.call.int : button \in {k \in ToSet(kb) : k.call.on \in {"cxl", "acxl"}}}

LEMMA OneButtonEach ==
  ASSUME NEW list \in Seq(Bookings)
  PROVE  /\ myBookingsKeyboard(list) \in Seq({CancelButton(b) : b \in Bookings})
         /\ ToSet(myBookingsKeyboard(list)) = {CancelButton(b) : b \in ToSet(list)}
         /\ adminCancelKeyboard(list) \in Seq({AdminCancelButton(b) : b \in Bookings})
         /\ ToSet(adminCancelKeyboard(list)) = {AdminCancelButton(b) : b \in ToSet(list)}
<1>1. Len(list) \in Nat /\ DOMAIN list = 1 .. Len(list)
      /\ \A i \in 1 .. Len(list) : list[i] \in Bookings
  BY LenProperties, ElementOfSeq
<1>2. /\ myBookingsKeyboard(list) = [i \in 1 .. Len(list) |-> CancelButton(list[i])]
      /\ adminCancelKeyboard(list) = [i \in 1 .. Len(list) |-> AdminCancelButton(list[i])]
  BY <1>1 DEF myBookingsKeyboard, adminCancelKeyboard, Each
<1>3. /\ myBookingsKeyboard(list)
            \in [1 .. Len(list) -> {CancelButton(b) : b \in Bookings}]
      /\ adminCancelKeyboard(list)
            \in [1 .. Len(list) -> {AdminCancelButton(b) : b \in Bookings}]
  BY <1>1, <1>2
<1>4. /\ myBookingsKeyboard(list) \in Seq({CancelButton(b) : b \in Bookings})
      /\ adminCancelKeyboard(list) \in Seq({AdminCancelButton(b) : b \in Bookings})
  BY <1>1, <1>3, SeqDef
<1> QED
  BY <1>1, <1>2, <1>4 DEF ToSet

LEMMA MyKeyboardCancels ==
  ASSUME NEW list \in Seq(Bookings)
  PROVE  Cancels(myBookingsKeyboard(list)) = ToSet(list)
<1>1. \A b : CancelButton(b).call.on = "cxl" /\ CancelButton(b).call.int = b
  BY DEF CancelButton, Button, Call
<1>2. PICK buttons : buttons = ToSet(myBookingsKeyboard(list))
  OBVIOUS
<1>3. buttons = {CancelButton(b) : b \in ToSet(list)}
  BY <1>2, OneButtonEach
<1>4. ASSUME NEW b \in ToSet(list)
      PROVE  \E k \in buttons : k.call.on \in {"cxl", "acxl"} /\ b = k.call.int
  <2>1. CancelButton(b) \in buttons
    BY <1>3
  <2> QED
    BY <1>1, <2>1
<1>5. ASSUME NEW k \in buttons
      PROVE  k.call.int \in ToSet(list)
  BY <1>1, <1>3
<1> QED
  BY <1>2, <1>4, <1>5 DEF Cancels

LEMMA PageKeyboardCancels ==
  ASSUME NEW list \in Seq(Bookings), NEW d, NEW page, NEW total
  PROVE  Cancels(adminPageKeyboard(list, d, page, total)) = ToSet(list)
<1> DEFINE Nav == {PageButton(d, page - 1), PageNumber, PageButton(d, page + 1)}
           All == {AdminCancelButton(b) : b \in Bookings} \union Nav
           back == IF page > 0 THEN <<PageButton(d, page - 1)>> ELSE <<>>
           forth == IF page < total - 1 THEN <<PageButton(d, page + 1)>> ELSE <<>>
           nav == IF total <= 1 THEN <<>> ELSE back \o <<PageNumber>> \o forth
<1>1. \A b : AdminCancelButton(b).call.on = "acxl" /\ AdminCancelButton(b).call.int = b
  BY DEF AdminCancelButton, Button, Call
<1>2. \A k \in Nav : k.call.on \notin {"cxl", "acxl"}
  BY DEF PageButton, PageNumber, Button, Ignored, Call
<1> HIDE DEF Nav
<1>3. nav \in Seq(Nav)
  <2>1. /\ PageButton(d, page - 1) \in Nav /\ PageNumber \in Nav
        /\ PageButton(d, page + 1) \in Nav
    BY DEF Nav
  <2>2. /\ <<PageButton(d, page - 1)>> \in Seq(Nav)
        /\ <<PageNumber>> \in Seq(Nav)
        /\ <<PageButton(d, page + 1)>> \in Seq(Nav)
        /\ <<>> \in Seq(Nav)
    BY <2>1
  <2>3. back \in Seq(Nav) /\ forth \in Seq(Nav)
    BY <2>2, Zenon
  <2> HIDE DEF back, forth
  <2>4. PICK mid \in Seq(Nav) : mid = <<PageNumber>>
    BY <2>2, Zenon
  <2>5. back \o mid \in Seq(Nav)
    BY <2>3, ConcatProperties
  <2>6. (back \o mid) \o forth \in Seq(Nav)
    BY <2>3, <2>5, ConcatProperties
  <2> QED
    BY <2>2, <2>4, <2>6, Zenon
<1>4. ToSet(nav) \subseteq Nav
  BY <1>3, LenProperties, ElementOfSeq DEF ToSet
<1>5. adminPageKeyboard(list, d, page, total) = adminCancelKeyboard(list) \o nav
  BY Zenon DEF adminPageKeyboard
<1> HIDE DEF nav
<1>6. adminCancelKeyboard(list) \in Seq(All) /\ nav \in Seq(All)
  BY <1>3, OneButtonEach, SeqMonotonic
<1> HIDE DEF All
<1>7. ToSet(adminCancelKeyboard(list) \o nav) = ToSet(adminCancelKeyboard(list)) \union ToSet(nav)
  BY <1>6, ToSetOfConcat
<1>8. PICK buttons : buttons = ToSet(adminPageKeyboard(list, d, page, total))
  OBVIOUS
<1>9. buttons = {AdminCancelButton(b) : b \in ToSet(list)} \union ToSet(nav)
  BY <1>5, <1>7, <1>8, OneButtonEach
<1>10. ASSUME NEW b \in ToSet(list)
       PROVE  \E k \in buttons : k.call.on \in {"cxl", "acxl"} /\ b = k.call.int
  <2>1. AdminCancelButton(b) \in buttons
    BY <1>9
  <2> QED
    BY <1>1, <2>1
<1>11. ASSUME NEW k \in buttons, k.call.on \in {"cxl", "acxl"}
       PROVE  k.call.int \in ToSet(list)
  <2>1. k \notin ToSet(nav)
    BY <1>2, <1>4, <1>11
  <2>2. PICK b \in ToSet(list) : k = AdminCancelButton(b)
    BY <1>9, <2>1
  <2> QED
    BY <1>1, <2>2
<1> QED
  BY <1>8, <1>10, <1>11 DEF Cancels

-----------------------------------------------------------------------------
(* The steps                                                               *)

(* What the properties of the lists are about.                             *)
ListInv ==
    /\ NoEmptyList
    /\ job.text # <<>> => {b \in Bookings : Line[b] \in ToSet(job.text)} = Cancels(job.kb)

LEMMA PageNumberIsNat == \A data : Dispatch(data).page \in Nat
  BY DEF Dispatch, Call, Ignored, Page

LEMMA IdleKeeps ==
  ASSUME job' = Idle
  PROVE  JobInv' /\ ListInv'
<1>1. Idle \in [pc : {"idle", "split", "send"}, chat : Chats \union {"nowhere"},
                list : Seq(Bookings), text : Texts, rest : Texts, buf : Seq(0 .. 255),
                msgs : Texts, sent : Int, kb : {Idle.kb}]
  BY EmptySeq DEF Idle, Texts
<1>2. /\ Idle.list = <<>> /\ Idle.text = <<>> /\ Idle.rest = <<>>
      /\ Idle.buf = <<>> /\ Idle.msgs = <<>>
  BY DEF Idle
<1> QED
  BY <1>1, <1>2 DEF JobInv, JobRecord, ListInv, NoEmptyList,
     AllText, AllSendable

LEMMA SendKeeps ==
  ASSUME NEW c \in Chats, NEW kb, Send(c, kb)
  PROVE  JobInv' /\ ListInv'
<1>1. job' = [pc |-> "send", chat |-> c, list |-> <<>>, text |-> <<>>, rest |-> <<>>,
              buf |-> <<>>, msgs |-> <<Header>>, sent |-> 0, kb |-> kb]
  BY DEF Send, Idle
<1>2. <<Header>> \in Texts /\ AllSendable(<<Header>>)
  <2>1. Header \in Seq(0 .. 255) /\ Sendable(Header)
    BY ScreensAssumption, TextFacts, EmptySeq DEF Sendable
  <2> QED
    BY <2>1 DEF Texts, AllSendable
<1>3. /\ job'.list = <<>> /\ job'.text = <<>> /\ job'.rest = <<>>
      /\ job'.buf = <<>> /\ job'.msgs = <<Header>>
  BY <1>1
<1>4. job' \in JobRecord'
  BY <1>1, <1>2, EmptySeq DEF JobRecord, Texts
<1> QED
  BY <1>2, <1>3, <1>4 DEF JobInv, ListInv, NoEmptyList,
     AllText, AllSendable

LEMMA SendLongKeeps ==
  ASSUME NEW c \in Chats, NEW list \in Seq(Bookings), list # <<>>,
         NEW end \in {<<>>, <<<<>>, Label>>}, NEW kb, Cancels(kb) = ToSet(list),
         NEW lines, lines = Lines(list) \o end,
         SendLong(c, list, lines, kb)
  PROVE  JobInv' /\ ListInv'
<1>1. job' = [pc |-> "split", chat |-> c, list |-> list, text |-> lines, rest |-> lines,
              buf |-> <<>>, msgs |-> <<>>, sent |-> 0, kb |-> kb]
  BY DEF SendLong, Idle
<1>2. /\ lines \in Texts /\ AllText(lines)
      /\ {b \in Bookings : Line[b] \in ToSet(lines)} = ToSet(list)
  <2>1. /\ Lines(list) \o end \in Texts /\ AllText(Lines(list) \o end)
        /\ {b \in Bookings : Line[b] \in ToSet(Lines(list) \o end)} = ToSet(list)
    BY LinesNameTheList
  <2> QED
    BY <2>1, Zenon
<1>3. /\ job'.list = list /\ job'.text = lines /\ job'.rest = lines /\ job'.chat = c
      /\ job'.buf = <<>> /\ job'.msgs = <<>> /\ job'.kb = kb
  BY <1>1
<1>4. job' \in JobRecord'
  BY <1>1, <1>2, EmptySeq DEF JobRecord, Texts
<1>5. JobInv'
  BY <1>2, <1>3, <1>4 DEF JobInv, AllText, AllSendable
<1>6. ({b \in Bookings : Line[b] \in ToSet(job.text)} = Cancels(job.kb))'
  BY <1>2, <1>3 DEF Cancels
<1> QED
  BY <1>3, <1>5, <1>6 DEF ListInv, NoEmptyList

LEMMA SameList ==
  ASSUME ListInv, job'.list = job.list, job'.text = job.text, job'.chat = job.chat,
         job'.kb = job.kb
  PROVE  ListInv'
  BY DEF ListInv, NoEmptyList, Cancels

LEMMA ComposeKeeps ==
  ASSUME JobInv, ListInv, Compose
  PROVE  JobInv' /\ ListInv'
<1>1. job \in JobRecord
  BY DEF JobInv
<1>2. CASE CutLine
  <2>1. /\ job'.list = job.list /\ job'.text = job.text /\ job'.chat = job.chat
        /\ job'.kb = job.kb
    BY <1>1, <1>2 DEF CutLine, JobRecord
  <2> QED
    BY <1>2, <2>1, CutLineKeeps, SameList
<1>3. CASE AddLine
  <2>1. /\ job'.list = job.list /\ job'.text = job.text /\ job'.chat = job.chat
        /\ job'.kb = job.kb
    BY <1>1, <1>3 DEF AddLine, JobRecord
  <2> QED
    BY <1>3, <2>1, AddLineKeeps, SameList
<1>4. CASE EndSplit
  <2>1. job' = [job EXCEPT !.pc = "send", !.msgs = Flushed, !.buf = <<>>]
    BY <1>4 DEF EndSplit
  <2>2. /\ job' \in JobRecord' /\ job'.msgs = Flushed /\ job'.buf = <<>>
        /\ job'.rest = job.rest
        /\ job'.list = job.list /\ job'.text = job.text /\ job'.chat = job.chat
        /\ job'.kb = job.kb
    BY <1>1, <2>1, FlushedSendable, EmptySeq DEF JobRecord
  <2> QED
    BY <2>2, FlushedSendable, SameList DEF JobInv, AllText, AllSendable
<1>5. CASE SendMessage
  <2>1. job' = [job EXCEPT !.sent = job.sent + 1]
    BY <1>1, <1>5 DEF SendMessage, JobRecord
  <2>2. /\ job' \in JobRecord' /\ job'.msgs = job.msgs /\ job'.buf = job.buf
        /\ job'.rest = job.rest
        /\ job'.list = job.list /\ job'.text = job.text /\ job'.chat = job.chat
        /\ job'.kb = job.kb
    BY <1>1, <2>1 DEF JobRecord
  <2> QED
    BY <2>2, SameList DEF JobInv, AllText, AllSendable
<1>6. CASE Done
  BY <1>6, IdleKeeps DEF Done
<1> QED
  BY <1>2, <1>3, <1>4, <1>5, <1>6 DEF Compose

-----------------------------------------------------------------------------
(* Reading the pages of a day one after the other                          *)

LEMMA EveryoneIsListed ==
  ASSUME NEW S \in SUBSET Bookings, NEW list \in InOrder(S), NEW b \in S
  PROVE  \E k \in 1 .. Cardinality(S) : list[k] = b
<1> DEFINE n == Cardinality(S)
<1>1. n \in Nat /\ IsFiniteSet(S)
  BY OrderIsList, ScreensAssumption, FS_Subset
<1>2. IsFiniteSet(1 .. n) /\ Cardinality(1 .. n) = n
  BY <1>1, FS_Interval
<1>3. list \in Injection(1 .. n, S)
  BY OrderIsList DEF Injection, IsInjective
<1>4. list \in Surjection(1 .. n, S)
  BY <1>1, <1>2, <1>3, FS_Injection
<1> QED
  BY <1>4 DEF Surjection

(* The starts in two orders of the same bookings: a is not ahead of b.     *)
LEMMA NotAhead ==
  ASSUME NEW S \in SUBSET Bookings, NEW a \in InOrder(S), NEW b \in InOrder(S),
         NEW j \in 1 .. Cardinality(S)
  PROVE  ~(Start[a[j]] < Start[b[j]])
<1> DEFINE n == Cardinality(S)
           f == [i \in 1 .. (n + 1) |-> IF i <= j THEN a[i] ELSE b[i - 1]]
<1>1. /\ n \in Nat /\ IsFiniteSet(S)
      /\ a \in [1 .. n -> S] /\ b \in [1 .. n -> S]
      /\ \A i, k \in 1 .. n : i # k => a[i] # a[k] /\ b[i] # b[k]
      /\ \A i, k \in 1 .. n : i < k => Start[a[i]] <= Start[a[k]] /\ Start[b[i]] <= Start[b[k]]
      /\ \A s \in S : Start[s] \in Nat
  BY OrderIsList, ScreensAssumption, FS_Subset
<1> HIDE DEF n
<1>2. SUFFICES ASSUME Start[a[j]] < Start[b[j]] PROVE FALSE
  OBVIOUS
<1>3. j \in 1 .. n
  BY DEF n
<1>4. f \in [1 .. (n + 1) -> S]
  <2>1. \A i \in 1 .. (n + 1) : i <= j => i \in 1 .. n
    BY <1>1, <1>3
  <2>2. \A i \in 1 .. (n + 1) : ~(i <= j) => i - 1 \in 1 .. n
    BY <1>1, <1>3
  <2> QED
    BY <1>1, <2>1, <2>2
<1>5. IsFiniteSet(1 .. (n + 1)) /\ Cardinality(1 .. (n + 1)) = n + 1
  BY <1>1, FS_Interval
<1>6. Cardinality(S) < Cardinality(1 .. (n + 1))
  BY <1>1, <1>5 DEF n
<1>7. PICK x \in 1 .. (n + 1), y \in 1 .. (n + 1) : x # y /\ f[x] = f[y]
  <2> HIDE DEF f
  <2> QED
    BY <1>1, <1>4, <1>5, <1>6, FS_PigeonHole
<1>8. ASSUME NEW v \in 1 .. (n + 1), v <= j
      PROVE  v \in 1 .. n /\ f[v] = a[v] /\ Start[f[v]] <= Start[a[j]]
  <2>1. v \in 1 .. n /\ f[v] = a[v]
    BY <1>1, <1>3, <1>8
  <2>2. CASE v = j
    BY <1>1, <1>3, <2>1, <2>2
  <2>3. CASE v < j
    BY <1>1, <1>3, <2>1, <2>3
  <2> QED
    BY <1>3, <1>8, <2>1, <2>2, <2>3
<1>9. ASSUME NEW v \in 1 .. (n + 1), ~(v <= j)
      PROVE  v - 1 \in 1 .. n /\ f[v] = b[v - 1] /\ Start[b[j]] <= Start[f[v]]
  <2>1. v - 1 \in 1 .. n /\ f[v] = b[v - 1]
    BY <1>1, <1>3, <1>9
  <2>2. CASE v - 1 = j
    BY <1>1, <1>3, <2>1, <2>2
  <2>3. CASE j < v - 1
    BY <1>1, <1>3, <2>1, <2>3
  <2> QED
    BY <1>3, <1>9, <2>1, <2>2, <2>3
<1>10. f[x] \in S /\ f[y] \in S /\ a[j] \in S /\ b[j] \in S
  BY <1>1, <1>3, <1>4
<1> HIDE DEF f
<1>11. CASE x <= j /\ y <= j
  BY <1>1, <1>7, <1>8, <1>11
<1>12. CASE ~(x <= j) /\ ~(y <= j)
  <2>1. x - 1 # y - 1
    BY <1>7
  <2> QED
    BY <1>1, <1>7, <1>9, <1>12, <2>1
<1>13. CASE x <= j /\ ~(y <= j)
  BY <1>1, <1>2, <1>7, <1>8, <1>9, <1>10, <1>13
<1>14. CASE ~(x <= j) /\ y <= j
  BY <1>1, <1>2, <1>7, <1>8, <1>9, <1>10, <1>14
<1> QED
  BY <1>11, <1>12, <1>13, <1>14

(* Whatever the order of equal starts, the same start is at each place.    *)
LEMMA SameStarts ==
  ASSUME NEW S \in SUBSET Bookings, NEW a \in InOrder(S), NEW b \in InOrder(S),
         NEW j \in 1 .. Cardinality(S)
  PROVE  Start[a[j]] = Start[b[j]]
<1>1. ~(Start[a[j]] < Start[b[j]]) /\ ~(Start[b[j]] < Start[a[j]])
  BY NotAhead
<1>2. Start[a[j]] \in Nat /\ Start[b[j]] \in Nat
  <2>1. a[j] \in S /\ b[j] \in S
    BY OrderIsList
  <2> QED
    BY <2>1, ScreensAssumption
<1> QED
  BY <1>1, <1>2

(* The pages read so far: a part of an order of the bookings of the day,   *)
(* but for the order of equal starts.                                      *)
ReadSoFar(w, day) ==
    LET n == Cardinality(day) IN
    /\ w.total = PageCount(n, PageSize)
    /\ w.next \in 1 .. w.total
    /\ Len(w.seen) = PageEnd(n, PageSize, w.next - 1)
    /\ \E all \in InOrder(day) : \A j \in 1 .. Len(w.seen) :
          w.seen[j] \in day /\ Start[w.seen[j]] = Start[all[j]]

WalkRecord == [day : {walk.day}, next : Int, total : Int, seen : Seq(Bookings)]

WalkInv ==
    /\ walk \in WalkRecord
    /\ walk.total > 0 => ReadSoFar(walk, ActiveBookingsForDay(walk.day))

LEMMA NoWalkKeeps ==
  ASSUME walk' = NoWalk
  PROVE  WalkInv'
<1>1. NoWalk \in [day : {NoWalk.day}, next : Int, total : Int, seen : Seq(Bookings)]
  BY EmptySeq DEF NoWalk
<1>2. ~(NoWalk.total > 0)
  BY DEF NoWalk
<1> QED
  BY <1>1, <1>2 DEF WalkInv, WalkRecord

LEMMA SameWalk ==
  ASSUME WalkInv, walk' = walk, status' = status
  PROVE  WalkInv'
  BY DEF WalkInv, WalkRecord, ActiveBookingsForDay, Active

(* The first page of a day.                                                *)
LEMMA FirstPage ==
  ASSUME NEW day \in SUBSET Bookings, NEW all \in InOrder(day), all # <<>>,
         NEW d, NEW shown,
         shown.page = 0,
         shown.total = PageCount(Cardinality(day), PageSize),
         shown.total \in Nat \ {0},
         PageEnd(Cardinality(day), PageSize, 0) \in 1 .. Cardinality(day),
         shown.items = SubSeq(all, 1, PageEnd(Cardinality(day), PageSize, 0))
  PROVE  /\ Walked(d, shown) \in [day : {Walked(d, shown).day}, next : Int, total : Int,
                                  seen : Seq(Bookings)]
         /\ Walked(d, shown).day = d
         /\ ReadSoFar(Walked(d, shown), day)
<1> DEFINE n == Cardinality(day)
           m == PageEnd(n, PageSize, 0)
<1>1. /\ n \in Nat /\ all \in Seq(Bookings) /\ Len(all) = n
      /\ \A i \in 1 .. n : all[i] \in day
  BY OrderIsList
<1>2. Walked(d, shown) = [day |-> d, next |-> 1, total |-> shown.total, seen |-> shown.items]
  BY DEF Walked
<1> HIDE DEF n, m
<1>3. m \in 1 .. n /\ shown.items = SubSeq(all, 1, m)
  BY DEF n, m
<1>4. /\ shown.items \in Seq(Bookings) /\ Len(shown.items) = m
      /\ \A i \in 1 .. m : shown.items[i] = all[i]
  <2>1. /\ SubSeq(all, 1, m) \in Seq(Bookings)
        /\ Len(SubSeq(all, 1, m)) = m - 1 + 1
        /\ \A i \in 1 .. (m - 1 + 1) : SubSeq(all, 1, m)[i] = all[1 + i - 1]
    BY <1>1, <1>3, PartOfSeq
  <2> QED
    BY <1>1, <1>3, <2>1
<1>5. PICK w : w = Walked(d, shown)
  OBVIOUS
<1>6. /\ w.day = d /\ w.next = 1 /\ w.total = shown.total /\ w.seen = shown.items
      /\ w \in [day : {w.day}, next : Int, total : Int, seen : Seq(Bookings)]
  BY <1>2, <1>4, <1>5
<1>7. ReadSoFar(w, day)
  <2>1. w.next - 1 = 0
    BY <1>6
  <2>2. \A j \in 1 .. Len(w.seen) : w.seen[j] \in day /\ Start[w.seen[j]] = Start[all[j]]
    BY <1>1, <1>3, <1>4, <1>6
  <2>3. w.next \in 1 .. w.total /\ w.total = PageCount(Cardinality(day), PageSize)
    BY <1>6
  <2>4. Len(w.seen) = PageEnd(Cardinality(day), PageSize, w.next - 1)
    BY <1>4, <1>6, <2>1 DEF m, n
  <2> QED
    BY <2>2, <2>3, <2>4 DEF ReadSoFar
<1> QED
  BY <1>5, <1>6, <1>7

LEMMA AnotherPage ==
  ASSUME NEW D, NEW w \in [day : D, next : Int, total : Int, seen : Seq(Bookings)],
         NEW seen \in Seq(Bookings), NEW v, v = [w EXCEPT !.next = @ + 1, !.seen = seen]
  PROVE  /\ v.day = w.day /\ v.next = w.next + 1 /\ v.total = w.total /\ v.seen = seen
         /\ v \in [day : D, next : Int, total : Int, seen : Seq(Bookings)]
         /\ w.total \in Int
<1>1. w.day \in D /\ w.next \in Int /\ w.total \in Int /\ w.next + 1 \in Int
  OBVIOUS
<1>2. v = [day |-> w.day, next |-> w.next + 1, total |-> w.total, seen |-> seen]
  OBVIOUS
<1> QED
  BY <1>1, <1>2

(* The bookings of one more page, after those already read.                *)
LEMMA BookingsAdded ==
  ASSUME NEW s \in Seq(Bookings), NEW items \in Seq(Bookings),
         NEW f \in Nat, NEW l \in Nat, Len(s) = f, Len(items) = l
  PROVE  /\ s \o items \in Seq(Bookings)
         /\ Len(s \o items) = f + l
         /\ \A i \in 1 .. f + l : (s \o items)[i] =
               IF i <= f THEN s[i] ELSE items[i - f]
  BY ConcatProperties

(* c is m bookings of the day, which start when those of the list all do.   *)
Reads(c, m, day, all) ==
    /\ c \in Seq(Bookings)
    /\ Len(c) = m
    /\ \A j \in 1 .. m : c[j] \in day /\ Start[c[j]] = Start[all[j]]

(* What has been read, with one more page of a list of the same day.       *)
LEMMA PageSeen ==
  ASSUME NEW day \in SUBSET Bookings, NEW all \in InOrder(day), NEW a \in InOrder(day),
         NEW n, n = Cardinality(day), NEW f, f \in 0 .. (n - 1), NEW m, m \in (f + 1) .. n
  PROVE  \A seen : Reads(seen, f, day, a) =>
            Reads(seen \o SubSeq(all, f + 1, m), m, day, all)
<1>1. /\ n \in Nat /\ all \in Seq(Bookings) /\ Len(all) = n
      /\ \A i \in 1 .. n : all[i] \in day
  BY OrderIsList
<1>2. PICK l \in Nat : l = m - f /\ f \in Nat /\ f + l = m
  BY <1>1
<1>3. PICK items \in Seq(Bookings) :
         /\ items = SubSeq(all, f + 1, m) /\ Len(items) = l
         /\ \A i \in 1 .. l : items[i] = all[f + i]
  <2>1. f + 1 \in 1 .. Len(all) /\ m \in (f + 1) .. Len(all)
    BY <1>1
  <2>2. /\ SubSeq(all, f + 1, m) \in Seq(Bookings)
        /\ Len(SubSeq(all, f + 1, m)) = m - (f + 1) + 1
        /\ \A i \in 1 .. (m - (f + 1) + 1) : SubSeq(all, f + 1, m)[i] = all[f + 1 + i - 1]
    BY <1>1, <2>1, PartOfSeq
  <2>3. m - (f + 1) + 1 = l /\ \A i \in 1 .. l : f + 1 + i - 1 = f + i
    BY <1>1, <1>2
  <2> QED
    BY <2>2, <2>3
<1>4. ASSUME NEW seen \in Seq(Bookings), Len(seen) = f,
             \A j \in 1 .. f : seen[j] \in day /\ Start[seen[j]] = Start[a[j]]
      PROVE  Reads(seen \o items, m, day, all)
  <2>1. PICK c \in Seq(Bookings) :
           /\ c = seen \o items /\ Len(c) = m
           /\ \A i \in 1 .. m : c[i] = IF i <= f THEN seen[i] ELSE items[i - f]
    <3>1. /\ seen \o items \in Seq(Bookings)
          /\ Len(seen \o items) = f + l
          /\ \A i \in 1 .. f + l : (seen \o items)[i] =
                IF i <= f THEN seen[i] ELSE items[i - f]
      <4>1. Len(seen) = f /\ Len(items) = l /\ f \in Nat
        BY <1>2, <1>3, <1>4
      <4> QED
        BY <4>1, BookingsAdded, ZenonT(60)
    <3> QED
      BY <1>2, <3>1
  <2>2. ASSUME NEW j \in 1 .. m
        PROVE  c[j] \in day /\ Start[c[j]] = Start[all[j]]
    <3>1. j \in 1 .. n
      BY <1>1
    <3>2. CASE j <= f
      <4>1. c[j] = seen[j] /\ j \in 1 .. f
        BY <1>2, <2>1, <3>2
      <4>2. Start[a[j]] = Start[all[j]]
        BY <3>1, SameStarts
      <4> QED
        BY <1>4, <4>1, <4>2
    <3>3. CASE ~(j <= f)
      <4>1. j - f \in 1 .. l /\ f + (j - f) = j
        BY <1>2, <3>3
      <4>2. c[j] = all[j]
        BY <1>3, <2>1, <3>3, <4>1
      <4> QED
        BY <1>1, <3>1, <4>2
    <3> QED
      BY <3>2, <3>3
  <2> QED
    BY <2>1, <2>2 DEF Reads
<1>5. \A seen : Reads(seen, f, day, a) => Reads(seen \o items, m, day, all)
  BY <1>4 DEF Reads
<1> QED
  BY <1>3, <1>5

(* The page after those read so far.                                       *)
LEMMA NextPage ==
  ASSUME NEW day \in SUBSET Bookings, NEW all \in InOrder(day),
         NEW w, w \in [day : {w.day}, next : Int, total : Int, seen : Seq(Bookings)],
         ReadSoFar(w, day),
         NEW p, p = w.next, p \in 0 .. (w.total - 1),
         p * PageSize \in 0 .. (Cardinality(day) - 1),
         PageEnd(Cardinality(day), PageSize, p)
             \in (p * PageSize + 1) .. Cardinality(day),
         NEW items,
         items = SubSeq(all, p * PageSize + 1, PageEnd(Cardinality(day), PageSize, p)),
         NEW v, v = [w EXCEPT !.next = @ + 1, !.seen = @ \o items]
  PROVE  /\ v \in [day : {v.day}, next : Int, total : Int, seen : Seq(Bookings)]
         /\ v.day = w.day
         /\ ReadSoFar(v, day)
<1> DEFINE n == Cardinality(day)
           f == p * PageSize
           m == PageEnd(n, PageSize, p)
<1>1. /\ n \in Nat /\ all \in Seq(Bookings) /\ Len(all) = n
      /\ \A i \in 1 .. n : all[i] \in day
  BY OrderIsList
<1>2. /\ p \in 1 .. (w.total - 1) /\ w.total = PageCount(n, PageSize)
      /\ Len(w.seen) = PageEnd(n, PageSize, p - 1)
  BY DEF ReadSoFar
<1>3. PageEnd(n, PageSize, p - 1) = f
  <2>1. p - 1 + 1 = p
    BY <1>2
  <2> QED
    BY <1>1, <2>1 DEF PageEnd
<1>4. PICK a \in InOrder(day) : \A j \in 1 .. Len(w.seen) :
         w.seen[j] \in day /\ Start[w.seen[j]] = Start[a[j]]
  BY DEF ReadSoFar
<1> HIDE DEF n, f, m
<1>5. /\ f \in 0 .. (n - 1) /\ m \in (f + 1) .. n
      /\ items = SubSeq(all, f + 1, m) /\ Len(w.seen) = f /\ n = Cardinality(day)
  BY <1>2, <1>3 DEF n, f, m
<1>6. PICK past \in Seq(Bookings) : past = w.seen
  OBVIOUS
<1>7. /\ w.seen \o items \in Seq(Bookings)
      /\ Len(w.seen \o items) = m
      /\ \A j \in 1 .. m : /\ (w.seen \o items)[j] \in day
                           /\ Start[(w.seen \o items)[j]] = Start[all[j]]
  <2>1. Reads(past, f, day, a)
    <3>1. Len(past) = f /\ \A j \in 1 .. f : past[j] \in day /\ Start[past[j]] = Start[a[j]]
      BY <1>4, <1>5, <1>6
    <3> QED
      BY <3>1 DEF Reads
  <2>2. \A s : Reads(s, f, day, a) => Reads(s \o SubSeq(all, f + 1, m), m, day, all)
    BY <1>5, PageSeen
  <2>3. Reads(past \o SubSeq(all, f + 1, m), m, day, all)
    BY <2>1, <2>2, Zenon
  <2>4. w.seen \o items = past \o SubSeq(all, f + 1, m)
    BY <1>5, <1>6
  <2> QED
    BY <2>3, <2>4, Zenon DEF Reads
<1>8. /\ v.day = w.day /\ v.next = p + 1 /\ v.total = w.total /\ v.seen = w.seen \o items
      /\ v \in [day : {v.day}, next : Int, total : Int, seen : Seq(Bookings)]
  <2>1. PICK seen \in Seq(Bookings) : seen = w.seen \o items
    BY <1>7
  <2>2. v = [w EXCEPT !.next = @ + 1, !.seen = seen]
    BY <2>1
  <2>3. PICK D : D = {w.day}
    OBVIOUS
  <2>4. w \in [day : D, next : Int, total : Int, seen : Seq(Bookings)]
    BY <2>3
  <2>5. /\ v.day = w.day /\ v.next = w.next + 1 /\ v.total = w.total /\ v.seen = seen
        /\ v \in [day : D, next : Int, total : Int, seen : Seq(Bookings)]
    BY <2>2, <2>4, AnotherPage, ZenonT(60)
  <2> QED
    BY <2>1, <2>3, <2>5
<1>9. ReadSoFar(v, day)
  <2>1. \A j \in 1 .. m : v.seen[j] \in day /\ Start[v.seen[j]] = Start[all[j]]
    BY <1>7, <1>8
  <2>2. Len(v.seen) = m /\ v.next - 1 = p /\ p \in Int
    BY <1>2, <1>7, <1>8
  <2>3. v.next \in 1 .. v.total
    <3>1. w.total \in Int /\ v.next = p + 1 /\ v.total = w.total
      BY <1>8
    <3> QED
      BY <1>2, <3>1
  <2>4. v.total = PageCount(Cardinality(day), PageSize)
    BY <1>2, <1>8 DEF n
  <2>5. Len(v.seen) = PageEnd(Cardinality(day), PageSize, v.next - 1)
    BY <2>2 DEF m, n
  <2> QED
    BY <2>1, <2>2, <2>3, <2>4, <2>5 DEF ReadSoFar
<1> QED
  BY <1>8, <1>9

LEMMA OneMorePage ==
  ASSUME NEW d, NEW all \in InOrder(ActiveBookingsForDay(d)), all # <<>>,
         NEW page \in Nat, WalkInv,
         walk' = Walked(d, paginate(all, page, PageSize)), status' = status
  PROVE  WalkInv'
<1> DEFINE day == ActiveBookingsForDay(d)
           n == Cardinality(day)
           total == PageCount(n, PageSize)
           p == clamped(page, total)
           shown == paginate(all, page, PageSize)
<1>1. day \in SUBSET Bookings
  BY DEF ActiveBookingsForDay, Active
<1>2. n \in Nat \ {0} /\ all \in Seq(Bookings) /\ Len(all) = n
  BY <1>1, OrderIsList, EmptySeq
<1>3. /\ shown = [items |-> SubSeq(all, p * PageSize + 1, PageEnd(n, PageSize, p)),
                  page |-> p, total |-> total]
      /\ total \in Nat \ {0}
      /\ p \in 0 .. (total - 1)
      /\ p * PageSize \in 0 .. (n - 1)
      /\ PageEnd(n, PageSize, p) \in (p * PageSize + 1) .. n
  BY <1>2, PageOfList, ScreensAssumption
<1>4. (ActiveBookingsForDay(d))' = day
  BY DEF ActiveBookingsForDay, Active
<1>5. /\ shown.page = p /\ shown.total = total
      /\ shown.items = SubSeq(all, p * PageSize + 1, PageEnd(n, PageSize, p))
  <2> HIDE DEF shown, p, total
  <2> QED
    BY <1>3
<1> HIDE DEF shown, p, total
<1>6. SUFFICES ASSUME walk' # NoWalk PROVE WalkInv'
  BY NoWalkKeeps
<1>7. CASE p = 0
  <2>1. p * PageSize = 0 /\ p * PageSize + 1 = 1
    BY <1>7, ScreensAssumption
  <2>2. /\ shown.page = 0 /\ shown.total = PageCount(Cardinality(day), PageSize)
        /\ shown.total \in Nat \ {0}
        /\ PageEnd(Cardinality(day), PageSize, 0) \in 1 .. Cardinality(day)
        /\ shown.items = SubSeq(all, 1, PageEnd(Cardinality(day), PageSize, 0))
    BY <1>3, <1>5, <1>7, <2>1 DEF total
  <2>3. /\ Walked(d, shown) \in [day : {Walked(d, shown).day}, next : Int, total : Int,
                                 seen : Seq(Bookings)]
        /\ Walked(d, shown).day = d
        /\ ReadSoFar(Walked(d, shown), day)
    <3> HIDE DEF day
    <3> QED
      BY <1>1, <2>2, FirstPage DEF day
  <2>4. walk' = Walked(d, shown)
    BY DEF shown
  <2>5. walk' \in [day : {walk'.day}, next : Int, total : Int, seen : Seq(Bookings)]
        /\ walk'.day = d /\ ReadSoFar(walk', day)
    <3> HIDE DEF day
    <3> QED
      BY <2>3, <2>4, Zenon
  <2>6. (ActiveBookingsForDay(walk.day))' = day
    BY <2>5, Zenon DEF ActiveBookingsForDay, Active, day
  <2> QED
    BY <2>5, <2>6 DEF WalkInv, WalkRecord
<1>8. CASE p # 0
  <2>1. /\ walk.total > 0 /\ walk.day = d /\ walk.next = p
        /\ walk' = [walk EXCEPT !.next = @ + 1, !.seen = @ \o shown.items]
    <3>1. walk' = Walked(d, shown)
      BY DEF shown
    <3> QED
      BY <1>5, <1>6, <1>8, <3>1 DEF Walked
  <2>2. /\ walk \in [day : {walk.day}, next : Int, total : Int, seen : Seq(Bookings)]
        /\ ReadSoFar(walk, day)
    BY <2>1 DEF WalkInv, WalkRecord
  <2>3. walk.total = total
    BY <2>2 DEF ReadSoFar, total
  <2>4. PICK w, v : w = walk /\ v = walk'
    OBVIOUS
  <2>5. PICK items : items = shown.items
    OBVIOUS
  <2>6. /\ w \in [day : {w.day}, next : Int, total : Int, seen : Seq(Bookings)]
        /\ ReadSoFar(w, day)
        /\ p = w.next /\ p \in 0 .. (w.total - 1)
        /\ p * PageSize \in 0 .. (Cardinality(day) - 1)
        /\ PageEnd(Cardinality(day), PageSize, p) \in (p * PageSize + 1) .. Cardinality(day)
        /\ items = SubSeq(all, p * PageSize + 1, PageEnd(Cardinality(day), PageSize, p))
        /\ v = [w EXCEPT !.next = @ + 1, !.seen = @ \o items]
    BY <1>3, <1>5, <2>1, <2>2, <2>3, <2>4, <2>5
  <2>7. all \in InOrder(day)
    OBVIOUS
  <2> HIDE DEF day
  <2>8. /\ v \in [day : {v.day}, next : Int, total : Int, seen : Seq(Bookings)]
        /\ v.day = w.day
        /\ ReadSoFar(v, day)
    BY <1>1, <2>6, <2>7, NextPage, ZenonT(60)
  <2>9. walk'.day = d /\ ReadSoFar(walk', day)
        /\ walk' \in [day : {walk'.day}, next : Int, total : Int, seen : Seq(Bookings)]
    BY <2>1, <2>4, <2>8, Zenon
  <2>10. (ActiveBookingsForDay(walk.day))' = day
    BY <2>9, Zenon DEF ActiveBookingsForDay, Active, day
  <2> QED
    BY <2>9, <2>10 DEF WalkInv, WalkRecord
<1> QED
  BY <1>7, <1>8

(* As many places in an order of the day as bookings of the day have the   *)
(* start t.                                                                *)
LEMMA PlacesOfAStart ==
  ASSUME NEW S \in SUBSET Bookings, NEW list \in InOrder(S), NEW t
  PROVE  Cardinality({i \in 1 .. Cardinality(S) : Start[list[i]] = t})
            = Cardinality({a \in S : Start[a] = t})
<1> DEFINE n == Cardinality(S)
           I == {i \in 1 .. n : Start[list[i]] = t}
           A == {a \in S : Start[a] = t}
           f == [i \in I |-> list[i]]
<1>1. /\ n \in Nat
      /\ \A i \in 1 .. n : list[i] \in S
      /\ \A i, j \in 1 .. n : i # j => list[i] # list[j]
  BY OrderIsList
<1>2. IsFiniteSet(I)
  <2>1. IsFiniteSet(1 .. n) /\ I \in SUBSET (1 .. n)
    BY <1>1, FS_Interval
  <2> QED
    BY <2>1, FS_Subset
<1>3. \A b \in S : \E k \in 1 .. n : list[k] = b
  BY EveryoneIsListed
<1> HIDE DEF n
<1>4. f \in [I -> A]
  BY <1>1
<1>5. \A i, j \in I : f[i] = f[j] => i = j
  BY <1>1
<1>6. \A a \in A : \E i \in I : f[i] = a
  BY <1>3
<1>7. f \in Bijection(I, A)
  <2> HIDE DEF f, I, A
  <2> QED
    BY <1>4, <1>5, <1>6 DEF Bijection, Injection, Surjection, IsInjective
<1> HIDE DEF f, I, A
<1>8. ExistsBijection(I, A)
  BY <1>7 DEF ExistsBijection
<1>9. Cardinality(A) = Cardinality(I)
  BY <1>2, <1>8, FS_Bijection
<1> QED
  BY <1>9 DEF I, A, n

LEMMA ReadToTheEnd ==
  ASSUME WalkInv
  PROVE  WalkCoversEveryStart
<1> DEFINE day == ActiveBookingsForDay(walk.day)
           n == Cardinality(day)
<1>1. SUFFICES ASSUME walk.total > 0, walk.next = walk.total
               PROVE  /\ ToSet(walk.seen) \subseteq day
                      /\ \A b \in day :
                            Cardinality({i \in DOMAIN walk.seen : Start[walk.seen[i]] = Start[b]})
                                = Cardinality({a \in day : Start[a] = Start[b]})
  BY DEF WalkCoversEveryStart
<1>2. day \in SUBSET Bookings
  BY DEF ActiveBookingsForDay, Active
<1>3. ReadSoFar(walk, day) /\ walk \in WalkRecord
  BY <1>1 DEF WalkInv
<1> HIDE DEF day
<1>4. PICK all \in InOrder(day) : \A j \in 1 .. Len(walk.seen) :
         walk.seen[j] \in day /\ Start[walk.seen[j]] = Start[all[j]]
  BY <1>3 DEF ReadSoFar
<1>5. n \in Nat
  BY <1>2, OrderIsList
<1>6. Len(walk.seen) = n
  <2>1. /\ Len(walk.seen) = PageEnd(n, PageSize, walk.total - 1)
        /\ walk.total = PageCount(n, PageSize) /\ walk.total \in Int
    BY <1>1, <1>3 DEF ReadSoFar, WalkRecord
  <2>2. PageCount(n, PageSize) * PageSize >= n /\ PageCount(n, PageSize) \in Nat
    BY <1>5, PageNumbers, ScreensAssumption
  <2>3. walk.total * PageSize >= n /\ walk.total - 1 + 1 = walk.total
    BY <2>1, <2>2
  <2> HIDE DEF n
  <2>4. walk.total * PageSize \in Int
    BY <2>1, ScreensAssumption
  <2>5. ~(walk.total * PageSize < n)
    BY <1>5, <2>3, <2>4
  <2> QED
    BY <2>1, <2>3, <2>5, Zenon DEF PageEnd
<1>7. DOMAIN walk.seen = 1 .. n
  BY <1>3, <1>6, LenProperties DEF WalkRecord
<1>8. ToSet(walk.seen) \subseteq day
  BY <1>4, <1>6, <1>7 DEF ToSet
<1>9. ASSUME NEW b \in day
      PROVE  Cardinality({i \in DOMAIN walk.seen : Start[walk.seen[i]] = Start[b]})
                = Cardinality({a \in day : Start[a] = Start[b]})
  <2>1. {i \in DOMAIN walk.seen : Start[walk.seen[i]] = Start[b]}
           = {i \in 1 .. n : Start[all[i]] = Start[b]}
    BY <1>4, <1>6, <1>7
  <2>2. \A t : Cardinality({i \in 1 .. Cardinality(day) : Start[all[i]] = t})
                 = Cardinality({a \in day : Start[a] = t})
    BY <1>2, PlacesOfAStart
  <2>3. Cardinality({i \in 1 .. n : Start[all[i]] = Start[b]})
           = Cardinality({a \in day : Start[a] = Start[b]})
    BY <2>2, Zenon
  <2> QED
    BY <2>1, <2>3, Zenon
<1> QED
  BY <1>8, <1>9

-----------------------------------------------------------------------------
(* The theorems                                                            *)

IInv == JobInv /\ ListInv /\ WalkInv

LEMMA InitIInv == Init => IInv
<1> SUFFICES ASSUME Init PROVE IInv
  OBVIOUS
<1>1. job = Idle /\ walk = NoWalk
  BY DEF Init
<1>2. Idle \in [pc : {"idle", "split", "send"}, chat : Chats \union {"nowhere"},
                list : Seq(Bookings), text : Texts, rest : Texts, buf : Seq(0 .. 255),
                msgs : Texts, sent : Int, kb : {Idle.kb}]
  BY EmptySeq DEF Idle, Texts
<1>3. /\ Idle.list = <<>> /\ Idle.text = <<>> /\ Idle.rest = <<>>
      /\ Idle.buf = <<>> /\ Idle.msgs = <<>>
  BY DEF Idle
<1>4. NoWalk \in [day : {NoWalk.day}, next : Int, total : Int, seen : Seq(Bookings)]
      /\ ~(NoWalk.total > 0)
  BY EmptySeq DEF NoWalk
<1> QED
  BY <1>1, <1>2, <1>3, <1>4 DEF IInv, JobInv, JobRecord, ListInv,
     NoEmptyList, AllText, AllSendable, WalkInv, WalkRecord

LEMMA SameJob ==
  ASSUME JobInv, ListInv, job' = job
  PROVE  JobInv' /\ ListInv'
  BY DEF JobInv, JobRecord, ListInv, NoEmptyList, AllText,
     AllSendable, Cancels

LEMMA ShowKeeps ==
  ASSUME IInv, Show
  PROVE  IInv'
<1>1. PICK c \in Chats, u \in Users :
         \/ ShowDialogStep(c)
         \/ showAdminDayPicker(c, u)
         \/ showMyBookings(c, u)
         \/ \E data \in AllData : onAdminDay(c, u, data)
  BY ScreensAssumption DEF Show
<1>2. CASE ShowDialogStep(c) \/ showAdminDayPicker(c, u)
  <2>1. walk' = walk /\ status' = status
    BY <1>2 DEF ShowDialogStep, showAdminDayPicker
  <2>2. \E kb : Send(c, kb)
    BY <1>2, Zenon DEF ShowDialogStep, showAdminDayPicker, fail
  <2> QED
    BY <2>1, <2>2, SendKeeps, SameWalk DEF IInv
<1>3. CASE fail(c) /\ UNCHANGED <<status, walk>>
  <2>1. \E kb : Send(c, kb)
    BY <1>3 DEF fail
  <2> QED
    BY <1>3, <2>1, SendKeeps, SameWalk DEF IInv
<1>4. CASE showMyBookings(c, u) /\ ~fail(c)
  <2>1. PICK list \in InOrder(ActiveBookingsByClient(u)) :
           list # <<>> /\ SendLong(c, list, Lines(list), myBookingsKeyboard(list))
    BY <1>4 DEF showMyBookings
  <2>2. walk' = walk /\ status' = status
    BY <1>4 DEF showMyBookings
  <2>3. ActiveBookingsByClient(u) \in SUBSET Bookings
    BY DEF ActiveBookingsByClient, Active
  <2>4. list \in Seq(Bookings)
    BY <2>1, <2>3, OrderIsList
  <2>5. Lines(list) = Lines(list) \o <<>>
    <3>1. <<>> \in {<<>>, <<<<>>, Label>>}
      OBVIOUS
    <3>2. Lines(list) \in Texts
      <4>1. <<Header, <<>>>> \in Texts
        <5>1. IsText(<<>>) /\ IsText(Header)
          BY ScreensAssumption DEF IsText, WholeCharacters
        <5> QED
          BY <5>1, TwoLines
      <4>2. [i \in DOMAIN list |-> Line[list[i]]] \in Texts
        <5>1. DOMAIN list = 1 .. Len(list) /\ Len(list) \in Nat
              /\ \A i \in 1 .. Len(list) : list[i] \in Bookings
          BY <2>4, LenProperties, ElementOfSeq
        <5>2. [i \in DOMAIN list |-> Line[list[i]]] \in [1 .. Len(list) -> Seq(0 .. 255)]
          BY <5>1, ScreensAssumption DEF IsText
        <5> QED
          BY <5>1, <5>2, SeqDef DEF Texts
      <4> QED
        BY <4>1, <4>2, ConcatProperties DEF Lines, Texts
    <3> QED
      BY <3>2, ConcatEmptySeq DEF Texts
  <2>6. Cancels(myBookingsKeyboard(list)) = ToSet(list)
    BY <2>4, MyKeyboardCancels
  <2>7. PICK kb, lines : kb = myBookingsKeyboard(list) /\ lines = Lines(list)
    OBVIOUS
  <2>8. PICK end \in {<<>>, <<<<>>, Label>>} : end = <<>>
    OBVIOUS
  <2>9. lines = Lines(list) \o end /\ Cancels(kb) = ToSet(list) /\ SendLong(c, list, lines, kb)
    BY <2>1, <2>5, <2>6, <2>7, <2>8, Zenon
  <2>10. JobInv' /\ ListInv'
    BY <2>1, <2>4, <2>9, SendLongKeeps
  <2> QED
    BY <2>2, <2>10, SameWalk DEF IInv
<1>5. CASE ~fail(c) /\ \E data \in AllData : onAdminDay(c, u, data)
  <2>1. PICK data \in AllData : onAdminDay(c, u, data)
    BY <1>5
  <2>2. PICK d : d = Dispatch(data).date
    OBVIOUS
  <2>3. PICK page \in Nat : page = Dispatch(data).page
    BY PageNumberIsNat
  <2>4. PICK all \in InOrder(ActiveBookingsForDay(d)) :
           LET shown == paginate(all, page, PageSize) IN
           /\ all # <<>>
           /\ SendLong(c, shown.items, DayReport(all, shown),
                       adminPageKeyboard(shown.items, d, shown.page, shown.total))
           /\ walk' = Walked(d, shown)
    BY <1>5, <2>1, <2>2, <2>3 DEF onAdminDay
  <2>5. status' = status
    BY <2>1 DEF onAdminDay
  <2>6. WalkInv'
    BY <2>4, <2>5, OneMorePage DEF IInv
  <2> DEFINE total == PageCount(Len(all), PageSize)
             p == clamped(page, total)
             shown == paginate(all, page, PageSize)
  <2>7. all \in Seq(Bookings) /\ all # <<>>
    <3>1. ActiveBookingsForDay(d) \in SUBSET Bookings
      BY DEF ActiveBookingsForDay, Active
    <3> QED
      BY <2>4, <3>1, OrderIsList
  <2>8. /\ shown.items = SubSeq(all, p * PageSize + 1, PageEnd(Len(all), PageSize, p))
        /\ p * PageSize \in 0 .. (Len(all) - 1)
        /\ PageEnd(Len(all), PageSize, p) \in (p * PageSize + 1) .. Len(all)
    <3>1. /\ shown = [items |-> SubSeq(all, p * PageSize + 1, PageEnd(Len(all), PageSize, p)),
                      page |-> p, total |-> total]
          /\ p * PageSize \in 0 .. (Len(all) - 1)
          /\ PageEnd(Len(all), PageSize, p) \in (p * PageSize + 1) .. Len(all)
      BY <2>7, PageOfList, ScreensAssumption
    <3> HIDE DEF shown, p, total
    <3> QED
      BY <3>1
  <2>9. shown.items \in Seq(Bookings) /\ shown.items # <<>>
    <3> HIDE DEF shown
    <3>1. PICK m \in 1 .. Len(all) : \E k \in m .. Len(all) : shown.items = SubSeq(all, m, k)
      <4>1. p * PageSize + 1 \in 1 .. Len(all)
        BY <2>7, <2>8, LenProperties
      <4> HIDE DEF p
      <4> QED
        BY <2>8, <4>1
    <3>2. PICK k \in m .. Len(all) : shown.items = SubSeq(all, m, k)
      BY <3>1
    <3>3. SubSeq(all, m, k) \in Seq(Bookings) /\ Len(SubSeq(all, m, k)) = k - m + 1
      BY <2>7, PartOfSeq
    <3>4. k - m + 1 > 0
      BY <2>7, LenProperties
    <3> QED
      BY <3>2, <3>3, <3>4, EmptySeq
  <2>10. PICK items, lines, kb :
           /\ items = shown.items /\ lines = DayReport(all, shown)
           /\ kb = adminPageKeyboard(shown.items, d, shown.page, shown.total)
    OBVIOUS
  <2>11. PICK end \in {<<>>, <<<<>>, Label>>} :
            end = IF shown.total > 1 THEN <<<<>>, Label>> ELSE <<>>
    OBVIOUS
  <2>12. lines = Lines(items) \o end
    BY <2>10, <2>11, Zenon DEF DayReport
  <2>13. SendLong(c, items, lines, kb)
    BY <2>4, <2>10, Zenon
  <2> HIDE DEF shown
  <2>14. items \in Seq(Bookings) /\ items # <<>> /\ Cancels(kb) = ToSet(items)
    BY <2>9, <2>10, PageKeyboardCancels
  <2>15. JobInv' /\ ListInv'
    BY <2>12, <2>13, <2>14, SendLongKeeps
  <2> QED
    BY <2>6, <2>15 DEF IInv
<1>6. fail(c) /\ (showMyBookings(c, u) \/ \E data \in AllData : onAdminDay(c, u, data))
         => UNCHANGED <<status, walk>>
  <2>1. SUFFICES ASSUME fail(c), showMyBookings(c, u) \/ \E data \in AllData : onAdminDay(c, u, data)
                 PROVE  UNCHANGED <<status, walk>>
    OBVIOUS
  <2> QED
    BY <2>1 DEF showMyBookings, onAdminDay, fail, Send, SendLong, Idle
<1> QED
  BY <1>1, <1>2, <1>3, <1>4, <1>5, <1>6

LEMMA NextIInv == IInv /\ [Next]_vars => IInv'
<1> SUFFICES ASSUME IInv, [Next]_vars PROVE IInv'
  OBVIOUS
<1>1. CASE Show
  BY <1>1, ShowKeeps
<1>2. CASE Compose
  <2>1. walk' = walk /\ status' = status
    BY <1>2 DEF Compose, CutLine, AddLine, EndSplit, SendMessage, Done
  <2> QED
    BY <1>2, <2>1, ComposeKeeps, SameWalk DEF IInv
<1>3. CASE Crash
  BY <1>3, IdleKeeps, SameWalk DEF IInv, Crash
<1>4. CASE \E b \in Bookings : Book(b) \/ Cancel(b)
  <2>1. job' = job /\ walk' = NoWalk
    BY <1>4 DEF Book, Cancel, Change
  <2> QED
    BY <2>1, SameJob, NoWalkKeeps DEF IInv
<1>5. CASE Tick \/ UNCHANGED vars
  <2>1. job' = job /\ walk' = walk /\ status' = status
    BY <1>5 DEF Tick, vars
  <2> QED
    BY <2>1, SameJob, SameWalk DEF IInv
<1> QED
  BY <1>1, <1>2, <1>3, <1>4, <1>5 DEF Next

THEOREM Invariance == Spec => []IInv
  BY InitIInv, NextIInv, PTL DEF Spec

(* Every message that is sent can be sent: it has a length Telegram takes  *)
(* and begins with a character, whatever the lines and the limit.          *)
THEOREM MessagesAlwaysFit == Spec => []MessagesFit
<1>1. IInv => MessagesFit
  BY DEF IInv, JobInv, AllSendable, Sendable, MessagesFit
<1> QED
  BY <1>1, Invariance, PTL

(* No button, however old, leads to an empty page.                         *)
THEOREM NoListIsEmpty == Spec => []NoEmptyList
<1>1. IInv => NoEmptyList
  BY DEF IInv, ListInv
<1> QED
  BY <1>1, Invariance, PTL

(* The text of a list and the buttons below it are about the same bookings.*)
THEOREM TextsAgreeWithButtons == Spec => []TextAgreesWithButtons
<1>1. IInv => TextAgreesWithButtons
  BY DEF IInv, ListInv, TextAgreesWithButtons, Cancels
<1> QED
  BY <1>1, Invariance, PTL

(* The pages of a day, read one after the other, show at every start as    *)
(* many lines as the day has bookings then, and nothing of another day,    *)
(* for any number of bookings, any size of a page and whatever order each  *)
(* query gives bookings with equal starts.  Which of those a page shows is *)
(* not said.                                                               *)
THEOREM WalksCoverEveryStart == Spec => []WalkCoversEveryStart
<1>1. IInv => WalkCoversEveryStart
  BY ReadToTheEnd DEF IInv
<1> QED
  BY <1>1, Invariance, PTL

-----------------------------------------------------------------------------
(* Types and keyboards                                                     *)

LEMMA SmallLists ==
  /\ now \in Nat => UpcomingDays \in Seq(Int)
  /\ \A slot \in Bookings : <<slot>> \in Seq(Int)
  /\ \A list \in ActiveServices : list \in Seq(Int)
  /\ \A list \in Seq(Bookings) : list \in Seq(Int)
<1>1. ASSUME now \in Nat
      PROVE  UpcomingDays \in Seq(Int)
  <2>1. \A i \in 1 .. Horizon : DayOf(now) + i - 1 \in Int
    BY <1>1, ScreensAssumption DEF DayOf
  <2>2. UpcomingDays \in [1 .. Horizon -> Int]
    BY <2>1 DEF UpcomingDays
  <2> QED
    BY <2>2, ScreensAssumption, SeqDef
<1>2. ASSUME NEW list \in ActiveServices
      PROVE  list \in Seq(Int)
  <2>1. Cardinality(Services) \in Nat
    BY ScreensAssumption, FS_CardinalityType
  <2>2. list \in [1 .. Cardinality(Services) -> Services]
    BY DEF ActiveServices, SetToSeqs
  <2>3. list \in [1 .. Cardinality(Services) -> Int]
    BY <2>2, ScreensAssumption
  <2> QED
    BY <2>1, <2>3, SeqDef
<1>3. \A slot \in Bookings : <<slot>> \in Seq(Int)
  BY ScreensAssumption
<1>4. \A list \in Seq(Bookings) : list \in Seq(Int)
  BY ScreensAssumption, SeqMonotonic
<1> QED
  BY <1>1, <1>2, <1>3, <1>4

LEMMA PageTypes ==
  ASSUME NEW all \in Seq(Bookings), all # <<>>, NEW page \in Nat,
         NEW shown, shown = paginate(all, page, PageSize)
  PROVE  shown.items \in Seq(Int) /\ shown.page \in Nat /\ shown.total \in Nat
<1> DEFINE total == PageCount(Len(all), PageSize)
           p     == clamped(page, total)
           n     == PageEnd(Len(all), PageSize, p)
<1>3. /\ shown = [items |-> SubSeq(all, p * PageSize + 1, n), page |-> p, total |-> total]
      /\ p * PageSize \in 0 .. (Len(all) - 1)
      /\ n \in (p * PageSize + 1) .. Len(all)
      /\ p \in 0 .. (total - 1) /\ total \in Nat
  BY PageOfList, ScreensAssumption
<1> HIDE DEF p, n, total
<1>4. PICK m \in 1 .. Len(all) : m = p * PageSize + 1 /\ n \in m .. Len(all)
  BY <1>3, LenProperties
<1>5. SubSeq(all, m, n) \in Seq(Bookings)
  BY <1>4, PartOfSeq
<1> QED
  BY <1>3, <1>4, <1>5, SmallLists, SMTT(60)

LEMMA AllDataTypes == AllData \subseteq Seq(Tokens)
<1>1. \A d \in Days : d \in Int
  BY DEF Days
<1>2. \A d \in Days : AdminDayButton(d).data \in Seq(Tokens)
  BY <1>1, AdminDayButtonWorks DEF Works, Buttons
<1>3. \A d \in Days, p \in Pages : PageButton(d, p).data \in Seq(Tokens)
  <2>1. \A p \in Pages : p \in Nat
    BY DEF Pages
  <2> QED
    BY <1>1, <2>1, PageButtonWorks DEF Works, Buttons
<1> QED
  BY <1>2, <1>3, ScreensAssumption DEF AllData

(* What the invariant of the lists leaves open of the types, and the       *)
(* keyboards.                                                              *)
TypeInv ==
    /\ status \in [Bookings -> {"none", "active", "cancelled"}]
    /\ now \in 0 .. MaxNow
    /\ job.sent \in Nat /\ job.sent <= Len(job.msgs)
    /\ job.pc = "split" => job.sent = 0
    /\ AllWork(job.kb)
    /\ walk.day \in Int /\ walk.next \in Nat /\ walk.total \in Nat

LEMMA FreshJob ==
  ASSUME NEW c, NEW kb, AllWork(kb),
         Send(c, kb) \/ \E list, lines : SendLong(c, list, lines, kb)
  PROVE  /\ job'.sent = 0 /\ job'.kb = kb /\ Len(job'.msgs) \in Nat
<1>1. CASE Send(c, kb)
  BY <1>1 DEF Send, Idle
<1>2. CASE \E list, lines : SendLong(c, list, lines, kb)
  <2>1. PICK list, lines :
          job' = [pc |-> "split", chat |-> c, list |-> list, text |-> lines, rest |-> lines,
                  buf |-> <<>>, msgs |-> <<>>, sent |-> 0, kb |-> kb]
    BY <1>2 DEF SendLong, Idle
  <2>2. job'.sent = 0 /\ job'.kb = kb /\ job'.msgs = <<>>
    BY <2>1
  <2> QED
    BY <2>2, EmptySeq
<1> QED
  BY <1>1, <1>2

(* Every keyboard that is shown, and the pages read so far.                *)
LEMMA ShownTypes ==
  ASSUME IInv, TypeInv, Show
  PROVE  /\ \E c, kb : /\ AllWork(kb)
                       /\ Send(c, kb) \/ \E list, lines : SendLong(c, list, lines, kb)
         /\ walk'.day \in Int /\ walk'.next \in Nat /\ walk'.total \in Nat
         /\ status' = status /\ now' = now
<1> DEFINE Shown == \E c, kb : /\ AllWork(kb)
                               /\ Send(c, kb) \/ \E list, lines : SendLong(c, list, lines, kb)
<1>1. now \in Nat
  BY ScreensAssumption DEF TypeInv
<1>2. AllWork(<<>>)
  BY SmallKeyboards
<1>3. \A c : fail(c) => Shown
  BY <1>2 DEF fail
<1>4. PICK c \in Chats, u \in Users :
         \/ ShowDialogStep(c)
         \/ showAdminDayPicker(c, u)
         \/ showMyBookings(c, u)
         \/ \E data \in AllData : onAdminDay(c, u, data)
  BY ScreensAssumption DEF Show
<1>5. CASE ShowDialogStep(c)
  <2>1. walk' = walk /\ status' = status /\ now' = now
    BY <1>5 DEF ShowDialogStep
  <2>2. PICK svc \in Services, slot \in Bookings :
          \/ \E list \in ActiveServices : Send(c, servicesKeyboard(list))
          \/ Send(c, daysKeyboard(svc, UpcomingDays))
          \/ Send(c, slotsKeyboard(svc, <<slot>>))
          \/ Send(c, confirmKeyboard(slot, svc))
          \/ fail(c)
    BY <1>5 DEF ShowDialogStep
  <2>3. svc \in Int /\ slot \in Int /\ 0 \in Nat
    BY ScreensAssumption
  <2>4. /\ \A list \in ActiveServices : AllWork(servicesKeyboard(list))
        /\ AllWork(daysKeyboard(svc, UpcomingDays))
        /\ AllWork(slotsKeyboard(svc, <<slot>>))
        /\ AllWork(confirmKeyboard(slot, svc))
    BY <1>1, <2>3, SmallLists, KeyboardsWork
  <2>5. Shown
    BY <1>3, <2>2, <2>4
  <2> HIDE DEF Shown
  <2> QED
    BY <2>1, <2>5 DEF TypeInv, Shown
<1>6. CASE showAdminDayPicker(c, u)
  <2>1. walk' = walk /\ status' = status /\ now' = now
    BY <1>6 DEF showAdminDayPicker
  <2>2. Send(c, adminDaysKeyboard(UpcomingDays)) \/ fail(c)
    BY <1>6 DEF showAdminDayPicker
  <2>3. AllWork(adminDaysKeyboard(UpcomingDays))
    BY <1>1, SmallLists, ListKeyboards
  <2>4. Shown
    BY <1>3, <2>2, <2>3
  <2> HIDE DEF Shown
  <2> QED
    BY <2>1, <2>4 DEF TypeInv, Shown
<1>7. CASE showMyBookings(c, u)
  <2>1. walk' = walk /\ status' = status /\ now' = now
    BY <1>7 DEF showMyBookings
  <2>2. fail(c) \/ \E list \in InOrder(ActiveBookingsByClient(u)) :
           SendLong(c, list, Lines(list), myBookingsKeyboard(list))
    BY <1>7 DEF showMyBookings
  <2>3. ASSUME NEW list \in InOrder(ActiveBookingsByClient(u))
        PROVE  AllWork(myBookingsKeyboard(list))
    <3>1. ActiveBookingsByClient(u) \in SUBSET Bookings
      BY DEF ActiveBookingsByClient, Active
    <3>2. list \in Seq(Bookings)
      BY <3>1, OrderIsList
    <3> QED
      BY <3>2, SmallLists, ListKeyboards
  <2>4. Shown
    BY <1>3, <2>2, <2>3
  <2> HIDE DEF Shown
  <2> QED
    BY <2>1, <2>4 DEF TypeInv, Shown
<1>8. CASE \E data \in AllData : onAdminDay(c, u, data)
  <2>1. PICK data \in AllData : onAdminDay(c, u, data)
    BY <1>8
  <2>2. PICK d \in Int : d = Dispatch(data).date
    BY AllDataTypes, DispatchTypes
  <2>3. PICK page \in Nat : page = Dispatch(data).page
    BY PageNumberIsNat
  <2>4. status' = status /\ now' = now
    BY <2>1 DEF onAdminDay
  <2>5. CASE fail(c) /\ walk' = walk
    <3>1. Shown
      BY <1>3, <2>5
    <3> HIDE DEF Shown
    <3> QED
      BY <2>4, <2>5, <3>1 DEF TypeInv, Shown
  <2>6. CASE \E all \in InOrder(ActiveBookingsForDay(d)) :
               LET shown == paginate(all, page, PageSize) IN
               /\ all # <<>>
               /\ SendLong(c, shown.items, DayReport(all, shown),
                           adminPageKeyboard(shown.items, d, shown.page, shown.total))
               /\ walk' = Walked(d, shown)
    <3>0. PICK all \in InOrder(ActiveBookingsForDay(d)) :
             LET it == paginate(all, page, PageSize) IN
             /\ all # <<>>
             /\ SendLong(c, it.items, DayReport(all, it),
                         adminPageKeyboard(it.items, d, it.page, it.total))
             /\ walk' = Walked(d, it)
      BY <2>6
    <3>1. PICK shown :
             /\ shown = paginate(all, page, PageSize) /\ all # <<>>
             /\ SendLong(c, shown.items, DayReport(all, shown),
                         adminPageKeyboard(shown.items, d, shown.page, shown.total))
             /\ walk' = Walked(d, shown)
      BY <3>0
    <3>2. all \in Seq(Bookings)
      <4>1. ActiveBookingsForDay(d) \in SUBSET Bookings
        BY DEF ActiveBookingsForDay, Active
      <4> QED
        BY <4>1, OrderIsList
    <3>3. shown.items \in Seq(Int) /\ shown.page \in Nat /\ shown.total \in Nat
      BY <3>1, <3>2, PageTypes
    <3>4. AllWork(adminPageKeyboard(shown.items, d, shown.page, shown.total))
      BY <3>3, PageKeyboardWorks
    <3>5. Shown
      BY <3>1, <3>4
    <3>6. walk'.day \in Int /\ walk'.next \in Nat /\ walk'.total \in Nat
      <4>1. walk \in WalkRecord
        BY DEF IInv, WalkInv
      <4>2. CASE shown.page = 0
        BY <3>1, <3>3, <4>2 DEF Walked
      <4>3. CASE shown.page # 0 /\ walk.total > 0 /\ walk.day = d /\ walk.next = shown.page
        BY <3>1, <4>1, <4>3 DEF Walked, WalkRecord, TypeInv
      <4>4. CASE ~(shown.page = 0 \/ (walk.total > 0 /\ walk.day = d /\ walk.next = shown.page))
        BY <3>1, <4>4 DEF Walked, NoWalk
      <4> QED
        BY <4>2, <4>3, <4>4
    <3> HIDE DEF Shown
    <3> QED
      BY <2>4, <3>5, <3>6 DEF Shown
  <2> QED
    BY <2>1, <2>2, <2>3, <2>5, <2>6 DEF onAdminDay
<1> QED
  BY <1>4, <1>5, <1>6, <1>7, <1>8

LEMMA NextTypes == IInv /\ TypeInv /\ [Next]_vars => TypeInv'
<1> SUFFICES ASSUME IInv, TypeInv, [Next]_vars PROVE TypeInv'
  OBVIOUS
<1>1. /\ job \in JobRecord /\ job.msgs \in Texts /\ job.buf \in Seq(0 .. 255)
      /\ Len(job.msgs) \in Nat
  BY LenProperties DEF IInv, JobInv, JobRecord, Texts
<1>2. Flushed \in Texts /\ Len(Flushed) \in Nat
  BY FlushedSendable, LenProperties DEF IInv, Texts
<1>3. CASE Show
  <2>1. PICK c, kb : /\ AllWork(kb)
                     /\ Send(c, kb) \/ \E list, lines : SendLong(c, list, lines, kb)
    BY <1>3, ShownTypes
  <2>2. job'.sent = 0 /\ job'.kb = kb /\ Len(job'.msgs) \in Nat
    BY <2>1, FreshJob
  <2>3. /\ walk'.day \in Int /\ walk'.next \in Nat /\ walk'.total \in Nat
        /\ status' = status /\ now' = now
    BY <1>3, ShownTypes
  <2> QED
    BY <2>1, <2>2, <2>3 DEF TypeInv
<1>4. CASE CutLine \/ AddLine
  <2>1. /\ job'.sent = job.sent /\ job'.kb = job.kb /\ job'.pc = job.pc /\ job.pc = "split"
        /\ UNCHANGED <<status, now, walk>>
    BY <1>1, <1>4 DEF CutLine, AddLine, JobRecord
  <2>2. Len(job'.msgs) \in Nat
    <3>1. JobInv'
      BY <1>4, CutLineKeeps, AddLineKeeps DEF IInv
    <3> QED
      BY <3>1, LenProperties DEF JobInv, JobRecord, Texts
  <2> QED
    BY <2>1, <2>2 DEF TypeInv
<1>5. CASE EndSplit
  <2>1. /\ job'.sent = job.sent /\ job'.kb = job.kb /\ job'.msgs = Flushed
        /\ job.pc = "split" /\ job'.pc = "send" /\ UNCHANGED <<status, now, walk>>
    BY <1>1, <1>5 DEF EndSplit, JobRecord
  <2> QED
    BY <1>2, <2>1 DEF TypeInv
<1>6. CASE SendMessage
  <2>1. /\ job'.sent = job.sent + 1 /\ job'.kb = job.kb /\ job'.msgs = job.msgs
        /\ job'.pc = "send" /\ job.sent < Len(job.msgs) /\ UNCHANGED <<status, now, walk>>
    BY <1>1, <1>6 DEF SendMessage, JobRecord
  <2> QED
    BY <1>1, <2>1 DEF TypeInv
<1>7. CASE Done \/ Crash
  <2>1. job' = Idle /\ UNCHANGED <<status, now, walk>>
    BY <1>7 DEF Done, Crash
  <2>2. Idle.sent = 0 /\ Idle.kb = <<>> /\ Len(Idle.msgs) = 0
    BY EmptySeq DEF Idle
  <2> QED
    BY <2>1, <2>2, SmallKeyboards DEF TypeInv
<1>8. CASE \E b \in Bookings : Book(b) \/ Cancel(b)
  <2>1. job' = job /\ walk' = NoWalk /\ now' = now
        /\ \E b \in Bookings, to \in {"active", "cancelled"} : status' = [status EXCEPT ![b] = to]
    BY <1>8 DEF Book, Cancel, Change
  <2>2. NoWalk.day \in Int /\ NoWalk.next \in Nat /\ NoWalk.total \in Nat
    BY DEF NoWalk
  <2>3. status' \in [Bookings -> {"none", "active", "cancelled"}]
    BY <2>1 DEF TypeInv
  <2> QED
    BY <2>1, <2>2, <2>3 DEF TypeInv
<1>9. CASE Tick
  BY <1>9, ScreensAssumption DEF Tick, TypeInv
<1>10. CASE UNCHANGED vars
  BY <1>10 DEF vars, TypeInv
<1> QED
  BY <1>3, <1>4, <1>5, <1>6, <1>7, <1>8, <1>9, <1>10 DEF Next, Compose

LEMMA InitTypes == Init => TypeInv
<1> SUFFICES ASSUME Init PROVE TypeInv
  OBVIOUS
<1>1. Idle.sent = 0 /\ Idle.kb = <<>> /\ Len(Idle.msgs) = 0
  BY EmptySeq DEF Idle
<1>2. NoWalk.day \in Int /\ NoWalk.next \in Nat /\ NoWalk.total \in Nat
  BY DEF NoWalk
<1>3. status \in [Bookings -> {"none", "active", "cancelled"}] /\ now \in 0 .. MaxNow
  BY ScreensAssumption DEF Init
<1> QED
  BY <1>1, <1>2, <1>3, SmallKeyboards DEF Init, TypeInv

THEOREM TypeInvariance == Spec => []TypeInv
  BY InitTypes, NextTypes, Invariance, PTL DEF Spec

(* The types of the variables, whatever the buttons, the lists and their   *)
(* lines.                                                                  *)
THEOREM TypeCorrect == Spec => []TypeOK
<1>1. IInv /\ TypeInv => TypeOK
  <2> SUFFICES ASSUME IInv, TypeInv PROVE TypeOK
    OBVIOUS
  <2>1. job \in JobRecord /\ walk \in WalkRecord
    BY DEF IInv, JobInv, WalkInv
  <2>2. job.kb \in Seq(Buttons) /\ job.sent \in Nat
    BY DEF TypeInv, AllWork
  <2>3. job \in [pc : {"idle", "split", "send"}, chat : Chats \union {"nowhere"},
                 list : Seq(Bookings), text : Texts, rest : Texts,
                 buf : Seq(0 .. 255), msgs : Texts, sent : Nat, kb : Seq(Buttons)]
    BY <2>1, <2>2 DEF JobRecord
  <2>4. walk \in [day : Int, next : Nat, total : Nat, seen : Seq(Bookings)]
    BY <2>1 DEF WalkRecord, TypeInv
  <2> QED
    BY <2>3, <2>4 DEF TypeOK, TypeInv
<1> QED
  BY <1>1, Invariance, TypeInvariance, PTL

(* Every button the bot ever shows is understood when it is pressed, and   *)
(* its data fits into the 64 bytes of Telegram, for any ids, any dates and *)
(* any number of pages.                                                    *)
THEOREM ButtonsAlwaysWork == Spec => []ButtonsWork
<1>1. TypeInv => ButtonsWork
  BY DEF TypeInv, AllWork, Works, ButtonsWork
<1> QED
  BY <1>1, TypeInvariance, PTL
=============================================================================
