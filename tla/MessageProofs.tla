---------------------------- MODULE MessageProofs ----------------------------
(***************************************************************************)
(* The theorem about SplitMessage: the messages of a list say what the     *)
(* list says, for any lines and any limit that holds a character.          *)
(***************************************************************************)
EXTENDS ScreensProofs

-----------------------------------------------------------------------------
(* Lists that are mapped and flattened                                     *)

Maps(h, A, B) == \A x \in A : h[x] \in B

Mapped(h, s) == [i \in DOMAIN s |-> h[s[i]]]

FlatMap(h, s) == FlattenSeq(Mapped(h, s))

LEMMA MappedTypes ==
  ASSUME NEW A, NEW B, NEW h, Maps(h, A, B), NEW s \in Seq(A)
  PROVE  /\ Mapped(h, s) \in Seq(B) /\ Len(Mapped(h, s)) = Len(s)
         /\ \A i \in 1 .. Len(s) : Mapped(h, s)[i] = h[s[i]]
<1>1. PICK n \in Nat : n = Len(s) /\ DOMAIN s = 1 .. n /\ \A i \in 1 .. n : s[i] \in A
  BY LenProperties, ElementOfSeq
<1>2. PICK m : m = Mapped(h, s)
  OBVIOUS
<1>3. m \in [1 .. n -> B] /\ \A i \in 1 .. n : m[i] = h[s[i]]
  BY <1>1, <1>2 DEF Mapped, Maps
<1>4. m \in Seq(B)
  BY <1>3, SeqDef
<1>5. Len(m) = n
  BY <1>3, <1>4, LenProperties
<1> QED
  BY <1>1, <1>2, <1>3, <1>4, <1>5

LEMMA ConcatIs ==
  ASSUME NEW S, NEW a \in Seq(S), NEW b \in Seq(S), NEW c \in Seq(S),
         Len(c) = Len(a) + Len(b),
         \A i \in 1 .. Len(a) : c[i] = a[i],
         \A i \in 1 .. Len(b) : c[Len(a) + i] = b[i]
  PROVE  c = a \o b
<1>1. PICK n \in Nat, l \in Nat : n = Len(a) /\ l = Len(b)
  BY LenProperties
<1>2. PICK d : d = a \o b
  OBVIOUS
<1>3. /\ d \in Seq(S) /\ Len(d) = n + l
      /\ \A i \in 1 .. n + l : d[i] = IF i <= n THEN a[i] ELSE b[i - n]
  BY <1>1, <1>2, ConcatProperties
<1>4. ASSUME NEW i \in 1 .. n + l
      PROVE  c[i] = d[i]
  <2>1. CASE i <= n
    <3>1. i \in 1 .. n
      BY <2>1
    <3> QED
      BY <1>1, <1>3, <2>1, <3>1
  <2>2. CASE i > n
    <3>1. i - n \in 1 .. l /\ ~(i <= n) /\ n + (i - n) = i
      BY <2>2
    <3> QED
      BY <1>1, <1>3, <3>1
  <2> QED
    BY <2>1, <2>2
<1>5. c = d
  BY <1>1, <1>3, <1>4, SeqEqual
<1> QED
  BY <1>2, <1>5

LEMMA ConcatHas ==
  ASSUME NEW S, NEW a \in Seq(S), NEW b \in Seq(S), NEW c, c = a \o b
  PROVE  /\ c \in Seq(S) /\ Len(c) = Len(a) + Len(b)
         /\ Len(a) \in Nat /\ Len(b) \in Nat
         /\ \A i \in 1 .. Len(a) : i \in 1 .. Len(c) /\ c[i] = a[i]
         /\ \A i \in 1 .. Len(b) : Len(a) + i \in 1 .. Len(c) /\ c[Len(a) + i] = b[i]
<1>1. PICK n \in Nat, l \in Nat : n = Len(a) /\ l = Len(b)
  BY LenProperties
<1>2. /\ c \in Seq(S) /\ Len(c) = n + l
      /\ \A i \in 1 .. n + l : c[i] = IF i <= n THEN a[i] ELSE b[i - n]
  BY <1>1, ConcatProperties
<1>3. \A i \in 1 .. l : n + i \in 1 .. n + l /\ ~(n + i <= n) /\ (n + i) - n = i
  OBVIOUS
<1>4. \A i \in 1 .. n : i \in 1 .. n + l
  OBVIOUS
<1> QED
  BY <1>1, <1>2, <1>3, <1>4

LEMMA MappedConcat ==
  ASSUME NEW A, NEW B, NEW h, Maps(h, A, B), NEW a \in Seq(A), NEW b \in Seq(A)
  PROVE  Mapped(h, a \o b) = Mapped(h, a) \o Mapped(h, b)
<1>1. PICK c : c = a \o b
  OBVIOUS
<1>2. /\ c \in Seq(A) /\ Len(c) = Len(a) + Len(b)
      /\ Len(a) \in Nat /\ Len(b) \in Nat
      /\ \A i \in 1 .. Len(a) : i \in 1 .. Len(c) /\ c[i] = a[i]
      /\ \A i \in 1 .. Len(b) : Len(a) + i \in 1 .. Len(c) /\ c[Len(a) + i] = b[i]
  BY <1>1, ConcatHas
<1>3. PICK m, k, d : m = Mapped(h, a) /\ k = Mapped(h, b) /\ d = Mapped(h, c)
  OBVIOUS
<1>4. m \in Seq(B) /\ Len(m) = Len(a) /\ \A i \in 1 .. Len(a) : m[i] = h[a[i]]
  BY <1>3, MappedTypes
<1>5. k \in Seq(B) /\ Len(k) = Len(b) /\ \A i \in 1 .. Len(b) : k[i] = h[b[i]]
  BY <1>3, MappedTypes
<1>6. d \in Seq(B) /\ Len(d) = Len(c) /\ \A i \in 1 .. Len(c) : d[i] = h[c[i]]
  <2>1. c \in Seq(A)
    BY <1>2
  <2>2. /\ Mapped(h, c) \in Seq(B) /\ Len(Mapped(h, c)) = Len(c)
        /\ \A i \in 1 .. Len(c) : Mapped(h, c)[i] = h[c[i]]
    BY <2>1, MappedTypes
  <2> QED
    BY <1>3, <2>2, Zenon
<1>7. ASSUME NEW i \in 1 .. Len(m)
      PROVE  d[i] = m[i]
  <2>1. i \in 1 .. Len(c) /\ c[i] = a[i]
    BY <1>2, <1>4
  <2> QED
    BY <1>4, <1>6, <2>1
<1>8. ASSUME NEW i \in 1 .. Len(k)
      PROVE  d[Len(m) + i] = k[i]
  <2>1. Len(a) + i \in 1 .. Len(c) /\ c[Len(a) + i] = b[i]
    BY <1>2, <1>5
  <2> QED
    BY <1>4, <1>5, <1>6, <2>1
<1>9. d = m \o k
  <2>1. m \in Seq(B) /\ k \in Seq(B) /\ d \in Seq(B) /\ Len(d) = Len(m) + Len(k)
    BY <1>2, <1>4, <1>5, <1>6
  <2> QED
    BY <1>7, <1>8, <2>1, ConcatIs, Zenon
<1> QED
  BY <1>1, <1>3, <1>9

LEMMA FlatMapTypes ==
  ASSUME NEW A, NEW S, NEW h, Maps(h, A, Seq(S)), NEW s \in Seq(A)
  PROVE  FlatMap(h, s) \in Seq(S)
<1>1. Mapped(h, s) \in Seq(Seq(S))
  BY MappedTypes
<1>2. <<>> \in Seq(S)
  OBVIOUS
<1> QED
  BY <1>1, <1>2, FlattenOneMore DEF FlatMap

LEMMA FlatMapConcat ==
  ASSUME NEW A, NEW S, NEW h, Maps(h, A, Seq(S)), NEW a \in Seq(A), NEW b \in Seq(A)
  PROVE  FlatMap(h, a \o b) = FlatMap(h, a) \o FlatMap(h, b)
<1>1. PICK m \in Seq(Seq(S)), k \in Seq(Seq(S)) : m = Mapped(h, a) /\ k = Mapped(h, b)
  BY MappedTypes
<1>2. Mapped(h, a \o b) = Mapped(h, a) \o Mapped(h, b)
  <2>1. PICK B : B = Seq(S)
    OBVIOUS
  <2>2. Maps(h, A, B)
    BY <2>1
  <2> QED
    BY <2>2, MappedConcat
<1>3. FlattenSeq(m \o k) = FlattenSeq(m) \o FlattenSeq(k)
  BY FlattenConcat
<1> QED
  BY <1>1, <1>2, <1>3, Zenon DEF FlatMap

LEMMA FlatMapOne ==
  ASSUME NEW A, NEW S, NEW h, Maps(h, A, Seq(S)), NEW x \in A
  PROVE  FlatMap(h, <<x>>) = h[x] /\ FlatMap(h, <<>>) = <<>>
<1>1. Mapped(h, <<x>>) = <<h[x]>>
  BY DEF Mapped
<1>2. PICK v \in Seq(S) : v = h[x]
  BY DEF Maps
<1>3. FlattenSeq(<<v>>) = v
  BY FlattenOne
<1>4. Mapped(h, <<>>) = <<>>
  BY DEF Mapped
<1>5. FlatMap(h, <<>>) = <<>>
  BY <1>4, FlattenNothing DEF FlatMap
<1> QED
  BY <1>1, <1>2, <1>3, <1>5 DEF FlatMap

-----------------------------------------------------------------------------
(* What a text says                                                        *)

Byte == 0 .. 255

Text == Seq(Byte)

Keep == [line \in Text |-> IF line = <<>> THEN <<>> ELSE <<line>>]

(* The lines of a text that are not blank, and their bytes.                *)
SplitLines(s) == NotBlank(Split(s, NL))

Splitting == [s \in Text |-> SplitLines(s)]

Letters(s) == FlattenSeq(SplitLines(s))

Written(texts) == FlattenSeq(LinesOf(texts))

LEMMA KeepTypes == Maps(Keep, Text, Seq(Text))
  BY DEF Keep, Maps

LEMMA NotBlankIs ==
  ASSUME NEW lines \in Seq(Text)
  PROVE  NotBlank(lines) = FlatMap(Keep, lines)
<1>1. PICK n \in Nat : DOMAIN lines = 1 .. n /\ \A i \in 1 .. n : lines[i] \in Text
  BY LenProperties, ElementOfSeq
<1>2. \A i \in DOMAIN lines :
         Keep[lines[i]] = IF lines[i] = <<>> THEN <<>> ELSE <<lines[i]>>
  BY <1>1 DEF Keep
<1>3. [i \in DOMAIN lines |-> Keep[lines[i]]]
         = [i \in DOMAIN lines |-> IF lines[i] = <<>> THEN <<>> ELSE <<lines[i]>>]
  BY <1>2
<1> QED
  BY <1>3 DEF NotBlank, FlatMap, Mapped

LEMMA NotBlankConcat ==
  ASSUME NEW a \in Seq(Text), NEW b \in Seq(Text)
  PROVE  /\ NotBlank(a) \in Seq(Text)
         /\ NotBlank(a \o b) = NotBlank(a) \o NotBlank(b)
<1>1. PICK c \in Seq(Text) : c = a \o b
  BY ConcatProperties
<1>2. /\ NotBlank(a) = FlatMap(Keep, a) /\ NotBlank(b) = FlatMap(Keep, b)
      /\ NotBlank(c) = FlatMap(Keep, c)
  BY NotBlankIs
<1>3. FlatMap(Keep, a \o b) = FlatMap(Keep, a) \o FlatMap(Keep, b)
  BY KeepTypes, FlatMapConcat
<1>4. FlatMap(Keep, a) \in Seq(Text)
  BY KeepTypes, FlatMapTypes
<1> QED
  BY <1>1, <1>2, <1>3, <1>4

LEMMA NotBlankOneMore ==
  ASSUME NEW lines \in Seq(Text), NEW line \in Text
  PROVE  NotBlank(Append(lines, line)) =
            IF line = <<>> THEN NotBlank(lines) ELSE Append(NotBlank(lines), line)
<1>1. PICK one \in Seq(Text) : one = <<line>>
  BY SmallTypes
<1>2. Append(lines, line) = lines \o one
  BY <1>1, AppendIsConcat
<1>3. NotBlank(one) = Keep[line]
  BY <1>1, NotBlankIs, KeepTypes, FlatMapOne
<1>4. PICK said \in Seq(Text) : said = NotBlank(lines)
  BY <1>1, NotBlankConcat
<1>5. NotBlank(lines \o one) = said \o Keep[line]
  <2>1. NotBlank(lines \o one) = NotBlank(lines) \o NotBlank(one)
    BY NotBlankConcat
  <2> QED
    BY <1>3, <1>4, <2>1, Zenon
<1>6. CASE line = <<>>
  <2>1. said \o <<>> = said
    BY ConcatEmptySeq
  <2> QED
    BY <1>2, <1>4, <1>5, <1>6, <2>1 DEF Keep
<1>7. CASE line # <<>>
  <2>1. said \o <<line>> = Append(said, line)
    BY AppendIsConcat
  <2>2. Keep[line] = <<line>>
    BY <1>7 DEF Keep
  <2> QED
    BY <1>2, <1>4, <1>5, <1>7, <2>1, <2>2
<1> QED
  BY <1>6, <1>7

LEMMA SplitTypes ==
  ASSUME NEW s \in Text
  PROVE  Split(s, NL) \in Parts(Byte)
  BY SplitRuns, LenProperties DEF RunsTo, Text

LEMMA EmptyText == <<>> \in Text /\ <<>> \in Seq(Text)
  BY DEF Text

LEMMA FlattenTypes ==
  ASSUME NEW lines \in Seq(Text)
  PROVE  FlattenSeq(lines) \in Text
  BY EmptyText, FlattenOneMore DEF Text

LEMMA SplitLinesTypes ==
  ASSUME NEW s \in Text
  PROVE  SplitLines(s) \in Seq(Text) /\ Letters(s) \in Text
<1>1. Split(s, NL) \in Seq(Text)
  BY SplitTypes DEF Parts, Text
<1>2. SplitLines(s) \in Seq(Text)
  BY <1>1, NotBlankConcat DEF SplitLines
<1>3. Letters(s) \in Text
  <2>1. PICK lines \in Seq(Text) : lines = SplitLines(s)
    BY <1>2
  <2>2. FlattenSeq(lines) \in Text
    BY FlattenTypes
  <2> QED
    BY <2>1, <2>2 DEF Letters
<1> QED
  BY <1>2, <1>3

LEMMA SplitLinesOfNothing == SplitLines(<<>>) = <<>> /\ Letters(<<>>) = <<>>
<1>1. PICK none \in Text : none = <<>>
  BY EmptyText, Zenon
<1>2. PICK nothing \in Seq(Text) : nothing = <<>>
  BY EmptyText, Zenon
<1>3. NotBlank(<<none>>) = NotBlank(nothing)
  <2>1. Append(nothing, none) = <<none>>
    BY <1>2
  <2> QED
    BY <1>1, <2>1, NotBlankOneMore
<1>4. NotBlank(nothing) = <<>>
  BY <1>1, <1>2, NotBlankIs, KeepTypes, FlatMapOne
<1>5. Split(<<>>, NL) = <<none>>
  BY <1>1, SplitNothing
<1> QED
  BY <1>3, <1>4, <1>5, FlattenNothing DEF SplitLines, Letters

(* Two texts with a line feed between them.                                *)
LEMMA SplitLinesJoined ==
  ASSUME NEW a \in Text, NEW b \in Text, NEW c, c = a \o <<NL>> \o b
  PROVE  /\ SplitLines(c) = SplitLines(a) \o SplitLines(b)
         /\ Letters(c) = Letters(a) \o Letters(b)
<1>1. PICK sep \in Byte : sep = NL
  BY DEF NL, Byte
<1>2. a \in Seq(Byte) /\ b \in Seq(Byte)
  BY DEF Text
<1>3. c = Append(a, sep) \o b
  <2>1. Append(a, sep) = a \o <<sep>>
    BY <1>2, AppendIsConcat
  <2> QED
    BY <1>1, <2>1, Zenon
<1>4. Split(c, NL) = Split(a, NL) \o Split(b, NL)
  <2>1. Split(Append(a, sep) \o b, sep) = Split(a, sep) \o Split(b, sep)
    BY <1>2, SplitAt
  <2> QED
    BY <1>1, <1>3, <2>1, Zenon
<1>5. PICK p \in Seq(Text), q \in Seq(Text) : p = Split(a, NL) /\ q = Split(b, NL)
  BY SplitTypes DEF Parts, Text
<1>6. NotBlank(p \o q) = NotBlank(p) \o NotBlank(q)
  BY NotBlankConcat
<1>7. SplitLines(c) = SplitLines(a) \o SplitLines(b)
  BY <1>4, <1>5, <1>6 DEF SplitLines
<1>8. PICK v \in Seq(Text), w \in Seq(Text) : v = SplitLines(a) /\ w = SplitLines(b)
  BY SplitLinesTypes
<1>9. FlattenSeq(v \o w) = FlattenSeq(v) \o FlattenSeq(w)
  BY <1>8, FlattenConcat DEF Text
<1> QED
  BY <1>7, <1>8, <1>9 DEF Letters

(* One byte more: a line feed leaves no trace in the letters.              *)
LEMMA LettersOneMore ==
  ASSUME NEW s \in Text, NEW x \in Byte
  PROVE  Letters(Append(s, x)) = IF x = NL THEN Letters(s) ELSE Append(Letters(s), x)
<1>1. s \in Seq(Byte)
  BY DEF Text
<1>2. PICK parts \in Parts(Byte) : parts = Split(s, NL)
  BY SplitTypes
<1>3. Split(Append(s, x), NL) = Cut(parts, x, NL)
  BY <1>1, <1>2, SplitOneMore
<1>4. PICK p \in Seq(Text), last \in Text : parts = Append(p, last)
  BY LastPart DEF Text
<1>5. <<>> \in Text /\ parts \in Seq(Text)
  BY <1>2 DEF Text, Parts
<1>6. CASE x = NL
  <2>1. Cut(parts, x, NL) = Append(parts, <<>>)
    BY <1>6, CutBetween
  <2>2. NotBlank(Append(parts, <<>>)) = NotBlank(parts)
    BY <1>5, NotBlankOneMore
  <2> QED
    BY <1>2, <1>3, <1>6, <2>1, <2>2 DEF Letters, SplitLines
<1>7. CASE x # NL
  <2>1. PICK longer \in Text : longer = Append(last, x) /\ longer # <<>>
    <3>1. Append(last, x) \in Text /\ Len(Append(last, x)) = Len(last) + 1 /\ Len(last) \in Nat
      BY AppendProperties, LenProperties DEF Text
    <3>2. PICK longer \in Text : longer = Append(last, x) /\ Len(longer) = Len(last) + 1
      BY <3>1, Zenon
    <3>3. longer # <<>>
      BY <3>1, <3>2, EmptySeq
    <3> QED
      BY <3>2, <3>3, Zenon
  <2>2. Cut(parts, x, NL) = Append(p, longer)
    BY <1>4, <1>7, <2>1, CutLast DEF Text
  <2>3. PICK said \in Seq(Text) : said = NotBlank(p)
    BY NotBlankConcat
  <2>4. NotBlank(Append(p, longer)) = Append(said, longer)
    BY <2>1, <2>3, NotBlankOneMore
  <2>5. FlattenSeq(Append(said, longer)) = FlattenSeq(said) \o longer
        /\ FlattenSeq(said) \in Text
    BY FlattenOneMore DEF Text
  <2>6. FlattenSeq(NotBlank(Append(p, last))) = FlattenSeq(said) \o last
    <3>1. CASE last = <<>>
      <4>1. FlattenSeq(said) \o <<>> = FlattenSeq(said)
        BY <2>5, ConcatEmptySeq DEF Text
      <4> QED
        BY <2>3, <3>1, <4>1, NotBlankOneMore
    <3>2. CASE last # <<>>
      <4>1. FlattenSeq(Append(said, last)) = FlattenSeq(said) \o last
        BY FlattenOneMore DEF Text
      <4> QED
        BY <2>3, <3>2, <4>1, NotBlankOneMore
    <3> QED
      BY <3>1, <3>2
  <2>7. PICK u \in Text : u = FlattenSeq(said)
    BY <2>5
  <2>8. u \o Append(last, x) = Append(u \o last, x)
    BY ConcatAppend DEF Text
  <2>9. Letters(Append(s, x)) = u \o Append(last, x)
    BY <1>3, <2>1, <2>2, <2>4, <2>5, <2>7, Zenon DEF Letters, SplitLines
  <2>10. Letters(s) = u \o last
    BY <1>2, <1>4, <2>6, <2>7, Zenon DEF Letters, SplitLines
  <2> QED
    BY <1>7, <2>8, <2>9, <2>10, Zenon
<1> QED
  BY <1>6, <1>7

(* A text that is cut, anywhere.                                           *)
LEMMA LettersConcat ==
  ASSUME NEW a \in Text, NEW b \in Text
  PROVE  Letters(a \o b) = Letters(a) \o Letters(b)
<1>1. PICK n \in Nat : n = Len(b)
  BY LenProperties DEF Text
<1> DEFINE p(i) == SubSeq(b, 1, i)
           T == {i \in 0 .. n : Letters(a \o p(i)) = Letters(a) \o Letters(p(i))}
<1>2. 0 \in T
  <2>1. p(0) = <<>>
    BY SubSeqEmpty
  <2>2. a \o <<>> = a /\ Letters(a) \o <<>> = Letters(a)
    BY SplitLinesTypes, ConcatEmptySeq DEF Text
  <2>3. Letters(a \o p(0)) = Letters(a) \o Letters(p(0))
    <3> HIDE DEF p
    <3> QED
      BY <2>1, <2>2, SplitLinesOfNothing, Zenon
  <2> QED
    BY <2>3
<1>3. ASSUME NEW i \in 1 .. n, i - 1 \in T
      PROVE  i \in T
  <2>1. p(i - 1) \in Text /\ b[i] \in Byte /\ p(i) = Append(p(i - 1), b[i])
    BY <1>1, PrefixOneMore DEF Text
  <2>2. Letters(a \o p(i - 1)) = Letters(a) \o Letters(p(i - 1))
    BY <1>3
  <2> HIDE DEF p
  <2>3. PICK u \in Text, x \in Byte : u = a \o p(i - 1) /\ x = b[i]
    BY <2>1, ConcatProperties DEF Text
  <2>4. a \o p(i) = Append(u, x)
    BY <2>1, <2>3, ConcatAppend DEF Text
  <2>5. PICK v \in Text, w \in Text : v = Letters(a) /\ w = Letters(p(i - 1))
    BY <2>1, SplitLinesTypes
  <2>6. Letters(u) = v \o w
    BY <2>2, <2>3, <2>5
  <2>7. Letters(Append(u, x)) = IF x = NL THEN Letters(u) ELSE Append(Letters(u), x)
    BY LettersOneMore
  <2>8. Letters(p(i)) = IF x = NL THEN w ELSE Append(w, x)
    <3>1. PICK q \in Text : q = p(i - 1)
      BY <2>1
    <3>2. Letters(Append(q, x)) = IF x = NL THEN Letters(q) ELSE Append(Letters(q), x)
      BY LettersOneMore
    <3> QED
      BY <2>1, <2>3, <2>5, <3>1, <3>2, Zenon
  <2>9. v \o Append(w, x) = Append(v \o w, x)
    BY ConcatAppend DEF Text
  <2>10. Letters(a \o p(i)) = Letters(a) \o Letters(p(i))
    BY <2>4, <2>5, <2>6, <2>7, <2>8, <2>9, Zenon
  <2> QED
    BY <2>10
<1>4. n \in T
  <2> HIDE DEF T
  <2>1. 0 .. n \subseteq T
    BY <1>2, <1>3, InductionTo
  <2> QED
    BY <2>1
<1>5. p(n) = b
  BY <1>1, SubSeqFull DEF Text
<1>6. Letters(a \o p(n)) = Letters(a) \o Letters(p(n))
  BY <1>4
<1> HIDE DEF p
<1> QED
  BY <1>5, <1>6

LEMMA SplittingTypes == Maps(Splitting, Text, Seq(Text))
  BY SplitLinesTypes DEF Splitting, Maps

LEMMA LinesOfIs ==
  ASSUME NEW texts \in Seq(Text)
  PROVE  LinesOf(texts) = FlatMap(Splitting, texts)
<1>1. PICK n \in Nat : DOMAIN texts = 1 .. n /\ \A i \in 1 .. n : texts[i] \in Text
  BY LenProperties, ElementOfSeq
<1>2. \A i \in DOMAIN texts : Splitting[texts[i]] = NotBlank(Split(texts[i], NL))
  BY <1>1 DEF Splitting, SplitLines
<1>3. [i \in DOMAIN texts |-> Splitting[texts[i]]]
         = [i \in DOMAIN texts |-> NotBlank(Split(texts[i], NL))]
  BY <1>2
<1> QED
  BY <1>3 DEF LinesOf, FlatMap, Mapped

LEMMA WrittenConcat ==
  ASSUME NEW a \in Seq(Text), NEW b \in Seq(Text)
  PROVE  /\ LinesOf(a) \in Seq(Text) /\ Written(a) \in Text
         /\ LinesOf(a \o b) = LinesOf(a) \o LinesOf(b)
         /\ Written(a \o b) = Written(a) \o Written(b)
<1>1. PICK c \in Seq(Text) : c = a \o b
  BY ConcatProperties
<1>2. /\ LinesOf(a) = FlatMap(Splitting, a) /\ LinesOf(b) = FlatMap(Splitting, b)
      /\ LinesOf(c) = FlatMap(Splitting, c)
  BY LinesOfIs
<1>3. FlatMap(Splitting, a \o b) = FlatMap(Splitting, a) \o FlatMap(Splitting, b)
  BY SplittingTypes, FlatMapConcat
<1>4. FlatMap(Splitting, a) \in Seq(Text) /\ FlatMap(Splitting, b) \in Seq(Text)
  BY SplittingTypes, FlatMapTypes
<1>5. PICK v \in Seq(Text), w \in Seq(Text) : v = LinesOf(a) /\ w = LinesOf(b)
  BY <1>2, <1>4
<1>6. FlattenSeq(v \o w) = FlattenSeq(v) \o FlattenSeq(w)
  BY FlattenConcat DEF Text
<1>7. FlattenSeq(v) \in Text
  <2>1. <<>> \in Text
    BY DEF Text
  <2> QED
    BY <2>1, FlattenOneMore DEF Text
<1> QED
  BY <1>1, <1>2, <1>3, <1>5, <1>6, <1>7 DEF Written

LEMMA WrittenOne ==
  ASSUME NEW s \in Text
  PROVE  /\ LinesOf(<<s>>) = SplitLines(s) /\ Written(<<s>>) = Letters(s)
         /\ LinesOf(<<>>) = <<>> /\ Written(<<>>) = <<>>
<1>1. PICK one \in Seq(Text), none \in Seq(Text) : one = <<s>> /\ none = <<>>
  BY SmallTypes
<1>2. LinesOf(one) = FlatMap(Splitting, one) /\ LinesOf(none) = FlatMap(Splitting, none)
  BY LinesOfIs
<1>3. FlatMap(Splitting, <<s>>) = Splitting[s] /\ FlatMap(Splitting, <<>>) = <<>>
  BY SplittingTypes, FlatMapOne
<1>4. Splitting[s] = SplitLines(s)
  BY DEF Splitting
<1> QED
  BY <1>1, <1>2, <1>3, <1>4, FlattenNothing DEF Written, Letters

LEMMA WrittenOneMore ==
  ASSUME NEW a \in Seq(Text), NEW s \in Text
  PROVE  /\ LinesOf(Append(a, s)) = LinesOf(a) \o SplitLines(s)
         /\ Written(Append(a, s)) = Written(a) \o Letters(s)
<1>1. PICK one \in Seq(Text) : one = <<s>>
  BY SmallTypes
<1>2. Append(a, s) = a \o one
  BY <1>1, AppendIsConcat
<1>3. LinesOf(a \o one) = LinesOf(a) \o LinesOf(one) /\ Written(a \o one) = Written(a) \o Written(one)
  BY WrittenConcat
<1> QED
  BY <1>1, <1>2, <1>3, WrittenOne

LEMMA HeadAndTail ==
  ASSUME NEW S, NEW a \in Seq(S), a # <<>>, NEW one, one = <<Head(a)>>
  PROVE  one \o Tail(a) = a
<1>1. PICK n \in Nat \ {0} : n = Len(a)
  BY EmptySeq, LenProperties
<1>2. PICK s \in S, b \in Seq(S) :
        /\ s = a[1] /\ s = Head(a) /\ b = Tail(a)
        /\ Len(b) = n - 1 /\ \A i \in 1 .. n - 1 : b[i] = a[i + 1]
  <2>1. /\ Head(a) \in S /\ Head(a) = a[1]
        /\ Tail(a) \in Seq(S) /\ Len(Tail(a)) = n - 1
        /\ \A i \in 1 .. n - 1 : Tail(a)[i] = a[i + 1]
    BY <1>1, HeadTailProperties, ElementOfSeq
  <2> QED
    BY <2>1, Zenon
<1>3. one \in Seq(S) /\ Len(one) = 1 /\ one[1] = s
  BY <1>2
<1>4. PICK c : c = one \o b
  OBVIOUS
<1>5. /\ c \in Seq(S) /\ Len(c) = 1 + (n - 1)
      /\ \A i \in 1 .. 1 + (n - 1) : c[i] = IF i <= 1 THEN one[i] ELSE b[i - 1]
  BY <1>2, <1>3, <1>4, ConcatProperties
<1>6. ASSUME NEW i \in 1 .. n
      PROVE  c[i] = a[i]
  <2>1. CASE i = 1
    BY <1>2, <1>3, <1>5, <2>1
  <2>2. CASE i > 1
    <3>1. i - 1 \in 1 .. n - 1 /\ (i - 1) + 1 = i /\ i \in 1 .. 1 + (n - 1) /\ ~(i <= 1)
      BY <2>2
    <3> QED
      BY <1>2, <1>5, <3>1
  <2> QED
    BY <2>1, <2>2
<1>7. c = a
  <2>1. Len(c) = Len(a) /\ \A i \in 1 .. Len(c) : c[i] = a[i]
    BY <1>1, <1>5, <1>6
  <2> QED
    BY <1>5, <2>1, SeqEqual
<1> QED
  BY <1>2, <1>4, <1>7, Zenon

LEMMA WrittenHead ==
  ASSUME NEW a \in Seq(Text), a # <<>>
  PROVE  /\ Head(a) \in Text /\ Tail(a) \in Seq(Text)
         /\ LinesOf(a) = SplitLines(Head(a)) \o LinesOf(Tail(a))
         /\ Written(a) = Letters(Head(a)) \o Written(Tail(a))
<1>1. PICK s \in Text, b \in Seq(Text) : s = Head(a) /\ b = Tail(a)
  BY HeadTailProperties
<1>2. PICK one \in Seq(Text) : one = <<s>>
  BY SmallTypes
<1>3. LinesOf(one \o b) = LinesOf(one) \o LinesOf(b) /\ Written(one \o b) = Written(one) \o Written(b)
  BY WrittenConcat
<1>4. one \o b = a
  BY <1>1, <1>2, HeadAndTail
<1> QED
  BY <1>1, <1>2, <1>3, <1>4, WrittenOne

-----------------------------------------------------------------------------
(* What the messages, the buffer and the lines that are left say together  *)

(* All of it, and line by line.                                            *)
Said(msgs, buf, rest) == Written(msgs) \o (Letters(buf) \o Written(rest))

SaidLines(msgs, buf, rest) == LinesOf(msgs) \o (SplitLines(buf) \o LinesOf(rest))

SaysTheSame(msgs, buf, rest, m, b, r) ==
    /\ Said(msgs, buf, rest) = Said(m, b, r)
    /\ SaidLines(msgs, buf, rest) = SaidLines(m, b, r)

(* The buffer becomes a message.                                           *)
Put(msgs, buf) == IF buf = <<>> THEN msgs ELSE Append(msgs, buf)

(* A line joins the buffer.                                                *)
Join(buf, line) == IF buf = <<>> THEN line ELSE buf \o <<NL>> \o line

LEMMA RegroupThree ==
  ASSUME NEW S, NEW a \in Seq(S), NEW b \in Seq(S), NEW c \in Seq(S)
  PROVE  Glue(a, Glue(b, c)) = Glue(Glue(a, b), c)
<1>1. (a \o b) \o c = a \o (b \o c)
  BY ConcatAssociative
<1> QED
  BY <1>1, Zenon DEF Glue

LEMMA RegroupFour ==
  ASSUME NEW S, NEW a \in Seq(S), NEW b \in Seq(S), NEW c \in Seq(S), NEW d \in Seq(S)
  PROVE  Glue(a, Glue(b, Glue(c, d))) = Glue(a, Glue(Glue(b, c), d))
<1>1. (b \o c) \o d = b \o (c \o d)
  BY ConcatAssociative
<1> QED
  BY <1>1, Zenon DEF Glue

LEMMA JoinSays ==
  ASSUME NEW buf \in Text, NEW line \in Text
  PROVE  /\ Join(buf, line) \in Text
         /\ Letters(Join(buf, line)) = Letters(buf) \o Letters(line)
         /\ SplitLines(Join(buf, line)) = SplitLines(buf) \o SplitLines(line)
<1>1. PICK u \in Text, v \in Seq(Text) : u = Letters(line) /\ v = SplitLines(line)
  BY SplitLinesTypes
<1>2. <<>> \o u = u /\ <<>> \o v = v
  BY ConcatEmptySeq DEF Text
<1>3. CASE buf = <<>>
  <2>1. Join(buf, line) = line
    BY <1>3 DEF Join
  <2> QED
    BY <1>1, <1>2, <1>3, <2>1, SplitLinesOfNothing, Zenon
<1>4. CASE buf # <<>>
  <2>1. PICK c : c = buf \o <<NL>> \o line
    OBVIOUS
  <2>2. c \in Text
    <3>1. PICK nl \in Text : nl = <<NL>>
      <4>1. <<NL>> \in Text
        BY DEF NL, Text, Byte
      <4> QED
        BY <4>1, Zenon
    <3>2. PICK d \in Text : d = buf \o nl
      BY ConcatProperties DEF Text
    <3>3. d \o line \in Text
      BY ConcatProperties DEF Text
    <3> QED
      BY <2>1, <3>1, <3>2, <3>3, Zenon
  <2>3. /\ SplitLines(c) = SplitLines(buf) \o SplitLines(line)
        /\ Letters(c) = Letters(buf) \o Letters(line)
    BY <2>1, SplitLinesJoined
  <2>4. Join(buf, line) = c
    BY <1>4, <2>1 DEF Join
  <2> QED
    BY <2>2, <2>3, <2>4, Zenon
<1> QED
  BY <1>3, <1>4

LEMMA PutSays ==
  ASSUME NEW msgs \in Seq(Text), NEW buf \in Text
  PROVE  /\ Put(msgs, buf) \in Seq(Text)
         /\ Written(Put(msgs, buf)) = Written(msgs) \o Letters(buf)
         /\ LinesOf(Put(msgs, buf)) = LinesOf(msgs) \o SplitLines(buf)
<1>1. CASE buf = <<>>
  <2>1. PICK u \in Text, v \in Seq(Text) : u = Written(msgs) /\ v = LinesOf(msgs)
    BY WrittenConcat
  <2>2. u \o <<>> = u /\ v \o <<>> = v
    BY ConcatEmptySeq DEF Text
  <2>3. Put(msgs, buf) = msgs
    BY <1>1 DEF Put
  <2> QED
    BY <1>1, <2>1, <2>2, <2>3, SplitLinesOfNothing, Zenon
<1>2. CASE buf # <<>>
  <2>1. Put(msgs, buf) = Append(msgs, buf)
    BY <1>2 DEF Put
  <2>2. Append(msgs, buf) \in Seq(Text)
    BY AppendProperties
  <2> QED
    BY <2>1, <2>2, WrittenOneMore, Zenon
<1> QED
  BY <1>1, <1>2

(* The next line joins the buffer.                                         *)
LEMMA JoinSaysTheSame ==
  ASSUME NEW m \in Seq(Text), NEW b \in Text, NEW r \in Seq(Text), r # <<>>
  PROVE  SaysTheSame(m, Join(b, Head(r)), Tail(r), m, b, r)
<1>1. /\ Head(r) \in Text /\ Tail(r) \in Seq(Text)
      /\ LinesOf(r) = SplitLines(Head(r)) \o LinesOf(Tail(r))
      /\ Written(r) = Letters(Head(r)) \o Written(Tail(r))
  BY WrittenHead
<1>2. PICK line \in Text, t \in Seq(Text) : line = Head(r) /\ t = Tail(r)
  BY <1>1
<1>3. /\ Letters(Join(b, line)) = Letters(b) \o Letters(line)
      /\ SplitLines(Join(b, line)) = SplitLines(b) \o SplitLines(line)
  BY JoinSays
<1>4. Said(m, Join(b, line), t) = Said(m, b, r)
  <2>1. PICK x \in Text, y \in Text, z \in Text, w \in Text :
           x = Written(m) /\ y = Letters(b) /\ z = Letters(line) /\ w = Written(t)
    BY SplitLinesTypes, WrittenConcat
  <2>2. Glue(x, Glue(y, Glue(z, w))) = Glue(x, Glue(Glue(y, z), w))
    BY RegroupFour DEF Text
  <2> QED
    BY <1>1, <1>2, <1>3, <2>1, <2>2, Zenon DEF Glue, Said
<1>5. SaidLines(m, Join(b, line), t) = SaidLines(m, b, r)
  <2>1. PICK x \in Seq(Text), y \in Seq(Text), z \in Seq(Text), w \in Seq(Text) :
           x = LinesOf(m) /\ y = SplitLines(b) /\ z = SplitLines(line) /\ w = LinesOf(t)
    BY SplitLinesTypes, WrittenConcat
  <2>2. Glue(x, Glue(y, Glue(z, w))) = Glue(x, Glue(Glue(y, z), w))
    BY RegroupFour
  <2> QED
    BY <1>1, <1>2, <1>3, <2>1, <2>2, Zenon DEF Glue, SaidLines
<1> QED
  BY <1>2, <1>4, <1>5, Zenon DEF SaysTheSame

(* The buffer becomes a message and is empty then.                         *)
LEMMA PutSaysTheSame ==
  ASSUME NEW m \in Seq(Text), NEW b \in Text, NEW r \in Seq(Text)
  PROVE  SaysTheSame(Put(m, b), <<>>, r, m, b, r)
<1>1. /\ Written(Put(m, b)) = Written(m) \o Letters(b)
      /\ LinesOf(Put(m, b)) = LinesOf(m) \o SplitLines(b)
  BY PutSays
<1>2. Said(Put(m, b), <<>>, r) = Said(m, b, r)
  <2>1. PICK x \in Text, y \in Text, w \in Text :
           x = Written(m) /\ y = Letters(b) /\ w = Written(r)
    BY SplitLinesTypes, WrittenConcat
  <2>2. Glue(x, Glue(y, w)) = Glue(Glue(x, y), w)
    BY RegroupThree DEF Text
  <2>3. <<>> \o w = w
    BY ConcatEmptySeq DEF Text
  <2> QED
    BY <1>1, <2>1, <2>2, <2>3, SplitLinesOfNothing, Zenon DEF Glue, Said
<1>3. SaidLines(Put(m, b), <<>>, r) = SaidLines(m, b, r)
  <2>1. PICK x \in Seq(Text), y \in Seq(Text), w \in Seq(Text) :
           x = LinesOf(m) /\ y = SplitLines(b) /\ w = LinesOf(r)
    BY SplitLinesTypes, WrittenConcat
  <2>2. Glue(x, Glue(y, w)) = Glue(Glue(x, y), w)
    BY RegroupThree
  <2>3. <<>> \o w = w
    BY ConcatEmptySeq
  <2> QED
    BY <1>1, <2>1, <2>2, <2>3, SplitLinesOfNothing, Zenon DEF Glue, SaidLines
<1> QED
  BY <1>2, <1>3 DEF SaysTheSame

(* The first of the lines rest is cut into part and left.                  *)
Severed(rest, part, left, more) ==
    rest # <<>> /\ Head(rest) = part \o left /\ more = <<left>> \o Tail(rest)

(* A part of the next line becomes a message of its own: only the letters  *)
(* are the same then.                                                      *)
LEMMA CutSaysTheSame ==
  ASSUME NEW m \in Seq(Text), NEW r \in Seq(Text), NEW part \in Text, NEW left \in Text,
         NEW more, Severed(r, part, left, more)
  PROVE  Said(Append(m, part), <<>>, more) = Said(m, <<>>, r)
<1>1. PICK one \in Seq(Text) : one = <<left>>
  BY SmallTypes
<1>2. r # <<>> /\ Head(r) = part \o left /\ more = one \o Tail(r)
  BY <1>1, Zenon DEF Severed
<1>3. PICK t \in Seq(Text) : t = Tail(r) /\ Written(r) = Letters(part \o left) \o Written(t)
  <2>1. Tail(r) \in Seq(Text) /\ Written(r) = Letters(Head(r)) \o Written(Tail(r))
    BY <1>2, WrittenHead
  <2> QED
    BY <1>2, <2>1, Zenon
<1>4. PICK x \in Text, y \in Text, z \in Text, w \in Text :
         x = Written(m) /\ y = Letters(part) /\ z = Letters(left) /\ w = Written(t)
  BY SplitLinesTypes, WrittenConcat
<1>5. Letters(part \o left) = y \o z
  BY <1>4, LettersConcat
<1>6. Written(one \o t) = z \o w
  <2>1. Written(one \o t) = Written(one) \o Written(t)
    BY WrittenConcat
  <2>2. Written(one) = Letters(left)
    BY <1>1, WrittenOne
  <2> QED
    BY <1>4, <2>1, <2>2, Zenon
<1>7. Written(Append(m, part)) = x \o y
  BY <1>4, WrittenOneMore
<1>8. PICK yz \in Text, zw \in Text : yz = y \o z /\ zw = z \o w
  BY ConcatProperties DEF Text
<1>9. <<>> \o zw = zw
  BY ConcatEmptySeq DEF Text
<1>10. yz \o w = y \o zw
  <2>1. Glue(y, Glue(z, w)) = Glue(Glue(y, z), w)
    BY RegroupThree DEF Text
  <2> QED
    BY <1>8, <2>1, Zenon DEF Glue
<1>11. PICK yzw \in Text : yzw = yz \o w
  BY ConcatProperties DEF Text
<1>12. <<>> \o yzw = yzw
  BY ConcatEmptySeq DEF Text
<1>13. x \o yzw = (x \o y) \o zw
  <2>1. Glue(x, Glue(y, zw)) = Glue(Glue(x, y), zw)
    BY RegroupThree DEF Text
  <2> QED
    BY <1>10, <1>11, <2>1, Zenon DEF Glue
<1>14. Said(Append(m, part), <<>>, one \o t) = (x \o y) \o zw
  BY <1>6, <1>7, <1>8, <1>9, SplitLinesOfNothing, Zenon DEF Said
<1>15. Said(m, <<>>, r) = x \o yzw
  BY <1>3, <1>4, <1>5, <1>8, <1>11, <1>12, SplitLinesOfNothing, Zenon DEF Said
<1> QED
  BY <1>2, <1>3, <1>13, <1>14, <1>15

(* Nothing is left to split.                                               *)
LEMMA SaidAtTheEnd ==
  ASSUME NEW m \in Seq(Text)
  PROVE  /\ Said(m, <<>>, <<>>) = Written(m) /\ SaidLines(m, <<>>, <<>>) = LinesOf(m)
         /\ Said(<<>>, <<>>, m) = Written(m) /\ SaidLines(<<>>, <<>>, m) = LinesOf(m)
<1>1. PICK x \in Text, v \in Seq(Text) : x = Written(m) /\ v = LinesOf(m)
  BY WrittenConcat
<1>2. x \o <<>> = x /\ v \o <<>> = v /\ <<>> \o x = x /\ <<>> \o v = v
  BY ConcatEmptySeq DEF Text
<1>3. Written(<<>>) = <<>> /\ LinesOf(<<>>) = <<>>
  BY WrittenOne, EmptyText
<1>4. <<>> \o <<>> = <<>>
  OBVIOUS
<1> QED
  BY <1>1, <1>2, <1>3, <1>4, SplitLinesOfNothing, Zenon DEF Said, SaidLines

-----------------------------------------------------------------------------
(* Nothing is dropped                                                      *)

Short(texts) == \A i \in DOMAIN texts : Len(texts[i]) <= Limit

(* While a list is split, the messages, the buffer and the lines that are  *)
(* left say what the list says, and line by line unless one was cut.       *)
SplitInv ==
    /\ job.text # <<>> => Said(job.msgs, job.buf, job.rest) = Written(job.text)
    /\ job.text # <<>> /\ Short(job.text) =>
          Short(job.rest) /\ SaidLines(job.msgs, job.buf, job.rest) = LinesOf(job.text)
    /\ job.pc = "send" => job.buf = <<>> /\ job.rest = <<>>

LEMMA ShortTail ==
  ASSUME NEW texts \in Seq(Text), texts # <<>>, Short(texts)
  PROVE  Len(Head(texts)) <= Limit /\ Short(Tail(texts))
<1>1. PICK n \in Nat \ {0} : n = Len(texts) /\ DOMAIN texts = 1 .. n
  BY EmptySeq, LenProperties
<1>2. Head(texts) = texts[1] /\ DOMAIN Tail(texts) = 1 .. n - 1
      /\ \A i \in 1 .. n - 1 : Tail(texts)[i] = texts[i + 1]
  BY <1>1, HeadTailProperties
<1>3. \A i \in 1 .. n - 1 : i + 1 \in 1 .. n
  OBVIOUS
<1> QED
  BY <1>1, <1>2, <1>3 DEF Short

LEMMA JobTexts ==
  ASSUME JobInv
  PROVE  /\ job \in JobRecord /\ job.buf \in Text /\ job.msgs \in Seq(Text)
         /\ job.rest \in Seq(Text) /\ job.text \in Seq(Text)
  BY DEF JobInv, JobRecord, Texts, Text, Byte

(* A line that is cut: its two parts.                                      *)
LEMMA TwoParts ==
  ASSUME NEW line \in Text, NEW cut \in 1 .. (Len(line) - 1)
  PROVE  /\ SubSeq(line, 1, cut) \in Text /\ SubSeq(line, cut + 1, Len(line)) \in Text
         /\ SubSeq(line, 1, cut) \o SubSeq(line, cut + 1, Len(line)) = line
<1>1. PICK n \in Nat : n = Len(line)
  BY LenProperties DEF Text
<1>2. line \in Seq(Byte)
  BY DEF Text
<1>3. PICK a : a = SubSeq(line, 1, cut)
  OBVIOUS
<1>4. PICK b : b = SubSeq(line, cut + 1, n)
  OBVIOUS
<1>5. a \in Seq(Byte) /\ Len(a) = cut /\ \A i \in 1 .. cut : a[i] = line[i]
  <2>1. 1 \in 1 .. Len(line) /\ cut \in 1 .. Len(line) /\ cut - 1 + 1 = cut
    BY <1>1
  <2>2. \A i \in 1 .. cut : 1 + i - 1 = i
    OBVIOUS
  <2>3. /\ SubSeq(line, 1, cut) \in Seq(Byte)
        /\ Len(SubSeq(line, 1, cut)) = cut - 1 + 1
        /\ \A i \in 1 .. (cut - 1 + 1) : SubSeq(line, 1, cut)[i] = line[1 + i - 1]
    BY <1>2, <2>1, PartOfSeq
  <2> QED
    BY <1>3, <2>1, <2>2, <2>3
<1>6. b \in Seq(Byte) /\ Len(b) = n - cut /\ \A i \in 1 .. n - cut : b[i] = line[cut + i]
  <2>0. PICK m \in 1 .. Len(line) : m = cut + 1
    BY <1>1
  <2>1. PICK k \in m .. Len(line) : k = n
    BY <1>1, <2>0
  <2>2. /\ SubSeq(line, m, k) \in Seq(Byte)
        /\ Len(SubSeq(line, m, k)) = k - m + 1
        /\ \A i \in 1 .. (k - m + 1) : SubSeq(line, m, k)[i] = line[m + i - 1]
    BY <1>2, PartOfSeq
  <2>3. k - m + 1 = n - cut /\ \A i \in 1 .. n - cut : m + i - 1 = cut + i
    BY <1>1, <2>0, <2>1
  <2>4. b = SubSeq(line, m, k)
    BY <1>4, <2>0, <2>1
  <2> QED
    BY <2>2, <2>3, <2>4
<1>7. line = a \o b
  <2>1. Len(line) = Len(a) + Len(b)
    BY <1>1, <1>5, <1>6
  <2>2. \A i \in 1 .. Len(a) : line[i] = a[i]
    BY <1>5
  <2>3. \A i \in 1 .. Len(b) : line[Len(a) + i] = b[i]
    BY <1>5, <1>6
  <2> QED
    BY <1>2, <1>5, <1>6, <2>1, <2>2, <2>3, ConcatIs, Zenon
<1> QED
  BY <1>1, <1>3, <1>4, <1>5, <1>6, <1>7, Zenon DEF Text

(* The two names of the model for what this module calls Put and Join.     *)
LEMMA FlushedIsPut == Flushed = Put(job.msgs, job.buf)
  BY Zenon DEF Flushed, Put

LEMMA JoinedIsJoin == \A line : Joined(line) = Join(job.buf, line)
  BY Zenon DEF Joined, Join

LEMMA CutLineSays ==
  ASSUME JobInv, SplitInv, CutLine
  PROVE  SplitInv'
<1> DEFINE line == Head(job.rest)
           cut  == safeCut(line, Limit)
           part == SubSeq(line, 1, cut)
           left == SubSeq(line, cut + 1, Len(line))
<1>1. /\ job \in JobRecord /\ job.buf \in Text /\ job.msgs \in Seq(Text)
      /\ job.rest \in Seq(Text) /\ job.text \in Seq(Text)
  BY JobTexts
<1>2. job.rest # <<>> /\ Len(line) > Limit /\ job.pc = "split" /\ IsText(line)
  <2>1. job.rest # <<>> /\ AllText(job.rest) /\ job.rest \in Texts
    BY <1>1 DEF CutLine, JobInv, JobRecord
  <2> QED
    BY <2>1, HeadOfLines DEF CutLine
<1>3. line \in Text /\ Len(line) \in Nat /\ Tail(job.rest) \in Seq(Text)
  BY <1>1, <1>2, TextFacts, WrittenHead DEF Text, Byte
<1>4. cut \in 1 .. (Len(line) - 1)
  <2>1. cut \in 1 .. Limit
    BY <1>2, CutAtCharacter, ScreensAssumption
  <2> HIDE DEF cut, line
  <2> QED
    BY <1>2, <1>3, <2>1, ScreensAssumption
<1>5. part \in Text /\ left \in Text /\ part \o left = line
  <2> HIDE DEF cut, line
  <2> QED
    BY <1>3, <1>4, TwoParts
<1>6. job' = [job EXCEPT !.msgs = Append(Flushed, part), !.buf = <<>>,
                         !.rest = <<left>> \o Tail(job.rest)]
  BY <1>1 DEF CutLine, JobRecord
<1> HIDE DEF line, cut, part, left
<1>7. PICK one \in Seq(Text) : one = <<left>>
  BY <1>5, SmallTypes
<1>8. PICK m \in Seq(Text) : m = Flushed
  BY <1>1, FlushedIsPut, PutSays
<1>9. /\ job'.msgs = Append(m, part) /\ job'.buf = <<>> /\ job'.rest = one \o Tail(job.rest)
      /\ job'.text = job.text /\ job'.pc = "split"
  <2>1. PICK x, y : x = Append(m, part) /\ y = one \o Tail(job.rest)
    OBVIOUS
  <2>2. job' = [job EXCEPT !.msgs = x, !.buf = <<>>, !.rest = y]
    BY <1>6, <1>7, <1>8, <2>1, Zenon
  <2>3. /\ job'.msgs = x /\ job'.buf = <<>> /\ job'.rest = y
        /\ job'.text = job.text /\ job'.pc = "split"
    BY <1>1, <1>2, <2>2 DEF JobRecord
  <2> QED
    BY <2>1, <2>3
<1>10. Said(Append(m, part), <<>>, one \o Tail(job.rest)) = Said(m, <<>>, job.rest)
  <2>1. Severed(job.rest, part, left, one \o Tail(job.rest))
    BY <1>2, <1>5, <1>7, Zenon DEF Severed, line
  <2> QED
    BY <1>1, <1>5, <2>1, CutSaysTheSame
<1>11. Said(m, <<>>, job.rest) = Said(job.msgs, job.buf, job.rest)
  BY <1>1, <1>8, FlushedIsPut, PutSaysTheSame DEF SaysTheSame
<1>12. ~(job.text # <<>> /\ Short(job.text))
  BY <1>1, <1>2, <1>3, ShortTail, ScreensAssumption DEF SplitInv, line
<1> QED
  BY <1>9, <1>10, <1>11, <1>12 DEF SplitInv, Short

LEMMA AddLineSays ==
  ASSUME JobInv, SplitInv, AddLine
  PROVE  SplitInv'
<1> DEFINE line == Head(job.rest)
<1>1. /\ job \in JobRecord /\ job.buf \in Text /\ job.msgs \in Seq(Text)
      /\ job.rest \in Seq(Text) /\ job.text \in Seq(Text)
  BY JobTexts
<1>2. job.rest # <<>> /\ job.pc = "split"
  BY DEF AddLine
<1>3. line \in Text /\ Tail(job.rest) \in Seq(Text)
  BY <1>1, <1>2, WrittenHead
<1>4. job' = IF Fits(line)
             THEN [job EXCEPT !.buf = Joined(line), !.rest = Tail(job.rest)]
             ELSE [job EXCEPT !.msgs = Flushed, !.buf = line, !.rest = Tail(job.rest)]
  BY <1>1 DEF AddLine, JobRecord
<1> HIDE DEF line
<1>5. /\ job'.rest = Tail(job.rest) /\ job'.text = job.text /\ job'.pc = "split"
      /\ SaysTheSame(job'.msgs, job'.buf, job'.rest, job.msgs, job.buf, job.rest)
  <2>1. CASE Fits(line)
    <3>1. job' = [job EXCEPT !.buf = Joined(line), !.rest = Tail(job.rest)]
      BY <1>4, <2>1, Zenon
    <3>2. /\ job'.rest = Tail(job.rest) /\ job'.text = job.text /\ job'.pc = "split"
          /\ job'.msgs = job.msgs /\ job'.buf = Join(job.buf, line)
      BY <1>1, <1>2, <3>1, JoinedIsJoin DEF JobRecord
    <3>3. SaysTheSame(job.msgs, Join(job.buf, line), Tail(job.rest), job.msgs, job.buf, job.rest)
      BY <1>1, <1>2, JoinSaysTheSame DEF line
    <3> QED
      BY <3>2, <3>3, Zenon
  <2>2. CASE ~Fits(line)
    <3>1. job' = [job EXCEPT !.msgs = Flushed, !.buf = line, !.rest = Tail(job.rest)]
      BY <1>4, <2>2, Zenon
    <3>2. PICK m \in Seq(Text) : m = Put(job.msgs, job.buf)
      BY <1>1, PutSays
    <3>3. /\ job'.rest = Tail(job.rest) /\ job'.text = job.text /\ job'.pc = "split"
          /\ job'.msgs = m /\ job'.buf = line
      BY <1>1, <1>2, <3>1, <3>2, FlushedIsPut DEF JobRecord
    <3>4. SaysTheSame(m, Join(<<>>, line), Tail(job.rest), m, <<>>, job.rest)
      BY <1>1, <1>2, EmptyText, JoinSaysTheSame DEF line
    <3>5. Join(<<>>, line) = line
      BY DEF Join
    <3>6. SaysTheSame(m, <<>>, job.rest, job.msgs, job.buf, job.rest)
      BY <1>1, <3>2, PutSaysTheSame
    <3>7. SaysTheSame(m, line, Tail(job.rest), job.msgs, job.buf, job.rest)
      BY <3>4, <3>5, <3>6, Zenon DEF SaysTheSame
    <3> QED
      BY <3>3, <3>7, Zenon
  <2> QED
    BY <2>1, <2>2
<1>6. Short(job.rest) => Short(Tail(job.rest))
  BY <1>1, <1>2, ShortTail
<1> QED
  BY <1>5, <1>6 DEF SplitInv, SaysTheSame, Short

LEMMA EndSplitSays ==
  ASSUME JobInv, SplitInv, EndSplit
  PROVE  SplitInv'
<1>1. /\ job \in JobRecord /\ job.buf \in Text /\ job.msgs \in Seq(Text)
      /\ job.rest \in Seq(Text)
  BY JobTexts
<1>2. job' = [job EXCEPT !.pc = "send", !.msgs = Flushed, !.buf = <<>>] /\ job.rest = <<>>
  BY DEF EndSplit
<1>3. /\ job'.rest = job.rest /\ job'.text = job.text
      /\ job'.msgs = Put(job.msgs, job.buf) /\ job'.buf = <<>>
  BY <1>1, <1>2, FlushedIsPut DEF JobRecord
<1>4. SaysTheSame(Put(job.msgs, job.buf), <<>>, job.rest, job.msgs, job.buf, job.rest)
  BY <1>1, PutSaysTheSame
<1>5. SaysTheSame(job'.msgs, job'.buf, job'.rest, job.msgs, job.buf, job.rest)
  BY <1>3, <1>4, Zenon
<1> QED
  BY <1>2, <1>3, <1>5 DEF SplitInv, SaysTheSame, Short

LEMMA FreshJobSays ==
  ASSUME JobInv', NEW c, NEW kb,
         Send(c, kb) \/ \E list, lines : SendLong(c, list, lines, kb)
  PROVE  SplitInv'
<1>1. CASE Send(c, kb)
  <2>1. job'.text = <<>> /\ job'.buf = <<>> /\ job'.rest = <<>>
    BY <1>1 DEF Send, Idle
  <2> QED
    BY <2>1 DEF SplitInv
<1>2. CASE \E list, lines : SendLong(c, list, lines, kb)
  <2>1. PICK list, lines :
          job' = [pc |-> "split", chat |-> c, list |-> list, text |-> lines, rest |-> lines,
                  buf |-> <<>>, msgs |-> <<>>, sent |-> 0, kb |-> kb]
    BY <1>2 DEF SendLong, Idle
  <2>2. /\ job'.pc = "split" /\ job'.msgs = <<>> /\ job'.buf = <<>>
        /\ job'.rest = lines /\ job'.text = lines
    BY <2>1
  <2>3. lines \in Seq(Text)
    BY <2>2 DEF JobInv, JobRecord, Texts, Text, Byte
  <2>4. Said(<<>>, <<>>, lines) = Written(lines) /\ SaidLines(<<>>, <<>>, lines) = LinesOf(lines)
    BY <2>3, SaidAtTheEnd
  <2> QED
    BY <2>2, <2>4 DEF SplitInv, Short
<1> QED
  BY <1>1, <1>2

LEMMA NextSplitInv == IInv /\ TypeInv /\ SplitInv /\ [Next]_vars => SplitInv'
<1> SUFFICES ASSUME IInv, TypeInv, SplitInv, [Next]_vars PROVE SplitInv'
  OBVIOUS
<1>1. JobInv /\ JobInv' /\ job \in JobRecord
  BY NextIInv DEF IInv, JobInv
<1>2. CASE Show
  <2>1. PICK c, kb : Send(c, kb) \/ \E list, lines : SendLong(c, list, lines, kb)
    BY <1>2, ShownTypes
  <2> QED
    BY <1>1, <2>1, FreshJobSays
<1>3. CASE CutLine
  BY <1>1, <1>3, CutLineSays
<1>4. CASE AddLine
  BY <1>1, <1>4, AddLineSays
<1>5. CASE EndSplit
  BY <1>1, <1>5, EndSplitSays
<1>6. CASE SendMessage
  <2>1. /\ job'.pc = job.pc /\ job'.text = job.text /\ job'.rest = job.rest
        /\ job'.buf = job.buf /\ job'.msgs = job.msgs
    BY <1>1, <1>6 DEF SendMessage, JobRecord
  <2> QED
    BY <2>1 DEF SplitInv, Short
<1>7. CASE Done \/ Crash
  <2>1. job'.text = <<>> /\ job'.buf = <<>> /\ job'.rest = <<>>
    BY <1>7 DEF Done, Crash, Idle
  <2> QED
    BY <2>1 DEF SplitInv
<1>8. CASE (\E b \in Bookings : Book(b) \/ Cancel(b)) \/ Tick \/ UNCHANGED vars
  <2>1. job' = job
    BY <1>8 DEF Book, Cancel, Change, Tick, vars
  <2> QED
    BY <2>1 DEF SplitInv, Short
<1> QED
  BY <1>2, <1>3, <1>4, <1>5, <1>6, <1>7, <1>8 DEF Next, Compose

LEMMA InitSplitInv == Init => SplitInv
  BY DEF Init, Idle, SplitInv

(* Whatever is said by a list is said by the messages it is split into, in *)
(* the same order and nothing twice; and line by line, when no line is     *)
(* longer than a message (comment of SplitMessage).                        *)
THEOREM NothingIsDropped == Spec => []NothingDropped
<1>1. IInv /\ SplitInv => NothingDropped
  <2> SUFFICES ASSUME IInv, SplitInv, job.pc = "send", job.text # <<>>
               PROVE  /\ Written(job.msgs) = Written(job.text)
                      /\ Short(job.text) => LinesOf(job.msgs) = LinesOf(job.text)
    BY DEF NothingDropped, Written, Short
  <2>1. job.buf = <<>> /\ job.rest = <<>> /\ job.msgs \in Seq(Text)
    BY JobTexts DEF IInv, SplitInv
  <2>2. /\ Said(job.msgs, <<>>, <<>>) = Written(job.msgs)
        /\ SaidLines(job.msgs, <<>>, <<>>) = LinesOf(job.msgs)
    BY <2>1, SaidAtTheEnd
  <2> QED
    BY <2>1, <2>2 DEF SplitInv
<1>2. Spec => []SplitInv
  BY InitSplitInv, NextSplitInv, Invariance, TypeInvariance, PTL DEF Spec
<1> QED
  BY <1>1, <1>2, Invariance, PTL

-----------------------------------------------------------------------------
(* The loops of SplitMessage end                                           *)

(* Fewer lines are left, or as many and the first of them is shorter: a    *)
(* well-founded order of what is left to split.                            *)
LessLeft(rest, before) ==
    \/ Len(rest) < Len(before)
    \/ Len(rest) = Len(before) /\ Len(Head(rest)) < Len(Head(before))

LEMMA CutLineAdvances ==
  ASSUME JobInv, CutLine
  PROVE  LessLeft(job'.rest, job.rest)
<1>1. /\ job \in JobRecord /\ job.rest \in Seq(Text)
      /\ job.rest # <<>> /\ AllText(job.rest) /\ job.rest \in Texts
  BY JobTexts DEF CutLine, JobInv, JobRecord
<1>2. PICK line : line = Head(job.rest)
  OBVIOUS
<1>3. PICK cut : cut = safeCut(line, Limit)
  OBVIOUS
<1>4. line \in Seq(0 .. 255) /\ IsText(line) /\ Len(line) \in Nat /\ Len(line) > Limit
  BY <1>1, <1>2, HeadOfLines, TextFacts DEF CutLine
<1>5. cut \in 1 .. Len(line) - 1
  <2>1. cut \in 1 .. Limit
    BY <1>3, <1>4, CutAtCharacter, ScreensAssumption
  <2> QED
    BY <1>4, <2>1, ScreensAssumption
<1>6. PICK left : left = SubSeq(line, cut + 1, Len(line))
  OBVIOUS
<1>7. left \in Text /\ Len(left) < Len(line)
  <2>1. PICK m \in 1 .. Len(line) : m = cut + 1
    BY <1>4, <1>5
  <2>2. PICK n \in m .. Len(line) : n = Len(line)
    BY <1>4, <2>1
  <2>3. SubSeq(line, m, n) \in Seq(0 .. 255) /\ Len(SubSeq(line, m, n)) = n - m + 1
    BY <1>4, PartOfSeq
  <2>4. left = SubSeq(line, m, n)
    BY <1>6, <2>1, <2>2
  <2>5. left \in Seq(0 .. 255) /\ Len(left) = n - m + 1
    BY <2>3, <2>4, Zenon
  <2>6. n - m + 1 < Len(line)
    BY <1>4, <1>5, <2>1, <2>2
  <2> QED
    BY <2>5, <2>6 DEF Text, Byte
<1>8. PICK one \in Seq(Text), tail \in Seq(Text) : one = <<left>> /\ tail = Tail(job.rest)
  BY <1>1, <1>7, SmallTypes, HeadTailProperties
<1>9. Len(one) = 1 /\ one[1] = left /\ Len(tail) = Len(job.rest) - 1 /\ Len(job.rest) \in Nat
  BY <1>1, <1>8, HeadTailProperties, LenProperties
<1>10. PICK more : more = one \o tail
  OBVIOUS
<1>11. more \in Seq(Text) /\ Len(more) = Len(job.rest) /\ Head(more) = left
  <2>1. /\ more \in Seq(Text) /\ Len(more) = Len(one) + Len(tail)
        /\ \A i \in 1 .. Len(one) : i \in 1 .. Len(more) /\ more[i] = one[i]
    BY <1>10, ConcatHas
  <2>2. 1 \in 1 .. Len(one)
    BY <1>9
  <2>3. more # <<>>
    BY <1>9, <2>1, <2>2, EmptySeq
  <2> QED
    BY <1>9, <2>1, <2>2, <2>3, HeadTailProperties
<1>12. job'.rest = more
  <2>1. PICK msgs : msgs = Append(Flushed, SubSeq(line, 1, cut))
    OBVIOUS
  <2>2. job' = [job EXCEPT !.msgs = Append(Flushed, SubSeq(line, 1, cut)), !.buf = <<>>,
                           !.rest = <<left>> \o Tail(job.rest)]
    BY <1>1, <1>2, <1>3, <1>6 DEF CutLine, JobRecord
  <2>3. job' = [job EXCEPT !.msgs = msgs, !.buf = <<>>, !.rest = more]
    BY <1>8, <1>10, <2>1, <2>2, Zenon
  <2> QED
    BY <1>1, <2>3 DEF JobRecord
<1> QED
  BY <1>2, <1>7, <1>11, <1>12 DEF LessLeft

LEMMA AddLineAdvances ==
  ASSUME JobInv, AddLine
  PROVE  LessLeft(job'.rest, job.rest)
<1>1. job \in JobRecord /\ job.rest \in Seq(Text) /\ job.rest # <<>>
  BY JobTexts DEF AddLine
<1>2. job'.rest = Tail(job.rest)
  BY <1>1 DEF AddLine, JobRecord
<1>3. Len(Tail(job.rest)) = Len(job.rest) - 1 /\ Len(job.rest) \in Nat
  BY <1>1, HeadTailProperties, LenProperties
<1> QED
  BY <1>2, <1>3 DEF LessLeft

(* Every iteration of the two loops of SplitMessage leaves less to split,  *)
(* whatever the lines and the limit: they end, were safeCut ever to answer *)
(* 0 the inner one would not.                                              *)
THEOREM SplittingAdvances ==
  Spec => [][CutLine \/ AddLine => LessLeft(job'.rest, job.rest)]_vars
<1>1. IInv /\ [Next]_vars => [CutLine \/ AddLine => LessLeft(job'.rest, job.rest)]_vars
  BY CutLineAdvances, AddLineAdvances DEF IInv
<1> QED
  BY <1>1, Invariance, PTL DEF Spec
=============================================================================
