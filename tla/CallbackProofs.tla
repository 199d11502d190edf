--------------------------- MODULE CallbackProofs ---------------------------
(***************************************************************************)
(* Theorems about Callback and Text: what strings.Split makes of a text,   *)
(* and every button of the bot, for any ids, dates and page numbers.       *)
(***************************************************************************)
EXTENDS Callback, Recursion

-----------------------------------------------------------------------------
(* Split                                                                   *)

Parts(S) == Seq(Seq(S)) \ {<<>>}

(* One element more, of the last part or between two parts.                *)
Cut(parts, x, sep) ==
    IF x = sep THEN Append(parts, <<>>)
    ELSE [parts EXCEPT ![Len(parts)] = Append(@, x)]

LEMMA CutTypes ==
  ASSUME NEW S, NEW parts \in Parts(S), NEW x \in S, NEW sep
  PROVE  Cut(parts, x, sep) \in Parts(S)
<1>1. parts \in Seq(Seq(S)) /\ parts # <<>> /\ Len(parts) \in Nat \ {0} /\ <<>> \in Seq(S)
  BY EmptySeq DEF Parts
<1>2. CASE x = sep
  BY <1>1, <1>2, AppendProperties DEF Cut, Parts
<1>3. CASE x # sep
  <2>1. Len(parts) \in 1 .. Len(parts) /\ parts[Len(parts)] \in Seq(S)
    BY <1>1, ElementOfSeq
  <2>2. PICK last \in Seq(S) : last = Append(parts[Len(parts)], x)
    BY <2>1, AppendProperties
  <2>3. PICK more : more = [parts EXCEPT ![Len(parts)] = last]
    OBVIOUS
  <2>4. more \in Seq(Seq(S)) /\ Len(more) = Len(parts)
    BY <1>1, <2>1, <2>2, <2>3, ExceptSeq
  <2>5. more # <<>>
    BY <1>1, <2>4, EmptySeq
  <2> QED
    BY <1>3, <2>2, <2>3, <2>4, <2>5 DEF Cut, Parts
<1> QED
  BY <1>2, <1>3

Cutting(S, sep) == [p \in Parts(S) \X S |-> Cut(p[1], p[2], sep)]

LEMMA CuttingTypes ==
  ASSUME NEW S, NEW sep
  PROVE  Cutting(S, sep) \in [Parts(S) \X S -> Parts(S)] /\ <<<<>>>> \in Parts(S)
<1>1. <<>> \in Seq(S) /\ <<<<>>>> \in Seq(Seq(S)) /\ <<<<>>>> # <<>>
  OBVIOUS
<1> QED
  BY <1>1, CutTypes DEF Cutting, Parts

LEMMA SplitRuns ==
  ASSUME NEW S, NEW s \in Seq(S), NEW sep
  PROVE  \E f \in [0 .. Len(s) -> Parts(S)] :
            RunsTo(f, s, <<<<>>>>, Cutting(S, sep), Split(s, sep))
<1> DEFINE D == SUBSET DOMAIN s
           Folds(g) == g = [d \in D |-> IF d = {} THEN <<<<>>>>
                                        ELSE Cut(g[d \ {Max(d)}], s[Max(d)], sep)]
           fold == CHOOSE g : Folds(g)
<1>1. \A d \in D : d # {} => Max(d) \in d /\ s[Max(d)] \in S
  <2>1. Len(s) \in Nat /\ DOMAIN s = 1 .. Len(s) /\ \A i \in 1 .. Len(s) : s[i] \in S
    BY LenProperties, ElementOfSeq
  <2> QED
    BY <2>1, MaxOfNumbers
<1>2. PICK g \in [D -> Parts(S)] : Folded(g, s, <<<<>>>>, Cutting(S, sep))
  BY CuttingTypes, FoldExists
<1>3. Folds(g)
  <2>1. ASSUME NEW d \in D, d # {}
        PROVE  g[d] = Cut(g[d \ {Max(d)}], s[Max(d)], sep)
    <3>1. g[d \ {Max(d)}] \in Parts(S) /\ s[Max(d)] \in S
      BY <1>1, <1>2, <2>1
    <3>2. g[d] = Cutting(S, sep)[<<g[d \ {Max(d)}], s[Max(d)]>>]
      BY <1>2, <2>1 DEF Folded
    <3> QED
      BY <3>1, <3>2 DEF Cutting
  <2>2. g[{}] = <<<<>>>>
    BY <1>2 DEF Folded
  <2> QED
    BY <1>2, <2>1, <2>2
<1>4. Folds(fold)
  <2> HIDE DEF Folds
  <2> QED
    BY <1>3
<1>5. Split(s, sep) = fold[DOMAIN s]
  BY DEF Split, FoldLeft, MapThenFoldSet, Cut
<1> HIDE DEF fold
<1>6. /\ fold[{}] = <<<<>>>>
      /\ \A d \in SUBSET DOMAIN s : d # {} /\ fold[d \ {Max(d)}] \in Parts(S) =>
             fold[d] = Cutting(S, sep)[<<fold[d \ {Max(d)}], s[Max(d)]>>]
  <2>1. fold[{}] = <<<<>>>> /\ \A d \in D : d # {} =>
           fold[d] = Cut(fold[d \ {Max(d)}], s[Max(d)], sep)
    BY <1>4
  <2> QED
    BY <1>1, <2>1 DEF Cutting
<1>7. PICK op, T, base : op = Cutting(S, sep) /\ T = Parts(S) /\ base = <<<<>>>>
  OBVIOUS
<1>8. base \in T /\ op \in [T \X S -> T] /\ fold[{}] = base
  BY <1>6, <1>7, CuttingTypes
<1>9. \A d \in SUBSET DOMAIN s : d # {} /\ fold[d \ {Max(d)}] \in T =>
             fold[d] = op[<<fold[d \ {Max(d)}], s[Max(d)]>>]
  BY <1>6, <1>7
<1>10. \E f \in [0 .. Len(s) -> T] : RunsTo(f, s, base, op, fold[DOMAIN s])
  BY <1>8, <1>9, FoldRuns
<1> QED
  BY <1>5, <1>7, <1>10

LEMMA SplitOneMore ==
  ASSUME NEW S, NEW s \in Seq(S), NEW x \in S, NEW sep
  PROVE  /\ Split(s, sep) \in Parts(S)
         /\ Split(Append(s, x), sep) = Cut(Split(s, sep), x, sep)
<1>1. PICK f \in [0 .. Len(s) -> Parts(S)] :
            RunsTo(f, s, <<<<>>>>, Cutting(S, sep), Split(s, sep))
  BY SplitRuns
<1>2. Split(s, sep) \in Parts(S)
  BY <1>1, LenProperties DEF RunsTo
<1>3. PICK g : RunsTo(g, Append(s, x), <<<<>>>>, Cutting(S, sep), Split(Append(s, x), sep))
  BY SplitRuns, AppendProperties
<1>4. Split(Append(s, x), sep) = Cutting(S, sep)[<<Split(s, sep), x>>]
  BY <1>1, <1>3, RunOneMore
<1> QED
  BY <1>2, <1>4 DEF Cutting

LEMMA SplitNothing == \A sep : Split(<<>>, sep) = <<<<>>>>
<1>1. <<>> \in Seq({})
  OBVIOUS
<1> QED
  BY <1>1, SplitRuns, EmptySeq DEF RunsTo

LEMMA LastPart ==
  ASSUME NEW S, NEW parts \in Parts(S)
  PROVE  \E p \in Seq(Seq(S)), last \in Seq(S) : parts = Append(p, last)
  BY SequenceEmptyOrAppend DEF Parts

LEMMA LastReplaced ==
  ASSUME NEW E, NEW p \in Seq(E), NEW d \in E, NEW e \in E
  PROVE  [Append(p, d) EXCEPT ![Len(Append(p, d))] = e] = Append(p, e)
<1>1. PICK n \in Nat : n = Len(p)
  BY LenProperties
<1>2. PICK old, new : old = Append(p, d) /\ new = Append(p, e)
  OBVIOUS
<1>3. /\ old \in Seq(E) /\ Len(old) = n + 1 /\ \A i \in 1 .. n : old[i] = p[i]
      /\ new \in Seq(E) /\ Len(new) = n + 1 /\ \A i \in 1 .. n : new[i] = p[i]
      /\ new[n + 1] = e
  BY <1>1, <1>2, AppendProperties
<1>4. PICK cut : cut = [old EXCEPT ![n + 1] = e]
  OBVIOUS
<1>5. n + 1 \in 1 .. Len(old)
  BY <1>3
<1>6. /\ cut \in Seq(E) /\ Len(cut) = n + 1
      /\ \A i \in 1 .. Len(old) : cut[i] = IF i = n + 1 THEN e ELSE old[i]
  BY <1>3, <1>4, <1>5, ExceptSeq
<1>7. \A i \in 1 .. Len(cut) : cut[i] = new[i]
  BY <1>3, <1>6
<1>8. cut = new
  BY <1>3, <1>6, <1>7, SeqEqual
<1> QED
  BY <1>2, <1>3, <1>4, <1>8

LEMMA CutBetween ==
  ASSUME NEW parts, NEW sep
  PROVE  Cut(parts, sep, sep) = Append(parts, <<>>)
  BY DEF Cut

LEMMA CutLast ==
  ASSUME NEW S, NEW p \in Seq(Seq(S)), NEW last \in Seq(S), NEW x \in S, NEW sep, x # sep
  PROVE  Cut(Append(p, last), x, sep) = Append(p, Append(last, x))
<1>1. PICK parts : parts = Append(p, last)
  OBVIOUS
<1>2. parts[Len(parts)] = last
  <2>1. Seq(S) # {}
    OBVIOUS
  <2> QED
    BY <1>1, AppendProperties, LenProperties
<1>3. PICK longer \in Seq(S) : longer = Append(last, x)
  BY AppendProperties
<1>4. [parts EXCEPT ![Len(parts)] = longer] = Append(p, longer)
  BY <1>1, LastReplaced
<1>5. Cut(parts, x, sep) = [parts EXCEPT ![Len(parts)] = Append(parts[Len(parts)], x)]
  BY DEF Cut
<1> QED
  BY <1>1, <1>2, <1>3, <1>4, <1>5

LEMMA CutConcat ==
  ASSUME NEW S, NEW a \in Seq(Seq(S)), NEW b \in Parts(S), NEW x \in S, NEW sep
  PROVE  Cut(a \o b, x, sep) = a \o Cut(b, x, sep)
<1>1. b \in Seq(Seq(S)) /\ <<>> \in Seq(S)
  BY DEF Parts
<1>2. CASE x = sep
  <2>1. a \o Append(b, <<>>) = Append(a \o b, <<>>)
    BY <1>1, ConcatAppend
  <2> QED
    BY <1>2, <2>1, CutBetween
<1>3. CASE x # sep
  <2>1. PICK p \in Seq(Seq(S)), last \in Seq(S) : b = Append(p, last)
    BY LastPart
  <2>2. PICK longer \in Seq(S) : longer = Append(last, x)
    BY AppendProperties
  <2>3. PICK c \in Seq(Seq(S)) : c = a \o p
    BY ConcatProperties
  <2>4. a \o b = Append(c, last) /\ a \o Append(p, longer) = Append(c, longer)
    BY <2>1, <2>3, ConcatAppend, SMTT(60)
  <2>5. Cut(Append(c, last), x, sep) = Append(c, longer) /\ Cut(b, x, sep) = Append(p, longer)
    BY <1>3, <2>1, <2>2, CutLast
  <2> QED
    BY <2>4, <2>5
<1> QED
  BY <1>2, <1>3

LEMMA SplitPrefix ==
  ASSUME NEW S, NEW c \in Seq(S), NEW s \in Seq(S), NEW sep, NEW parts \in Seq(Seq(S)),
         Split(c, sep) = parts \o <<<<>>>>
  PROVE  Split(c \o s, sep) = parts \o Split(s, sep)
<1>1. PICK n \in Nat : n = Len(s)
  BY LenProperties
<1> DEFINE p(i) == SubSeq(s, 1, i)
           T == {i \in 0 .. n : Split(c \o p(i), sep) = parts \o Split(p(i), sep)}
<1>2. 0 \in T
  <2>1. p(0) = <<>>
    BY SubSeqEmpty
  <2>2. c \o <<>> = c /\ Split(<<>>, sep) = <<<<>>>>
    BY ConcatEmptySeq, SplitNothing
  <2>3. Split(c \o p(0), sep) = parts \o Split(p(0), sep)
    <3> HIDE DEF p
    <3> QED
      BY <2>1, <2>2, Zenon
  <2> QED
    BY <2>3
<1>3. ASSUME NEW i \in 1 .. n, i - 1 \in T
      PROVE  i \in T
  <2>1. p(i - 1) \in Seq(S) /\ s[i] \in S /\ p(i) = Append(p(i - 1), s[i])
    BY <1>1, PrefixOneMore
  <2>2. Split(c \o p(i - 1), sep) = parts \o Split(p(i - 1), sep)
    BY <1>3
  <2> HIDE DEF p
  <2>3. PICK u : u = c \o p(i - 1)
    OBVIOUS
  <2>4. u \in Seq(S) /\ c \o p(i) = Append(u, s[i])
    BY <2>1, <2>3, ConcatProperties, ConcatAppend
  <2>5. PICK v \in Parts(S) : v = Split(p(i - 1), sep)
    BY <2>1, SplitOneMore
  <2>6. Split(p(i), sep) = Cut(v, s[i], sep)
    BY <2>1, <2>5, SplitOneMore
  <2>7. Split(c \o p(i), sep) = Cut(Split(u, sep), s[i], sep)
    <3>1. Split(Append(u, s[i]), sep) = Cut(Split(u, sep), s[i], sep)
      BY <2>1, <2>4, SplitOneMore
    <3> QED
      BY <2>4, <3>1, Zenon
  <2>8. Cut(parts \o v, s[i], sep) = parts \o Cut(v, s[i], sep)
    BY <2>1, CutConcat
  <2>9. Split(c \o p(i), sep) = parts \o Split(p(i), sep)
    BY <2>2, <2>3, <2>5, <2>6, <2>7, <2>8, Zenon
  <2> QED
    BY <2>9
<1>4. n \in T
  <2> HIDE DEF T
  <2>1. 0 .. n \subseteq T
    BY <1>2, <1>3, InductionTo
  <2> QED
    BY <2>1
<1>5. p(n) = s
  BY <1>1, SubSeqFull
<1>6. Split(c \o p(n), sep) = parts \o Split(p(n), sep)
  BY <1>4
<1> HIDE DEF p
<1> QED
  BY <1>5, <1>6

(* The parts of two texts with a separator between them.                   *)
LEMMA SplitAt ==
  ASSUME NEW S, NEW a \in Seq(S), NEW b \in Seq(S), NEW sep \in S
  PROVE  Split(Append(a, sep) \o b, sep) = Split(a, sep) \o Split(b, sep)
<1>1. PICK parts \in Seq(Seq(S)) : parts = Split(a, sep)
  BY SplitOneMore DEF Parts
<1>2. Split(Append(a, sep), sep) = Append(parts, <<>>)
  <2>1. Split(Append(a, sep), sep) = Cut(parts, sep, sep)
    BY <1>1, SplitOneMore
  <2> QED
    BY <2>1, CutBetween
<1>3. Append(parts, <<>>) = parts \o <<<<>>>>
  <2>1. <<>> \in Seq(S)
    OBVIOUS
  <2> QED
    BY <2>1, AppendIsConcat
<1>4. PICK c \in Seq(S) : c = Append(a, sep)
  BY AppendProperties
<1>5. Split(c, sep) = parts \o <<<<>>>>
  BY <1>2, <1>3, <1>4
<1>6. Split(c \o b, sep) = parts \o Split(b, sep)
  BY <1>5, SplitPrefix, ZenonT(60)
<1> QED
  BY <1>1, <1>4, <1>6

(* A text without a separator is one part.                                 *)
LEMMA SplitWhole ==
  ASSUME NEW S, NEW s \in Seq(S), NEW sep, \A i \in DOMAIN s : s[i] # sep
  PROVE  Split(s, sep) = <<s>>
<1>1. PICK n \in Nat : n = Len(s) /\ DOMAIN s = 1 .. n
  BY LenProperties
<1> DEFINE p(i) == SubSeq(s, 1, i)
           T == {i \in 0 .. n : Split(p(i), sep) = <<p(i)>>}
<1>2. 0 \in T
  <2>1. p(0) = <<>>
    BY SubSeqEmpty
  <2>2. Split(p(0), sep) = <<p(0)>>
    <3> HIDE DEF p
    <3> QED
      BY <2>1, SplitNothing, Zenon
  <2> QED
    BY <2>2
<1>3. ASSUME NEW i \in 1 .. n, i - 1 \in T
      PROVE  i \in T
  <2>1. p(i - 1) \in Seq(S) /\ s[i] \in S /\ p(i) = Append(p(i - 1), s[i]) /\ s[i] # sep
    BY <1>1, PrefixOneMore
  <2>2. Split(p(i - 1), sep) = <<p(i - 1)>>
    BY <1>3
  <2> HIDE DEF p
  <2>3. Split(p(i), sep) = Cut(<<p(i - 1)>>, s[i], sep)
    BY <2>1, <2>2, SplitOneMore
  <2>4. PICK u \in Seq(S), v \in Seq(S) : u = p(i - 1) /\ v = Append(u, s[i])
    BY <2>1, AppendProperties
  <2>5. PICK q \in Seq(Seq(S)) : <<u>> = Append(q, u) /\ <<v>> = Append(q, v)
    <3>1. <<>> \in Seq(Seq(S)) /\ <<u>> = Append(<<>>, u) /\ <<v>> = Append(<<>>, v)
      OBVIOUS
    <3> QED
      BY <3>1, Zenon
  <2>6. Cut(<<u>>, s[i], sep) = <<v>>
    <3>1. Cut(Append(q, u), s[i], sep) = Append(q, Append(u, s[i]))
      BY <2>1, CutLast
    <3> QED
      BY <2>4, <2>5, <3>1, Zenon
  <2>7. Split(p(i), sep) = <<p(i)>>
    BY <2>1, <2>3, <2>4, <2>6
  <2> QED
    BY <2>7
<1>4. n \in T
  <2> HIDE DEF T
  <2>1. 0 .. n \subseteq T
    BY <1>2, <1>3, InductionTo
  <2> QED
    BY <2>1
<1>5. p(n) = s
  BY <1>1, SubSeqFull
<1>6. Split(p(n), sep) = <<p(n)>>
  BY <1>4
<1> HIDE DEF p
<1> QED
  BY <1>5, <1>6

-----------------------------------------------------------------------------
(* Bytes                                                                   *)

LEMMA WidthIsNat == \A token : Width(token) \in Nat
  BY DEF Width

Adding == [p \in Nat \X Tokens |-> p[1] + Width(p[2])]

LEMMA AddingTypes == Adding \in [Nat \X Tokens -> Nat] /\ 0 \in Nat
  BY WidthIsNat DEF Adding

LEMMA BytesRuns ==
  ASSUME NEW data \in Seq(Tokens)
  PROVE  \E f \in [0 .. Len(data) -> Nat] : RunsTo(f, data, 0, Adding, Bytes(data))
<1> DEFINE D == SUBSET DOMAIN data
           Folds(g) == g = [d \in D |-> IF d = {} THEN 0
                                        ELSE g[d \ {Max(d)}] + Width(data[Max(d)])]
           fold == CHOOSE g : Folds(g)
<1>1. \A d \in D : d # {} => Max(d) \in d /\ data[Max(d)] \in Tokens
  <2>1. Len(data) \in Nat /\ DOMAIN data = 1 .. Len(data)
        /\ \A i \in 1 .. Len(data) : data[i] \in Tokens
    BY LenProperties, ElementOfSeq
  <2> QED
    BY <2>1, MaxOfNumbers
<1>2. PICK g \in [D -> Nat] : Folded(g, data, 0, Adding)
  BY AddingTypes, FoldExists
<1>3. Folds(g)
  <2>1. ASSUME NEW d \in D, d # {}
        PROVE  g[d] = g[d \ {Max(d)}] + Width(data[Max(d)])
    <3>1. g[d \ {Max(d)}] \in Nat /\ data[Max(d)] \in Tokens
      BY <1>1, <1>2, <2>1
    <3>2. g[d] = Adding[<<g[d \ {Max(d)}], data[Max(d)]>>]
      BY <1>2, <2>1 DEF Folded
    <3> QED
      BY <3>1, <3>2 DEF Adding
  <2>2. g[{}] = 0
    BY <1>2 DEF Folded
  <2> QED
    BY <1>2, <2>1, <2>2
<1>4. Folds(fold)
  <2> HIDE DEF Folds
  <2> QED
    BY <1>3
<1>5. Bytes(data) = fold[DOMAIN data]
  BY DEF Bytes, FoldLeft, MapThenFoldSet
<1> HIDE DEF fold
<1>6. /\ fold[{}] = 0
      /\ \A d \in SUBSET DOMAIN data : d # {} /\ fold[d \ {Max(d)}] \in Nat =>
             fold[d] = Adding[<<fold[d \ {Max(d)}], data[Max(d)]>>]
  <2>1. fold[{}] = 0 /\ \A d \in D : d # {} =>
           fold[d] = fold[d \ {Max(d)}] + Width(data[Max(d)])
    BY <1>4
  <2> QED
    BY <1>1, <2>1 DEF Adding
<1>7. \E f \in [0 .. Len(data) -> Nat] : RunsTo(f, data, 0, Adding, fold[DOMAIN data])
  BY <1>6, AddingTypes, FoldRuns
<1> QED
  BY <1>5, <1>7

LEMMA BytesOneMore ==
  ASSUME NEW data \in Seq(Tokens), NEW token \in Tokens
  PROVE  /\ Bytes(data) \in Nat
         /\ Bytes(Append(data, token)) = Bytes(data) + Width(token)
<1>1. PICK f \in [0 .. Len(data) -> Nat] : RunsTo(f, data, 0, Adding, Bytes(data))
  BY BytesRuns
<1>2. Bytes(data) \in Nat
  BY <1>1, LenProperties DEF RunsTo
<1>3. PICK g : RunsTo(g, Append(data, token), 0, Adding, Bytes(Append(data, token)))
  BY BytesRuns, AppendProperties
<1>4. Bytes(Append(data, token)) = Adding[<<Bytes(data), token>>]
  BY <1>1, <1>3, RunOneMore
<1> QED
  BY <1>2, <1>4 DEF Adding

LEMMA BytesOfNothing == Bytes(<<>>) = 0
<1>1. <<>> \in Seq(Tokens)
  OBVIOUS
<1> QED
  BY <1>1, BytesRuns, EmptySeq DEF RunsTo

-----------------------------------------------------------------------------
(* Buttons                                                                 *)

(* Small sequences, element by element.                                    *)
LEMMA Small ==
  \A a, b, c : /\ <<a>> = Append(<<>>, a)
               /\ <<a, b>> = Append(<<a>>, b)
               /\ <<a, b, c>> = Append(<<a, b>>, c)
  OBVIOUS

LEMMA SmallHeads ==
  \A a, b, c : /\ Head(<<a>>) = a /\ Tail(<<a>>) = <<>>
               /\ Head(<<a, b>>) = a /\ Tail(<<a, b>>) = <<b>>
               /\ Head(<<a, b, c>>) = a /\ Tail(<<a, b, c>>) = <<b, c>>
  OBVIOUS

LEMMA SmallTypes ==
  ASSUME NEW S, NEW a \in S
  PROVE  <<>> \in Seq(S) /\ <<a>> \in Seq(S)
  OBVIOUS

LEMMA ConcatPair ==
  ASSUME NEW S, NEW s \in Seq(S), NEW a \in S, NEW b \in S
  PROVE  <<a, b>> \in Seq(S) /\ s \o <<a, b>> = Append(Append(s, a), b)
<1>1. <<a>> \in Seq(S) /\ <<a, b>> = Append(<<a>>, b)
  BY SmallTypes, Small
<1>2. s \o Append(<<a>>, b) = Append(s \o <<a>>, b)
  BY <1>1, ConcatAppend
<1>3. s \o <<a>> = Append(s, a)
  BY AppendIsConcat
<1>4. <<a, b>> \in Seq(S)
  OBVIOUS
<1> QED
  BY <1>1, <1>2, <1>3, <1>4, Zenon

(* The tokens of arguments.                                                *)
Argument == {x \in Tokens : x.kind \in {"int", "date"}}

LEMMA WordIsToken ==
  ASSUME NEW action \in Actions
  PROVE  /\ Word(action) \in Tokens /\ Word(action) # Sep /\ Width(Word(action)) <= 4
         /\ Word(action).kind = action /\ Word(action).value = 0
<1>1. /\ Word(action) = [kind |-> action, value |-> 0]
      /\ Word(action).kind = action /\ Word(action).value = 0
  BY DEF Word, Token
<1>2. Word(action) \in Tokens
  BY <1>1 DEF Tokens
<1>3. Word(action) # Sep
  BY <1>1 DEF Sep, Token, Actions
<1>4. Width(Word(action)) <= 4
  BY <1>1 DEF Width, Actions
<1> QED
  BY <1>1, <1>2, <1>3, <1>4

LEMMA SepIsToken == Sep \in Tokens /\ Width(Sep) = 1
<1>1. Sep = [kind |-> ":", value |-> 0] /\ Sep.kind = ":"
  BY DEF Sep, Token
<1> QED
  BY <1>1 DEF Tokens, Width

LEMMA ArgumentIsToken ==
  ASSUME NEW x \in Argument
  PROVE  x \in Tokens /\ x # Sep /\ Width(x) <= 20
<1>1. x \in Tokens /\ x.kind \in {"int", "date"}
  BY DEF Argument
<1>2. x # Sep
  BY <1>1 DEF Sep, Token
<1> QED
  BY <1>1, <1>2 DEF Width

(* A word alone, and an argument after a separator.                        *)
LEMMA WordAlone ==
  ASSUME NEW word \in Tokens, word # Sep
  PROVE  /\ <<word>> \in Seq(Tokens)
         /\ Split(<<word>>, Sep) = <<<<word>>>>
         /\ Bytes(<<word>>) = Width(word)
<1>1. <<>> \in Seq(Tokens) /\ <<word>> \in Seq(Tokens) /\ <<word>> = Append(<<>>, word)
  BY SmallTypes, Small
<1>2. Bytes(<<word>>) = 0 + Width(word)
  BY <1>1, BytesOneMore, BytesOfNothing
<1>3. Split(<<word>>, Sep) = <<<<word>>>>
  <2>1. \A i \in DOMAIN <<word>> : <<word>>[i] # Sep
    OBVIOUS
  <2> QED
    BY <1>1, <2>1, SplitWhole
<1> QED
  BY <1>1, <1>2, <1>3, WidthIsNat

LEMMA OneArgumentMore ==
  ASSUME NEW data \in Seq(Tokens), NEW x \in Argument
  PROVE  /\ data \o <<Sep, x>> = Append(Append(data, Sep), x)
         /\ <<Sep, x>> \in Seq(Tokens)
         /\ data \o <<Sep, x>> \in Seq(Tokens)
         /\ Bytes(data) \in Nat /\ Bytes(data \o <<Sep, x>>) <= Bytes(data) + 21
         /\ Split(data \o <<Sep, x>>, Sep) = Append(Split(data, Sep), <<x>>)
<1>1. x \in Tokens /\ x # Sep /\ Width(x) <= 20 /\ Sep \in Tokens /\ Width(Sep) = 1
      /\ Width(x) \in Nat
  BY SepIsToken, ArgumentIsToken, WidthIsNat
<1>2. data \o <<Sep, x>> = Append(Append(data, Sep), x) /\ <<Sep, x>> \in Seq(Tokens)
  BY <1>1, ConcatPair
<1>3. PICK more \in Seq(Tokens) : more = Append(data, Sep)
  BY <1>1, AppendProperties
<1>4. Append(more, x) \in Seq(Tokens)
  BY <1>1, AppendProperties
<1>5. Bytes(data) \in Nat /\ Bytes(more) = Bytes(data) + 1
  BY <1>1, <1>3, BytesOneMore
<1>6. Bytes(Append(more, x)) = Bytes(more) + Width(x)
  BY <1>1, BytesOneMore
<1>7. Split(Append(more, x), Sep) = Append(Split(data, Sep), <<x>>)
  <2>1. PICK one : one = <<x>> /\ one \in Seq(Tokens) /\ Split(one, Sep) = <<one>>
    BY <1>1, WordAlone
  <2>2. Append(more, x) = more \o one
    BY <1>1, <2>1, AppendIsConcat
  <2>3. Split(more \o one, Sep) = Split(data, Sep) \o <<one>>
    <3>1. PICK sep \in Tokens, line \in Seq(Tokens) : sep = Sep /\ line = one
      BY <1>1, <2>1
    <3>2. Split(Append(data, sep) \o line, sep) = Split(data, sep) \o Split(line, sep)
      BY SplitAt
    <3> QED
      BY <1>3, <2>1, <3>1, <3>2, Zenon
  <2>4. PICK parts \in Seq(Seq(Tokens)) : parts = Split(data, Sep)
    BY <1>1, SplitOneMore DEF Parts
  <2>5. parts \o <<one>> = Append(parts, one)
    BY <2>1, AppendIsConcat
  <2> QED
    BY <2>1, <2>2, <2>3, <2>4, <2>5, Zenon
<1>8. Bytes(Append(more, x)) <= Bytes(data) + 21
  BY <1>1, <1>5, <1>6
<1> QED
  BY <1>2, <1>3, <1>4, <1>5, <1>7, <1>8, Zenon

(* What NewCallback makes of no, one and two arguments, and what           *)
(* ParseCallback makes of that.                                            *)
LEMMA Bare ==
  ASSUME NEW action \in Actions, NEW data, data = NewCallback(action, <<>>)
  PROVE  /\ data \in Seq(Tokens) /\ data # <<>> /\ Bytes(data) <= 64
         /\ ParseCallback(data) = [action |-> <<Word(action)>>, args |-> <<>>]
<1>1. PICK word \in Tokens : word = Word(action) /\ word # Sep /\ Width(word) <= 4
  BY WordIsToken
<1>2. data = <<word>>
  <2>1. [i \in DOMAIN <<>> |-> <<Sep, <<>>[i]>>] = <<>>
    OBVIOUS
  <2>2. <<word>> \o <<>> = <<word>>
    BY SmallTypes, ConcatEmptySeq
  <2> QED
    BY <1>1, <2>1, <2>2, FlattenNothing DEF NewCallback
<1>3. <<word>> \in Seq(Tokens) /\ Split(<<word>>, Sep) = <<<<word>>>> /\ Bytes(<<word>>) = Width(word)
  BY <1>1, WordAlone
<1>4. ParseCallback(<<word>>) = [action |-> <<word>>, args |-> <<>>]
  BY <1>3, SmallHeads DEF ParseCallback
<1>5. Bytes(<<word>>) <= 64
  BY <1>1, <1>3, WidthIsNat
<1>6. <<word>> # <<>>
  OBVIOUS
<1> QED
  BY <1>1, <1>2, <1>3, <1>4, <1>5, <1>6, Zenon

LEMMA WithArgument ==
  ASSUME NEW action \in Actions, NEW x \in Argument,
         NEW data, data = NewCallback(action, <<x>>)
  PROVE  /\ data \in Seq(Tokens) /\ data # <<>> /\ Bytes(data) <= 64
         /\ ParseCallback(data) = [action |-> <<Word(action)>>, args |-> <<<<x>>>>]
<1>1. PICK word \in Tokens : word = Word(action) /\ word # Sep /\ Width(word) <= 4
  BY WordIsToken
<1>2. <<word>> \in Seq(Tokens) /\ Split(<<word>>, Sep) = <<<<word>>>> /\ Bytes(<<word>>) <= 4
  BY <1>1, WordAlone
<1>3. data = <<word>> \o <<Sep, x>>
  <2>1. [i \in DOMAIN <<x>> |-> <<Sep, <<x>>[i]>>] = <<<<Sep, x>>>>
    OBVIOUS
  <2>2. FlattenSeq(<<<<Sep, x>>>>) = <<Sep, x>>
    BY <1>2, OneArgumentMore, FlattenOne
  <2> QED
    BY <1>1, <2>1, <2>2 DEF NewCallback
<1>4. /\ data \in Seq(Tokens) /\ data = Append(Append(<<word>>, Sep), x)
      /\ Bytes(data) <= Bytes(<<word>>) + 21 /\ Bytes(<<word>>) \in Nat
      /\ Split(data, Sep) = Append(<<<<word>>>>, <<x>>)
  BY <1>2, <1>3, OneArgumentMore
<1>5. Bytes(data) <= 64
  <2>1. Bytes(data) \in Nat
    BY <1>1, <1>4, BytesRuns, BytesOneMore
  <2> QED
    BY <1>2, <1>4, <2>1
<1>6. PICK w, a : w = <<word>> /\ a = <<x>>
  OBVIOUS
<1>7. ParseCallback(data) = [action |-> <<word>>, args |-> <<<<x>>>>]
  <2>1. Split(data, Sep) = <<w, a>>
    BY <1>4, <1>6, Small
  <2>2. ParseCallback(data) = [action |-> w, args |-> <<a>>]
    BY <2>1, SmallHeads DEF ParseCallback
  <2> QED
    BY <1>6, <2>2
<1>8. data # <<>>
  BY <1>4
<1> QED
  BY <1>1, <1>4, <1>5, <1>7, <1>8

LEMMA WithTwoArguments ==
  ASSUME NEW action \in Actions, NEW x \in Argument, NEW y \in Argument,
         NEW data, data = NewCallback(action, <<x, y>>)
  PROVE  /\ data \in Seq(Tokens) /\ data # <<>> /\ Bytes(data) <= 64
         /\ ParseCallback(data) = [action |-> <<Word(action)>>, args |-> <<<<x>>, <<y>>>>]
<1>1. PICK word \in Tokens : word = Word(action) /\ word # Sep /\ Width(word) <= 4
  BY WordIsToken
<1>2. <<word>> \in Seq(Tokens) /\ Split(<<word>>, Sep) = <<<<word>>>> /\ Bytes(<<word>>) <= 4
  BY <1>1, WordAlone
<1>3. PICK one \in Seq(Tokens) :
        /\ one = <<word>> \o <<Sep, x>> /\ Bytes(one) <= Bytes(<<word>>) + 21
        /\ Bytes(<<word>>) \in Nat /\ Split(one, Sep) = Append(<<<<word>>>>, <<x>>)
  <2>1. PICK head \in Seq(Tokens) : head = <<word>>
    BY <1>2
  <2>2. PICK one \in Seq(Tokens) : one = head \o <<Sep, x>>
    BY OneArgumentMore
  <2>3. /\ Bytes(one) <= Bytes(head) + 21 /\ Bytes(head) \in Nat
        /\ Split(one, Sep) = Append(Split(head, Sep), <<x>>)
    BY <2>2, OneArgumentMore
  <2> QED
    BY <1>2, <2>1, <2>2, <2>3, Zenon
<1>4. data = one \o <<Sep, y>>
  <2>1. PICK a \in Seq(Tokens), b \in Seq(Tokens) : a = <<Sep, x>> /\ b = <<Sep, y>>
    BY <1>3, OneArgumentMore
  <2>2. [i \in DOMAIN <<x, y>> |-> <<Sep, <<x, y>>[i]>>] = <<<<Sep, x>>, <<Sep, y>>>>
    OBVIOUS
  <2>3. <<a, b>> = Append(<<a>>, b) /\ <<a>> \in Seq(Seq(Tokens)) /\ FlattenSeq(<<a>>) = a
    BY Small, SmallTypes, FlattenOne
  <2>4. FlattenSeq(<<a, b>>) = a \o b
    BY <2>3, FlattenOneMore
  <2>5. <<word>> \o (a \o b) = (<<word>> \o a) \o b
    BY <1>2, ConcatAssociative
  <2>6. data = <<word>> \o FlattenSeq(<<a, b>>)
    BY <1>1, <2>1, <2>2 DEF NewCallback
  <2> QED
    BY <1>3, <2>1, <2>4, <2>5, <2>6, Zenon
<1>5. /\ data \in Seq(Tokens) /\ data = Append(Append(one, Sep), y)
      /\ Bytes(data) <= Bytes(one) + 21 /\ Bytes(one) \in Nat
      /\ Split(data, Sep) = Append(Append(<<<<word>>>>, <<x>>), <<y>>)
  BY <1>3, <1>4, OneArgumentMore
<1>6. Bytes(data) <= 64
  <2>1. Bytes(data) \in Nat
    BY <1>1, <1>5, BytesRuns, BytesOneMore
  <2> QED
    BY <1>2, <1>3, <1>5, <2>1
<1>7. PICK w, a, b : w = <<word>> /\ a = <<x>> /\ b = <<y>>
  OBVIOUS
<1>8. ParseCallback(data) = [action |-> <<word>>, args |-> <<<<x>>, <<y>>>>]
  <2>1. Split(data, Sep) = Append(Append(<<w>>, a), b)
    BY <1>5, <1>7
  <2>2. Split(data, Sep) = <<w, a, b>>
    BY <2>1, Small
  <2>3. ParseCallback(data) = [action |-> w, args |-> <<a, b>>]
    <3>1. ParseCallback(data) = [action |-> Head(Split(data, Sep)), args |-> Tail(Split(data, Sep))]
      BY DEF ParseCallback
    <3>2. Head(<<w, a, b>>) = w /\ Tail(<<w, a, b>>) = <<a, b>>
      BY SmallHeads
    <3> QED
      BY <2>2, <3>1, <3>2, Zenon
  <2> QED
    BY <1>7, <2>3
<1>9. data # <<>>
  BY <1>5
<1> QED
  BY <1>1, <1>5, <1>6, <1>8, <1>9

(* What handleCallback makes of data with a given action and arguments.    *)
LEMMA SameWord ==
  ASSUME NEW a, NEW b
  PROVE  <<Word(a)>> = <<Word(b)>> <=> a = b
<1>1. Word(a).kind = a /\ Word(b).kind = b
  BY DEF Word, Token
<1>2. <<Word(a)>>[1] = Word(a) /\ <<Word(b)>>[1] = Word(b)
  OBVIOUS
<1> QED
  BY <1>1, <1>2

LEMMA Dispatched ==
  ASSUME NEW data, data # <<>>, NEW action \in Actions, NEW cb, cb = ParseCallback(data),
         cb.action = <<Word(action)>>, NEW x, x = Arg(cb, 1), NEW y, y = Arg(cb, 2)
  PROVE  Dispatch(data) =
           IF action \in {"svc", "bday", "slot", "ok", "cxl", "acxl"}
           THEN IF Is("int", x) THEN Call(action, x[1].value, 0, 0) ELSE Ignored
           ELSE IF action = "day"
           THEN IF Is("int", x) /\ Is("date", y)
                THEN Call("day", x[1].value, y[1].value, 0) ELSE Ignored
           ELSE IF action = "aday"
           THEN IF Is("date", x) THEN Call("aday", 0, x[1].value, Page(y)) ELSE Ignored
           ELSE IF action = "bsvc" THEN Call("bsvc", 0, 0, 0)
           ELSE Ignored
<1>1. \A a : cb.action = <<Word(a)>> <=> a = action
  BY SameWord
<1>2. cb.action[1].kind = action
  BY DEF Word, Token
<1> QED
  BY <1>1, <1>2 DEF Dispatch

LEMMA OneArgument ==
  ASSUME NEW w, NEW a, NEW cb, cb = [action |-> w, args |-> <<a>>]
  PROVE  cb.action = w /\ Arg(cb, 1) = a /\ Arg(cb, 2) = <<>>
  BY DEF Arg

LEMMA TwoArguments ==
  ASSUME NEW w, NEW a, NEW b, NEW cb, cb = [action |-> w, args |-> <<a, b>>]
  PROVE  cb.action = w /\ Arg(cb, 1) = a /\ Arg(cb, 2) = b
  BY DEF Arg

LEMMA OneToken ==
  ASSUME NEW x, NEW raw, raw = <<x>>
  PROVE  raw[1] = x /\ \A kind : Is(kind, raw) <=> x.kind = kind
  BY DEF Is

(* A button with one and with two arguments, pressed.                      *)
LEMMA PressedWithOne ==
  ASSUME NEW action \in Actions, NEW x \in Argument,
         NEW data, data = NewCallback(action, <<x>>)
  PROVE  /\ data \in Seq(Tokens) /\ Bytes(data) <= 64
         /\ action \in {"svc", "bday", "slot", "ok", "cxl", "acxl"} /\ x.kind = "int" =>
               Dispatch(data) = Call(action, x.value, 0, 0)
         /\ action = "aday" /\ x.kind = "date" => Dispatch(data) = Call("aday", 0, x.value, 0)
<1>1. PICK w, raw : w = <<Word(action)>> /\ raw = <<x>>
  OBVIOUS
<1>2. PICK cb : cb = ParseCallback(data)
  OBVIOUS
<1>3. /\ data \in Seq(Tokens) /\ data # <<>> /\ Bytes(data) <= 64
      /\ cb = [action |-> w, args |-> <<raw>>]
  BY <1>1, <1>2, WithArgument
<1>4. cb.action = w /\ Arg(cb, 1) = raw /\ Arg(cb, 2) = <<>>
  BY <1>3, OneArgument
<1>5. raw[1] = x /\ \A kind : Is(kind, raw) <=> x.kind = kind
  BY <1>1, OneToken
<1>6. Page(<<>>) = 0
  BY DEF Page, Is
<1>7. Dispatch(data) =
        IF action \in {"svc", "bday", "slot", "ok", "cxl", "acxl"}
        THEN IF Is("int", raw) THEN Call(action, raw[1].value, 0, 0) ELSE Ignored
        ELSE IF action = "day"
        THEN IF Is("int", raw) /\ Is("date", <<>>)
             THEN Call("day", raw[1].value, <<>>[1].value, 0) ELSE Ignored
        ELSE IF action = "aday"
        THEN IF Is("date", raw) THEN Call("aday", 0, raw[1].value, Page(<<>>)) ELSE Ignored
        ELSE IF action = "bsvc" THEN Call("bsvc", 0, 0, 0)
        ELSE Ignored
  BY <1>1, <1>2, <1>3, <1>4, Dispatched
<1> QED
  BY <1>3, <1>5, <1>6, <1>7

LEMMA PressedWithTwo ==
  ASSUME NEW action \in Actions, NEW x \in Argument, NEW y \in Argument,
         NEW data, data = NewCallback(action, <<x, y>>)
  PROVE  /\ data \in Seq(Tokens) /\ Bytes(data) <= 64
         /\ action = "day" /\ x.kind = "int" /\ y.kind = "date" =>
               Dispatch(data) = Call("day", x.value, y.value, 0)
         /\ action = "aday" /\ x.kind = "date" /\ y.kind = "int" /\ y.value \in Nat =>
               Dispatch(data) = Call("aday", 0, x.value, y.value)
<1>1. PICK w, raw, last : w = <<Word(action)>> /\ raw = <<x>> /\ last = <<y>>
  OBVIOUS
<1>2. PICK cb : cb = ParseCallback(data)
  OBVIOUS
<1>3. /\ data \in Seq(Tokens) /\ data # <<>> /\ Bytes(data) <= 64
      /\ cb = [action |-> w, args |-> <<raw, last>>]
  BY <1>1, <1>2, WithTwoArguments
<1>4. cb.action = w /\ Arg(cb, 1) = raw /\ Arg(cb, 2) = last
  BY <1>3, TwoArguments
<1>5. /\ raw[1] = x /\ \A kind : Is(kind, raw) <=> x.kind = kind
      /\ last[1] = y /\ \A kind : Is(kind, last) <=> y.kind = kind
  BY <1>1, OneToken
<1>6. y.kind = "int" /\ y.value \in Nat => Page(last) = y.value
  BY <1>5 DEF Page
<1>7. Dispatch(data) =
        IF action \in {"svc", "bday", "slot", "ok", "cxl", "acxl"}
        THEN IF Is("int", raw) THEN Call(action, raw[1].value, 0, 0) ELSE Ignored
        ELSE IF action = "day"
        THEN IF Is("int", raw) /\ Is("date", last)
             THEN Call("day", raw[1].value, last[1].value, 0) ELSE Ignored
        ELSE IF action = "aday"
        THEN IF Is("date", raw) THEN Call("aday", 0, raw[1].value, Page(last)) ELSE Ignored
        ELSE IF action = "bsvc" THEN Call("bsvc", 0, 0, 0)
        ELSE Ignored
  BY <1>1, <1>2, <1>3, <1>4, Dispatched
<1> QED
  BY <1>3, <1>5, <1>6, <1>7

LEMMA NumberAndDate ==
  ASSUME NEW n \in Int
  PROVE  /\ Int64(n) \in Argument /\ Int64(n).kind = "int" /\ Int64(n).value = n
         /\ Date(n) \in Argument /\ Date(n).kind = "date" /\ Date(n).value = n
<1>1. Int64(n) = [kind |-> "int", value |-> n] /\ Date(n) = [kind |-> "date", value |-> n]
  BY DEF Int64, Date, Token
<1> QED
  BY <1>1 DEF Argument, Tokens

(* The call of any data has a date that is a number.                       *)
LEMMA DispatchTypes ==
  ASSUME NEW data \in Seq(Tokens)
  PROVE  Dispatch(data).date \in Int
<1>1. PICK parts \in Seq(Seq(Tokens)) : parts = Split(data, Sep) /\ parts # <<>>
  <2>1. Split(data, Sep) \in Parts(Tokens)
    BY SplitRuns, LenProperties DEF RunsTo
  <2> QED
    BY <2>1 DEF Parts
<1>2. PICK args \in Seq(Seq(Tokens)) : args = Tail(parts)
  BY <1>1, HeadTailProperties
<1>3. PICK cb : cb = ParseCallback(data) /\ cb.args = args
  <2>1. ParseCallback(data) = [action |-> Head(Split(data, Sep)), args |-> Tail(Split(data, Sep))]
    BY DEF ParseCallback
  <2>2. ParseCallback(data).args = Tail(Split(data, Sep))
    BY <2>1
  <2> QED
    BY <1>1, <1>2, <2>2, Zenon
<1>4. ASSUME NEW i \in {1, 2}, NEW kind, Is(kind, Arg(cb, i))
      PROVE  Arg(cb, i)[1].value \in Int
  <2>1. Arg(cb, i) \in Seq(Tokens)
    <3>1. CASE i > Len(args)
      BY <1>3, <3>1 DEF Arg
    <3>2. CASE i <= Len(args)
      <4>1. i \in 1 .. Len(args)
        BY <3>2, LenProperties
      <4>2. args[i] \in Seq(Tokens)
        BY <4>1, ElementOfSeq
      <4> QED
        BY <1>3, <3>2, <4>2, LenProperties DEF Arg
    <3> QED
      BY <3>1, <3>2, LenProperties
  <2>2. PICK raw \in Seq(Tokens) : raw = Arg(cb, i) /\ Len(raw) = 1
    BY <1>4, <2>1 DEF Is
  <2>3. Arg(cb, i)[1] \in Tokens
    <3>1. 1 \in 1 .. Len(raw)
      BY <2>2
    <3> QED
      BY <2>2, <3>1, ElementOfSeq
  <2> QED
    BY <2>3 DEF Tokens
<1> QED
  BY <1>3, <1>4 DEF Dispatch, Call, Ignored

Works(button) ==
    /\ button \in Buttons
    /\ Dispatch(button.data) = button.call
    /\ Bytes(button.data) <= 64

LEMMA CallTypes ==
  ASSUME NEW on \in Actions \union {"ignored"}, NEW int \in Int, NEW date \in Int, NEW page \in Int
  PROVE  Call(on, int, date, page) \in Calls
  BY DEF Call, Calls

(* Buttons with arguments.                                                 *)
LEMMA NumberButtons ==
  ASSUME NEW n \in Int, NEW action \in {"svc", "bday", "slot", "ok", "cxl", "acxl"}
  PROVE  Works(Button(action, <<Int64(n)>>, Call(action, n, 0, 0)))
<1>1. action \in Actions
  BY DEF Actions
<1>2. PICK x \in Argument : x = Int64(n) /\ x.kind = "int" /\ x.value = n
  BY NumberAndDate
<1>3. PICK data : data = NewCallback(action, <<x>>)
  OBVIOUS
<1>4. /\ data \in Seq(Tokens) /\ Bytes(data) <= 64
      /\ Dispatch(data) = Call(action, n, 0, 0)
  BY <1>1, <1>2, <1>3, PressedWithOne
<1>5. Call(action, n, 0, 0) \in Calls
  BY <1>1, CallTypes
<1> QED
  BY <1>2, <1>3, <1>4, <1>5 DEF Works, Button, Buttons

LEMMA DayButtonWorks ==
  ASSUME NEW svc \in Int, NEW d \in Int
  PROVE  Works(DayButton(svc, d))
<1>1. "day" \in Actions
  BY DEF Actions
<1>2. PICK x \in Argument, y \in Argument :
        /\ x = Int64(svc) /\ x.kind = "int" /\ x.value = svc
        /\ y = Date(d) /\ y.kind = "date" /\ y.value = d
  BY NumberAndDate
<1>3. PICK data : data = NewCallback("day", <<x, y>>)
  OBVIOUS
<1>4. data \in Seq(Tokens) /\ Bytes(data) <= 64 /\ Dispatch(data) = Call("day", svc, d, 0)
  BY <1>1, <1>2, <1>3, PressedWithTwo
<1>5. Call("day", svc, d, 0) \in Calls
  BY <1>1, CallTypes
<1> QED
  BY <1>2, <1>3, <1>4, <1>5 DEF Works, DayButton, Button, Buttons

LEMMA AdminDayButtonWorks ==
  ASSUME NEW d \in Int
  PROVE  Works(AdminDayButton(d))
<1>1. "aday" \in Actions
  BY DEF Actions
<1>2. PICK x \in Argument : x = Date(d) /\ x.kind = "date" /\ x.value = d
  BY NumberAndDate
<1>3. PICK data : data = NewCallback("aday", <<x>>)
  OBVIOUS
<1>4. data \in Seq(Tokens) /\ Bytes(data) <= 64 /\ Dispatch(data) = Call("aday", 0, d, 0)
  BY <1>1, <1>2, <1>3, PressedWithOne
<1>5. Call("aday", 0, d, 0) \in Calls
  BY <1>1, CallTypes
<1> QED
  BY <1>2, <1>3, <1>4, <1>5 DEF Works, AdminDayButton, Button, Buttons

LEMMA PageButtonWorks ==
  ASSUME NEW d \in Int, NEW p \in Nat
  PROVE  Works(PageButton(d, p))
<1>1. "aday" \in Actions
  BY DEF Actions
<1>2. PICK x \in Argument, y \in Argument :
        /\ x = Date(d) /\ x.kind = "date" /\ x.value = d
        /\ y = Int64(p) /\ y.kind = "int" /\ y.value = p
  BY NumberAndDate
<1>3. PICK data : data = NewCallback("aday", <<x, y>>)
  OBVIOUS
<1>4. data \in Seq(Tokens) /\ Bytes(data) <= 64 /\ Dispatch(data) = Call("aday", 0, d, p)
  BY <1>1, <1>2, <1>3, PressedWithTwo
<1>5. Call("aday", 0, d, p) \in Calls
  BY <1>1, CallTypes
<1> QED
  BY <1>2, <1>3, <1>4, <1>5 DEF Works, PageButton, Button, Buttons

(* Buttons without an argument.                                            *)
LEMMA BareButtonsWork == Works(ToServices) /\ Works(PageNumber)
<1>1. "bsvc" \in Actions /\ "noop" \in Actions
  BY DEF Actions
<1>2. PICK data, more : data = NewCallback("bsvc", <<>>) /\ more = NewCallback("noop", <<>>)
  OBVIOUS
<1>3. /\ data \in Seq(Tokens) /\ data # <<>> /\ Bytes(data) <= 64
      /\ ParseCallback(data) = [action |-> <<Word("bsvc")>>, args |-> <<>>]
  BY <1>1, <1>2, Bare
<1>4. /\ more \in Seq(Tokens) /\ more # <<>> /\ Bytes(more) <= 64
      /\ ParseCallback(more) = [action |-> <<Word("noop")>>, args |-> <<>>]
  BY <1>1, <1>2, Bare
<1>5. Dispatch(data) = Call("bsvc", 0, 0, 0)
  BY <1>1, <1>3, Dispatched
<1>6. Dispatch(more) = Ignored
  BY <1>1, <1>4, Dispatched
<1>7. Call("bsvc", 0, 0, 0) \in Calls /\ Ignored \in Calls
  BY <1>1, CallTypes DEF Ignored
<1>8. Works(ToServices)
  BY <1>2, <1>3, <1>5, <1>7 DEF Works, ToServices, Button, Buttons
<1>9. Works(PageNumber)
  BY <1>2, <1>4, <1>6, <1>7 DEF Works, PageNumber, Button, Buttons
<1> QED
  BY <1>8, <1>9

-----------------------------------------------------------------------------
(* Keyboards                                                               *)

AllWork(kb) == kb \in Seq(Buttons) /\ \A i \in DOMAIN kb : Works(kb[i])

LEMMA KeyboardWorks ==
  ASSUME NEW n \in Nat, NEW kb, kb = [i \in 1 .. n |-> kb[i]], \A i \in 1 .. n : Works(kb[i])
  PROVE  AllWork(kb)
<1>1. kb \in [1 .. n -> Buttons] /\ DOMAIN kb = 1 .. n
  BY DEF Works
<1>2. kb \in Seq(Buttons)
  BY <1>1, IsASeq
<1> QED
  BY <1>1, <1>2 DEF AllWork

LEMMA TwoKeyboards ==
  ASSUME NEW a, NEW b, AllWork(a), AllWork(b)
  PROVE  AllWork(a \o b)
<1>1. PICK m \in Nat, n \in Nat :
        /\ m = Len(a) /\ n = Len(b)
        /\ a \in Seq(Buttons) /\ b \in Seq(Buttons)
        /\ \A i \in 1 .. m : Works(a[i])
        /\ \A i \in 1 .. n : Works(b[i])
  BY LenProperties DEF AllWork
<1>2. PICK c : c = a \o b
  OBVIOUS
<1>3. /\ c \in Seq(Buttons) /\ DOMAIN c = 1 .. m + n
      /\ \A i \in 1 .. m + n : c[i] = IF i <= m THEN a[i] ELSE b[i - m]
  BY <1>1, <1>2, ConcatProperties, LenProperties
<1>4. \A i \in 1 .. m + n : Works(c[i])
  <2>1. \A i \in 1 .. m + n : IF i <= m THEN i \in 1 .. m ELSE i - m \in 1 .. n
    OBVIOUS
  <2> QED
    BY <1>1, <1>3, <2>1
<1> QED
  BY <1>2, <1>3, <1>4 DEF AllWork

LEMMA SmallKeyboards ==
  /\ AllWork(<<>>)
  /\ \A a : Works(a) => AllWork(<<a>>)
  /\ \A a, b : Works(a) /\ Works(b) => AllWork(<<a, b>>)
<1>1. AllWork(<<>>)
  BY DEF AllWork
<1>2. ASSUME NEW a, Works(a)
      PROVE  AllWork(<<a>>)
  <2>1. <<a>> \in Seq(Buttons)
    BY <1>2 DEF Works
  <2> QED
    BY <1>2, <2>1 DEF AllWork
<1>3. ASSUME NEW a, NEW b, Works(a), Works(b)
      PROVE  AllWork(<<a, b>>)
  <2>1. <<a, b>> \in Seq(Buttons)
    BY <1>3 DEF Works
  <2>2. \A i \in DOMAIN <<a, b>> : <<a, b>>[i] = a \/ <<a, b>>[i] = b
    OBVIOUS
  <2> QED
    BY <1>3, <2>1, <2>2 DEF AllWork
<1> QED
  BY <1>1, <1>2, <1>3

(* Every keyboard of the bot is understood.                                *)
LEMMA ListKeyboards ==
  ASSUME NEW list \in Seq(Int)
  PROVE  /\ AllWork(servicesKeyboard(list))
         /\ AllWork(myBookingsKeyboard(list))
         /\ AllWork(adminDaysKeyboard(list))
         /\ AllWork(adminCancelKeyboard(list))
         /\ AllWork(Each(SlotButton, list))
         /\ \A svc \in Int : AllWork([i \in DOMAIN list |-> DayButton(svc, list[i])])
<1>1. PICK n \in Nat : DOMAIN list = 1 .. n /\ \A i \in 1 .. n : list[i] \in Int
  BY LenProperties, ElementOfSeq
<1>2. AllWork(servicesKeyboard(list))
  <2>1. \A i \in 1 .. n : Works(ServiceButton(list[i]))
    BY <1>1, NumberButtons DEF ServiceButton
  <2> QED
    BY <1>1, <2>1, KeyboardWorks DEF servicesKeyboard, Each
<1>3. AllWork(myBookingsKeyboard(list))
  <2>1. \A i \in 1 .. n : Works(CancelButton(list[i]))
    BY <1>1, NumberButtons DEF CancelButton
  <2> QED
    BY <1>1, <2>1, KeyboardWorks DEF myBookingsKeyboard, Each
<1>4. AllWork(adminDaysKeyboard(list))
  <2>1. \A i \in 1 .. n : Works(AdminDayButton(list[i]))
    BY <1>1, AdminDayButtonWorks
  <2> QED
    BY <1>1, <2>1, KeyboardWorks DEF adminDaysKeyboard, Each
<1>5. AllWork(adminCancelKeyboard(list))
  <2>1. \A i \in 1 .. n : Works(AdminCancelButton(list[i]))
    BY <1>1, NumberButtons DEF AdminCancelButton
  <2> QED
    BY <1>1, <2>1, KeyboardWorks DEF adminCancelKeyboard, Each
<1>6. AllWork(Each(SlotButton, list))
  <2>1. \A i \in 1 .. n : Works(SlotButton(list[i]))
    BY <1>1, NumberButtons DEF SlotButton
  <2> QED
    BY <1>1, <2>1, KeyboardWorks DEF Each
<1>7. ASSUME NEW svc \in Int
      PROVE  AllWork([i \in DOMAIN list |-> DayButton(svc, list[i])])
  <2>1. \A i \in 1 .. n : Works(DayButton(svc, list[i]))
    BY <1>1, DayButtonWorks
  <2> QED
    BY <1>1, <2>1, KeyboardWorks
<1> QED
  BY <1>2, <1>3, <1>4, <1>5, <1>6, <1>7

LEMMA PageKeyboardWorks ==
  ASSUME NEW list \in Seq(Int), NEW d \in Int, NEW page \in Nat, NEW total \in Int
  PROVE  AllWork(adminPageKeyboard(list, d, page, total))
<1>1. AllWork(IF page > 0 THEN <<PageButton(d, page - 1)>> ELSE <<>>)
  <2>1. page > 0 => page - 1 \in Nat
    OBVIOUS
  <2> QED
    BY <2>1, PageButtonWorks, SmallKeyboards
<1>2. AllWork(IF page < total - 1 THEN <<PageButton(d, page + 1)>> ELSE <<>>)
  BY PageButtonWorks, SmallKeyboards
<1>3. AllWork(<<PageNumber>>)
  BY BareButtonsWork, SmallKeyboards
<1> QED
  BY <1>1, <1>2, <1>3, SmallKeyboards, ListKeyboards, TwoKeyboards DEF adminPageKeyboard

(* Every keyboard of keyboards.go, for any ids, dates and pages: each      *)
(* button's data comes back from ParseCallback as the call it was made     *)
(* for, and fits into the 64 bytes of Telegram.                            *)
THEOREM KeyboardsWork ==
  ASSUME NEW list \in Seq(Int), NEW id \in Int, NEW svc \in Int, NEW d \in Int,
         NEW page \in Nat, NEW total \in Int
  PROVE  /\ AllWork(servicesKeyboard(list))
         /\ AllWork(daysKeyboard(svc, list))
         /\ AllWork(slotsKeyboard(svc, list))
         /\ AllWork(confirmKeyboard(id, svc))
         /\ AllWork(myBookingsKeyboard(list))
         /\ AllWork(adminDaysKeyboard(list))
         /\ AllWork(adminPageKeyboard(list, d, page, total))
<1>1. Works(ToServices) /\ Works(PageNumber) /\ Works(ToDays(svc)) /\ Works(ConfirmButton(id))
  BY BareButtonsWork, NumberButtons DEF ToDays, ConfirmButton
<1>2. AllWork(daysKeyboard(svc, list))
  BY <1>1, SmallKeyboards, ListKeyboards, TwoKeyboards DEF daysKeyboard
<1>3. AllWork(slotsKeyboard(svc, list))
  BY <1>1, SmallKeyboards, ListKeyboards, TwoKeyboards DEF slotsKeyboard
<1>4. AllWork(confirmKeyboard(id, svc))
  BY <1>1, SmallKeyboards DEF confirmKeyboard
<1>5. AllWork(adminPageKeyboard(list, d, page, total))
  BY PageKeyboardWorks
<1> QED
  BY <1>2, <1>3, <1>4, <1>5, ListKeyboards
=============================================================================
