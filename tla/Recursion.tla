----------------------------- MODULE Recursion -----------------------------
(***************************************************************************)
(* Induction and recursion over sequences, for the proofs about what the   *)
(* folds of the model compute.  Everything is stated about sets and        *)
(* functions: no lemma has an operator as a parameter.                     *)
(***************************************************************************)
EXTENDS Integers, SequencesExt, SequenceTheorems, FiniteSetTheorems,
        WellFoundedInduction, TLAPS

-----------------------------------------------------------------------------
(* Induction                                                               *)

LEMMA LeastNumber ==
  ASSUME NEW T \in SUBSET Nat, T # {}
  PROVE  \E x \in T : \A y \in T : x <= y
<1>1. PICK x \in T : \A y \in T : ~(<<y, x>> \in OpToRel(<, Nat))
  BY NatLessThanWellFounded, WFMin
<1>2. \A y \in T : ~(y < x)
  BY <1>1 DEF OpToRel
<1> QED
  BY <1>2

(* A set that has zero and every successor of its elements has every       *)
(* number.                                                                 *)
LEMMA Induction ==
  ASSUME NEW T, 0 \in T, \A n \in Nat : n \in T => n + 1 \in T
  PROVE  Nat \subseteq T
<1>1. SUFFICES ASSUME Nat \ T # {} PROVE FALSE
  OBVIOUS
<1>2. PICK x \in Nat \ T : \A y \in Nat \ T : x <= y
  BY <1>1, LeastNumber
<1> QED
  BY <1>2

(* The same up to a bound.                                                 *)
LEMMA InductionTo ==
  ASSUME NEW n \in Nat, NEW T, 0 \in T, \A i \in 1 .. n : i - 1 \in T => i \in T
  PROVE  0 .. n \subseteq T
<1> DEFINE U == {i \in Nat : i <= n => i \in T}
<1>1. 0 \in U
  OBVIOUS
<1>2. \A i \in Nat : i \in U => i + 1 \in U
  OBVIOUS
<1>3. Nat \subseteq U
  <2> HIDE DEF U
  <2> QED
    BY <1>1, <1>2, Induction
<1> QED
  BY <1>3

(* A function that begins in a set and does not leave it.                  *)
LEMMA AlwaysIn ==
  ASSUME NEW n \in Nat, NEW T, NEW f, f[0] \in T,
         \A i \in 1 .. n : f[i - 1] \in T => f[i] \in T
  PROVE  \A i \in 0 .. n : f[i] \in T
<1> DEFINE U == {i \in 0 .. n : f[i] \in T}
<1>1. 0 \in U /\ \A i \in 1 .. n : i - 1 \in U => i \in U
  OBVIOUS
<1>2. 0 .. n \subseteq U
  <2> HIDE DEF U
  <2> QED
    BY <1>1, InductionTo
<1> QED
  BY <1>2

(* Two functions that begin alike and go on alike are alike.               *)
LEMMA SameRecursion ==
  ASSUME NEW n \in Nat, NEW f, NEW g, f[0] = g[0],
         \A i \in 1 .. n : f[i - 1] = g[i - 1] => f[i] = g[i]
  PROVE  \A i \in 0 .. n : f[i] = g[i]
<1> DEFINE T == {i \in 0 .. n : f[i] = g[i]}
<1>1. 0 \in T /\ \A i \in 1 .. n : i - 1 \in T => i \in T
  OBVIOUS
<1>2. 0 .. n \subseteq T
  <2> HIDE DEF T
  <2> QED
    BY <1>1, InductionTo
<1> QED
  BY <1>2

-----------------------------------------------------------------------------
(* Recursion                                                               *)

Recurs(f, n, base, step) ==
    f[0] = base /\ \A i \in 1 .. n : f[i] = step[<<i, f[i - 1]>>]

(* A recursion over 1 .. n has a solution.                                 *)
LEMMA RecursionTo ==
  ASSUME NEW n \in Nat, NEW T, NEW base \in T, NEW step \in [(1 .. n) \X T -> T]
  PROVE  \E f \in [0 .. n -> T] : Recurs(f, n, base, step)
<1> DEFINE Solves(f, m) == f[0] = base /\ \A i \in 1 .. m : f[i] = step[<<i, f[i - 1]>>]
           U == {m \in 0 .. n : \E f \in [0 .. n -> T] : Solves(f, m)}
<1>1. 0 \in U
  <2>1. PICK f \in [0 .. n -> T] : f = [i \in 0 .. n |-> base]
    OBVIOUS
  <2> QED
    BY <2>1
<1>2. ASSUME NEW m \in 1 .. n, m - 1 \in U
      PROVE  m \in U
  <2>1. PICK f \in [0 .. n -> T] : Solves(f, m - 1)
    BY <1>2
  <2>2. PICK v \in T : v = step[<<m, f[m - 1]>>]
    <3>1. <<m, f[m - 1]>> \in (1 .. n) \X T
      BY <2>1
    <3> QED
      BY <3>1
  <2>3. PICK g \in [0 .. n -> T] : g = [f EXCEPT ![m] = v]
    BY <2>1
  <2>4. g[m] = v /\ \A i \in 0 .. n : i # m => g[i] = f[i]
    BY <2>1, <2>3
  <2>5. g[0] = base
    BY <2>1, <2>4
  <2>6. \A i \in 1 .. m : g[i] = step[<<i, g[i - 1]>>]
    <3>1. ASSUME NEW i \in 1 .. m
          PROVE  i \in 0 .. n /\ i - 1 \in 0 .. n /\ i - 1 # m /\ (i # m => i \in 1 .. (m - 1))
      OBVIOUS
    <3> QED
      BY <2>1, <2>2, <2>4, <3>1
  <2> QED
    BY <2>5, <2>6
<1>3. 0 .. n \subseteq U
  <2> HIDE DEF U
  <2> QED
    BY <1>1, <1>2, InductionTo
<1>4. n \in U
  <2> HIDE DEF U
  <2> QED
    BY <1>3
<1>5. PICK f \in [0 .. n -> T] : Solves(f, n)
  BY <1>4
<1> QED
  BY <1>5 DEF Recurs

LEMMA MaxOfNumbers ==
  ASSUME NEW n \in Nat, NEW s \in SUBSET (1 .. n), s # {}
  PROVE  Max(s) \in s /\ \A y \in s : Max(s) >= y
<1> DEFINE up == {b \in Nat : \A y \in s : y <= b}
<1>1. n \in up
  OBVIOUS
<1>2. PICK b \in up : \A c \in up : b <= c
  <2> HIDE DEF up
  <2>1. up \in SUBSET Nat
    BY DEF up
  <2> QED
    BY <1>1, <2>1, LeastNumber
<1>3. b \in s
  <2> SUFFICES ASSUME b \notin s PROVE FALSE
    OBVIOUS
  <2>1. \A y \in s : y \in 1 .. n /\ y <= b /\ y # b
    BY <1>2
  <2>2. b \in Nat /\ b - 1 \in Nat /\ \A y \in s : y <= b - 1
    <3>1. PICK y \in s : y \in 1 .. n
      OBVIOUS
    <3>2. b \in Nat /\ y <= b
      BY <1>2
    <3> HIDE DEF up
    <3> QED
      BY <2>1, <3>1, <3>2
  <2>3. b - 1 \in up
    BY <2>2
  <2> QED
    BY <1>2, <2>2, <2>3
<1>4. \E x \in s : \A y \in s : x >= y
  BY <1>2, <1>3
<1> QED
  BY <1>4 DEF Max

LEMMA MaxOfPrefix ==
  ASSUME NEW n \in Nat, NEW k \in 1 .. n
  PROVE  /\ 1 .. k \in SUBSET (1 .. n) /\ 1 .. k # {}
         /\ Max(1 .. k) = k
         /\ (1 .. k) \ {Max(1 .. k)} = 1 .. (k - 1)
<1>1. Max(1 .. k) \in 1 .. k /\ \A y \in 1 .. k : Max(1 .. k) >= y
  <2>1. 1 .. k \in SUBSET (1 .. k) /\ 1 .. k # {} /\ k \in Nat
    OBVIOUS
  <2> QED
    BY <2>1, MaxOfNumbers
<1> QED
  BY <1>1

(* The recursion of FoldLeft, from the greatest index down, has a solution.*)
Folded(iter, seq, base, op) ==
    \A s \in SUBSET DOMAIN seq :
        iter[s] = IF s = {} THEN base ELSE op[<<iter[s \ {Max(s)}], seq[Max(s)]>>]

LEMMA FoldExists ==
  ASSUME NEW T, NEW X, NEW seq \in Seq(X), NEW base \in T, NEW op \in [T \X X -> T]
  PROVE  \E iter \in [SUBSET DOMAIN seq -> T] : Folded(iter, seq, base, op)
<1> DEFINE n == Len(seq)
           D == SUBSET (1 .. n)
           F == [D -> T]
           next(m, g) == [s \in D |-> IF m \in s THEN op[<<g[s \ {m}], seq[m]>>] ELSE g[s]]
           step == [p \in (1 .. n) \X F |-> next(p[1], p[2])]
<1>1. n \in Nat /\ DOMAIN seq = 1 .. n /\ \A i \in 1 .. n : seq[i] \in X
  BY LenProperties, ElementOfSeq
<1>2. ASSUME NEW m \in 1 .. n, NEW g \in F
      PROVE  next(m, g) \in F /\ step[<<m, g>>] = next(m, g)
  <2>1. \A s \in D : g[s] \in T /\ s \ {m} \in D
    OBVIOUS
  <2>2. \A s \in D : op[<<g[s \ {m}], seq[m]>>] \in T
    BY <1>1, <2>1
  <2>3. next(m, g) \in F
    BY <2>1, <2>2
  <2> QED
    BY <2>3
<1>3. step \in [(1 .. n) \X F -> F]
  BY <1>2
<1>4. PICK first \in F : first = [s \in D |-> base]
  OBVIOUS
<1>5. PICK h \in [0 .. n -> F] : Recurs(h, n, first, step)
  <2> HIDE DEF step, F, n, D, next
  <2>1. n \in Nat /\ first \in F /\ step \in [(1 .. n) \X F -> F]
    BY <1>1, <1>3, <1>4
  <2> QED
    BY <2>1, RecursionTo
<1>6. ASSUME NEW m \in 1 .. n, NEW s \in D
      PROVE  h[m][s] = IF m \in s THEN op[<<h[m - 1][s \ {m}], seq[m]>>] ELSE h[m - 1][s]
  <2>1. h[m - 1] \in F
    <3>1. m - 1 \in 0 .. n
      <4> HIDE DEF n
      <4> QED
        BY <1>1
    <3> HIDE DEF F, n
    <3> QED
      BY <1>5, <3>1
  <2>2. h[m] = step[<<m, h[m - 1]>>]
    <3> HIDE DEF step, F, n
    <3> QED
      BY <1>5 DEF Recurs
  <2>3. step[<<m, h[m - 1]>>] = next(m, h[m - 1])
    <3> HIDE DEF step, next, F
    <3> QED
      BY <1>2, <2>1
  <2> QED
    BY <2>2, <2>3
(* What is computed for a set stays, once its greatest number is passed.   *)
<1>7. ASSUME NEW k \in 0 .. n, NEW s \in SUBSET (1 .. k)
      PROVE  h[n][s] = h[k][s]
  <2> DEFINE U == {d \in 0 .. n : k + d <= n => h[k + d][s] = h[k][s]}
  <2>1. 0 \in U
    BY <1>1, <1>7
  <2>2. ASSUME NEW d \in 1 .. n, d - 1 \in U
        PROVE  d \in U
    <3> SUFFICES ASSUME k + d <= n PROVE h[k + d][s] = h[k][s]
      OBVIOUS
    <3>1. k + d \in 1 .. n /\ (k + d) - 1 = k + (d - 1) /\ s \in D /\ k + d \notin s
      BY <1>1, <1>7, <2>2
    <3>2. h[k + d][s] = h[(k + d) - 1][s]
      BY <1>6, <3>1
    <3>3. h[k + (d - 1)][s] = h[k][s]
      BY <1>1, <2>2, <3>1
    <3> QED
      BY <3>1, <3>2, <3>3
  <2>3. 0 .. n \subseteq U
    <3> HIDE DEF U
    <3> QED
      BY <1>1, <2>1, <2>2, InductionTo
  <2>4. n - k \in 0 .. n /\ k + (n - k) = n
    <3> HIDE DEF n
    <3> QED
      BY <1>1
  <2>5. n - k \in U
    BY <2>3, <2>4
  <2>6. k + (n - k) <= n => h[k + (n - k)][s] = h[k][s]
    BY <2>5
  <2> QED
    BY <1>1, <2>4, <2>6
<1>8. ASSUME NEW s \in D
      PROVE  h[n][s] = IF s = {} THEN base ELSE op[<<h[n][s \ {Max(s)}], seq[Max(s)]>>]
  <2>1. CASE s = {}
    <3>1. 0 \in 0 .. n /\ s \in SUBSET (1 .. 0)
      BY <1>1, <2>1
    <3>2. h[n][s] = h[0][s]
      BY <1>7, <3>1
    <3> QED
      BY <1>4, <1>5, <2>1, <3>2 DEF Recurs
  <2>2. CASE s # {}
    <3>1. PICK m \in 1 .. n : m = Max(s) /\ m \in s /\ \A y \in s : m >= y
      BY <1>1, <2>2, MaxOfNumbers
    <3>2. s \in SUBSET (1 .. m) /\ s \ {m} \in SUBSET (1 .. (m - 1)) /\ m - 1 \in 0 .. n
      <4> HIDE DEF n
      <4>1. \A y \in s : y \in 1 .. n /\ m >= y
        BY <3>1 DEF n
      <4>2. \A y \in s : y \in 1 .. m
        BY <1>1, <4>1
      <4>3. \A y \in s \ {m} : y \in 1 .. (m - 1)
        BY <1>1, <4>2
      <4> QED
        BY <1>1, <4>2, <4>3
    <3>3. h[n][s] = h[m][s] /\ h[n][s \ {m}] = h[m - 1][s \ {m}]
      BY <1>1, <1>7, <3>1, <3>2
    <3> QED
      BY <1>6, <2>2, <3>1, <3>3
  <2> QED
    BY <2>1, <2>2
<1>9. h[n] \in [SUBSET DOMAIN seq -> T]
  BY <1>1, <1>5
<1>10. Folded(h[n], seq, base, op)
  BY <1>1, <1>8 DEF Folded
<1> QED
  BY <1>9, <1>10

(* What is computed for the prefixes of a sequence, one after the other.   *)
RunsTo(f, seq, base, op, result) ==
    /\ f[0] = base
    /\ \A i \in 1 .. Len(seq) : f[i] = op[<<f[i - 1], seq[i]>>]
    /\ f[Len(seq)] = result

(* The value of a fold is the end of such a run.                           *)
LEMMA FoldRuns ==
  ASSUME NEW T, NEW X, NEW seq \in Seq(X), NEW base \in T, NEW op \in [T \X X -> T],
         NEW fold, fold[{}] = base,
         \A s \in SUBSET DOMAIN seq : s # {} /\ fold[s \ {Max(s)}] \in T =>
             fold[s] = op[<<fold[s \ {Max(s)}], seq[Max(s)]>>]
  PROVE  \E f \in [0 .. Len(seq) -> T] : RunsTo(f, seq, base, op, fold[DOMAIN seq])
<1>1. PICK n \in Nat : /\ n = Len(seq) /\ DOMAIN seq = 1 .. n
                       /\ \A i \in 1 .. n : seq[i] \in X
  BY LenProperties, ElementOfSeq
<1>2. fold[1 .. 0] = base
  <2>1. 1 .. 0 = {}
    OBVIOUS
  <2> QED
    BY <2>1
<1>3. ASSUME NEW i \in 1 .. n, fold[1 .. (i - 1)] \in T
      PROVE  fold[1 .. i] = op[<<fold[1 .. (i - 1)], seq[i]>>] /\ fold[1 .. i] \in T
  <2>1. /\ 1 .. i \in SUBSET DOMAIN seq /\ 1 .. i # {} /\ Max(1 .. i) = i
        /\ (1 .. i) \ {Max(1 .. i)} = 1 .. (i - 1)
    BY <1>1, MaxOfPrefix
  <2>2. fold[1 .. i] = op[<<fold[(1 .. i) \ {Max(1 .. i)}], seq[Max(1 .. i)]>>]
    BY <1>3, <2>1
  <2> QED
    BY <1>1, <1>3, <2>1, <2>2
<1>4. PICK f : f = [i \in 0 .. n |-> fold[1 .. i]]
  OBVIOUS
<1>5. \A i \in 1 .. n : f[i - 1] \in T => f[i] = op[<<f[i - 1], seq[i]>>] /\ f[i] \in T
  <2>1. \A i \in 1 .. n : /\ i \in 0 .. n /\ i - 1 \in 0 .. n
                          /\ f[i] = fold[1 .. i] /\ f[i - 1] = fold[1 .. (i - 1)]
    BY <1>4
  <2> QED
    BY <1>3, <2>1
<1>6. f[0] = base
  BY <1>2, <1>4
<1>7. \A i \in 0 .. n : f[i] \in T
  <2>1. f[0] \in T /\ \A i \in 1 .. n : f[i - 1] \in T => f[i] \in T
    BY <1>5, <1>6
  <2> QED
    BY <2>1, AlwaysIn
<1>8. f \in [0 .. n -> T]
  BY <1>4, <1>7
<1>9. \A i \in 1 .. n : f[i] = op[<<f[i - 1], seq[i]>>]
  <2>1. \A i \in 1 .. n : i - 1 \in 0 .. n
    OBVIOUS
  <2> QED
    BY <1>5, <1>7, <2>1
<1>10. f[n] = fold[DOMAIN seq]
  BY <1>1, <1>4
<1> QED
  BY <1>1, <1>6, <1>8, <1>9, <1>10 DEF RunsTo
(* The run for one element more goes one step further.                     *)
LEMMA RunOneMore ==
  ASSUME NEW X, NEW seq \in Seq(X), NEW x \in X, NEW base, NEW op,
         NEW f, NEW g, NEW r, NEW q,
         RunsTo(f, seq, base, op, r), RunsTo(g, Append(seq, x), base, op, q)
  PROVE  q = op[<<r, x>>]
<1>1. PICK n \in Nat : n = Len(seq)
  BY LenProperties
<1>2. PICK more : more = Append(seq, x)
  OBVIOUS
<1>3. /\ Len(more) = n + 1 /\ more[n + 1] = x
      /\ \A i \in 1 .. n : more[i] = seq[i]
  BY <1>1, <1>2, AppendProperties
<1>4. f[0] = g[0] /\ \A i \in 1 .. n : f[i - 1] = g[i - 1] => f[i] = g[i]
  <2>1. \A i \in 1 .. n : i \in 1 .. n + 1
    OBVIOUS
  <2> QED
    BY <1>1, <1>2, <1>3, <2>1 DEF RunsTo
<1>5. f[n] = g[n]
  <2>1. \A i \in 0 .. n : f[i] = g[i]
    BY <1>4, SameRecursion, SMTT(60)
  <2> QED
    BY <2>1
<1>6. g[n + 1] = op[<<g[n], more[n + 1]>>]
  <2>1. n + 1 \in 1 .. n + 1 /\ (n + 1) - 1 = n
    OBVIOUS
  <2> QED
    BY <1>2, <1>3, <2>1 DEF RunsTo
<1> QED
  BY <1>1, <1>2, <1>3, <1>5, <1>6 DEF RunsTo

-----------------------------------------------------------------------------
(* Sequences, element by element.                                          *)
LEMMA ConcatAppend ==
  ASSUME NEW S, NEW s \in Seq(S), NEW t \in Seq(S), NEW x \in S
  PROVE  s \o Append(t, x) = Append(s \o t, x)
<1>1. <<x>> \in Seq(S) /\ s \o t \in Seq(S)
  BY ConcatProperties
<1> QED
  BY <1>1, AppendIsConcat, ConcatAssociative

LEMMA PrefixOneMore ==
  ASSUME NEW S, NEW s \in Seq(S), NEW i \in 1 .. Len(s)
  PROVE  /\ SubSeq(s, 1, i - 1) \in Seq(S) /\ s[i] \in S
         /\ SubSeq(s, 1, i) = Append(SubSeq(s, 1, i - 1), s[i])
<1>1. Len(s) \in Nat /\ s[i] \in S /\ 1 \in 1 .. Len(s) /\ i \in 1 .. Len(s)
  BY LenProperties, ElementOfSeq
<1>2. SubSeq(s, 1, i - 1) \in Seq(S)
  <2>1. \A j \in 1 .. i - 1 : s[j] \in S
    BY <1>1, ElementOfSeq
  <2> QED
    BY <1>1, <2>1, SubSeqProperties
<1>3. SubSeq(s, 1, i) = SubSeq(s, 1, i - 1) \o <<s[i]>>
  BY <1>1, SubSeqRecursiveSecond
<1> QED
  BY <1>1, <1>2, <1>3, AppendIsConcat

(* s \o t, as a name: the provers need not look into it.                   *)
Glue(s, t) == s \o t

LEMMA GlueTypes ==
  ASSUME NEW S
  PROVE  /\ <<>> \in Seq(S)
         /\ \A s, t \in Seq(S) : Glue(s, t) \in Seq(S)
         /\ \A s \in Seq(S) : Glue(<<>>, s) = s
  BY ConcatProperties, ConcatEmptySeq DEF Glue

Glues(f, seqs) ==
    f[0] = <<>> /\ \A i \in 1 .. Len(seqs) : f[i] = Glue(f[i - 1], seqs[i])

LEMMA FlattenIs ==
  ASSUME NEW seqs, Len(seqs) \in Nat, Len(seqs) > 0,
         NEW h, h = [i \in 1 .. Len(seqs) |-> IF i = 1 THEN seqs[i] ELSE Glue(h[i - 1], seqs[i])]
  PROVE  \E g : /\ \A i \in 1 .. Len(seqs) :
                       g[i] = IF i = 1 THEN seqs[i] ELSE Glue(g[i - 1], seqs[i])
                /\ FlattenSeq(seqs) = g[Len(seqs)]
<1> DEFINE Flattens(g) ==
              g = [i \in 1 .. Len(seqs) |-> IF i = 1 THEN seqs[i] ELSE g[i - 1] \o seqs[i]]
           flatten == CHOOSE g : Flattens(g)
<1>1. Flattens(h)
  BY DEF Glue
<1>2. Flattens(flatten)
  <2> HIDE DEF Flattens
  <2> QED
    BY <1>1
<1>3. FlattenSeq(seqs) = flatten[Len(seqs)]
  BY DEF FlattenSeq
<1>4. \A i \in 1 .. Len(seqs) :
         flatten[i] = IF i = 1 THEN seqs[i] ELSE Glue(flatten[i - 1], seqs[i])
  <2> HIDE DEF flatten
  <2> QED
    BY <1>2 DEF Glue
<1> HIDE DEF flatten
<1> QED
  BY <1>3, <1>4

(* FlattenSeq, sequence by sequence.                                       *)
LEMMA FlattenRuns ==
  ASSUME NEW S, NEW seqs \in Seq(Seq(S))
  PROVE  \E f \in [0 .. Len(seqs) -> Seq(S)] :
            Glues(f, seqs) /\ FlattenSeq(seqs) = f[Len(seqs)]
<1>1. PICK n \in Nat : n = Len(seqs) /\ \A i \in 1 .. n : seqs[i] \in Seq(S)
  BY LenProperties, ElementOfSeq
<1> DEFINE step == [p \in (1 .. n) \X Seq(S) |-> Glue(p[2], seqs[p[1]])]
<1>2. step \in [(1 .. n) \X Seq(S) -> Seq(S)]
  BY <1>1, GlueTypes
<1>3. PICK f \in [0 .. n -> Seq(S)] : Recurs(f, n, <<>>, step)
  <2> HIDE DEF step
  <2> QED
    BY <1>2, GlueTypes, RecursionTo
<1>4. f[0] = <<>> /\ \A i \in 1 .. n : f[i] = Glue(f[i - 1], seqs[i])
  <2>1. \A i \in 1 .. n : i - 1 \in 0 .. n /\ f[i - 1] \in Seq(S)
    BY <1>3
  <2>2. \A i \in 1 .. n : step[<<i, f[i - 1]>>] = Glue(f[i - 1], seqs[i])
    BY <2>1
  <2> HIDE DEF step
  <2> QED
    BY <1>3, <2>2 DEF Recurs
<1>5. CASE n = 0
  <2>1. seqs = <<>>
    BY <1>1, <1>5, EmptySeq
  <2>2. FlattenSeq(seqs) = <<>>
    BY <1>1, <1>5, <2>1 DEF FlattenSeq
  <2> QED
    BY <1>1, <1>3, <1>4, <1>5, <2>2 DEF Glues
<1>6. CASE n > 0
  <2>1. f[1] = seqs[1] /\ 1 \in 1 .. n
    BY <1>1, <1>4, <1>6, GlueTypes
  <2>2. PICK h : h = [i \in 1 .. n |-> f[i]]
    OBVIOUS
  <2>3. h = [i \in 1 .. n |-> IF i = 1 THEN seqs[i] ELSE Glue(h[i - 1], seqs[i])]
    <3>1. \A i \in 1 .. n : i # 1 => i - 1 \in 1 .. n /\ h[i - 1] = f[i - 1]
      BY <2>2
    <3> QED
      BY <1>4, <2>1, <2>2, <3>1
  <2>4. PICK g :
           /\ \A i \in 1 .. n : g[i] = IF i = 1 THEN seqs[i] ELSE Glue(g[i - 1], seqs[i])
           /\ FlattenSeq(seqs) = g[n]
    BY <1>1, <1>6, <2>3, FlattenIs
  <2>5. PICK k : k = [i \in 0 .. n |-> IF i = 0 THEN <<>> ELSE g[i]]
    OBVIOUS
  <2>6. f[0] = k[0] /\ \A i \in 1 .. n : f[i - 1] = k[i - 1] => f[i] = k[i]
    <3>1. k[0] = <<>> /\ \A i \in 1 .. n : k[i] = g[i]
      BY <2>5
    <3>2. ASSUME NEW i \in 1 .. n, i # 1
          PROVE  i - 1 \in 1 .. n /\ g[i] = Glue(g[i - 1], seqs[i])
      <4>1. i - 1 \in 1 .. n
        BY <3>2
      <4> QED
        BY <2>4, <3>2, <4>1
    <3>3. g[1] = seqs[1]
      BY <2>1, <2>4
    <3> QED
      BY <1>4, <2>1, <3>1, <3>2, <3>3, SMTT(60)
  <2>7. \A i \in 0 .. n : f[i] = k[i]
    <3> HIDE DEF step
    <3> QED
      BY <2>6, SameRecursion, ZenonT(60)
  <2>8. f[n] = g[n]
    BY <1>6, <2>5, <2>7
  <2> QED
    BY <1>1, <1>3, <1>4, <2>4, <2>8 DEF Glues
<1> QED
  BY <1>1, <1>5, <1>6

LEMMA FlattenOneMore ==
  ASSUME NEW S, NEW seqs \in Seq(Seq(S)), NEW s \in Seq(S)
  PROVE  /\ FlattenSeq(seqs) \in Seq(S)
         /\ FlattenSeq(Append(seqs, s)) = FlattenSeq(seqs) \o s
<1>1. PICK n \in Nat : n = Len(seqs)
  BY LenProperties
<1>2. PICK more : more = Append(seqs, s)
  OBVIOUS
<1>3. /\ more \in Seq(Seq(S)) /\ Len(more) = n + 1 /\ more[n + 1] = s
      /\ \A i \in 1 .. n : more[i] = seqs[i]
  BY <1>1, <1>2, AppendProperties
<1>4. PICK f : f[n] \in Seq(S) /\ Glues(f, seqs) /\ FlattenSeq(seqs) = f[n]
  BY <1>1, FlattenRuns
<1>5. PICK g : Glues(g, more) /\ FlattenSeq(more) = g[n + 1]
  BY <1>3, FlattenRuns
<1>6. f[0] = g[0] /\ \A i \in 1 .. n : f[i - 1] = g[i - 1] => f[i] = g[i]
  <2>1. \A i \in 1 .. n : i \in 1 .. n + 1
    OBVIOUS
  <2> QED
    BY <1>1, <1>3, <1>4, <1>5, <2>1 DEF Glues
<1>7. f[n] = g[n]
  <2>1. \A i \in 0 .. n : f[i] = g[i]
    BY <1>6, SameRecursion, ZenonT(60)
  <2> QED
    BY <2>1
<1>8. g[n + 1] = Glue(g[n], s)
  <2>1. n + 1 \in 1 .. n + 1 /\ (n + 1) - 1 = n
    OBVIOUS
  <2> QED
    BY <1>3, <1>5, <2>1 DEF Glues
<1> QED
  BY <1>2, <1>4, <1>5, <1>7, <1>8 DEF Glue

LEMMA FlattenNothing == FlattenSeq(<<>>) = <<>>
  BY EmptySeq DEF FlattenSeq

LEMMA FlattenOne ==
  ASSUME NEW S, NEW s \in Seq(S)
  PROVE  FlattenSeq(<<s>>) = s
<1>1. <<>> \in Seq(Seq(S)) /\ Append(<<>>, s) = <<s>>
  OBVIOUS
<1>2. FlattenSeq(<<s>>) = <<>> \o s
  BY <1>1, FlattenNothing, FlattenOneMore
<1> QED
  BY <1>2, ConcatEmptySeq

(* FlattenSeq of two lists, one after the other.                           *)
LEMMA FlattenConcat ==
  ASSUME NEW S, NEW a \in Seq(Seq(S)), NEW b \in Seq(Seq(S))
  PROVE  FlattenSeq(a \o b) = FlattenSeq(a) \o FlattenSeq(b)
<1>1. PICK n \in Nat : n = Len(b) /\ b \in [1 .. n -> Seq(S)]
  BY LenProperties
<1> DEFINE prefix(i) == SubSeq(b, 1, i)
           T == {i \in 0 .. n : FlattenSeq(a \o prefix(i)) = FlattenSeq(a) \o FlattenSeq(prefix(i))}
<1>2. FlattenSeq(a) \in Seq(S)
  <2>1. <<>> \in Seq(S)
    OBVIOUS
  <2> QED
    BY <2>1, FlattenOneMore
<1>3. 0 \in T
  <2>1. prefix(0) = <<>>
    BY SubSeqEmpty
  <2>2. a \o <<>> = a /\ FlattenSeq(a) \o <<>> = FlattenSeq(a)
    BY <1>2, ConcatEmptySeq
  <2>3. FlattenSeq(a \o prefix(0)) = FlattenSeq(a) \o FlattenSeq(prefix(0))
    <3> HIDE DEF prefix
    <3> QED
      BY <2>1, <2>2, FlattenNothing, Zenon
  <2> QED
    BY <2>3
<1>4. ASSUME NEW i \in 1 .. n, i - 1 \in T
      PROVE  i \in T
  <2>1. /\ prefix(i - 1) \in Seq(Seq(S)) /\ b[i] \in Seq(S)
        /\ prefix(i) = Append(prefix(i - 1), b[i])
    BY <1>1, PrefixOneMore
  <2>2. FlattenSeq(a \o prefix(i - 1)) = FlattenSeq(a) \o FlattenSeq(prefix(i - 1))
    BY <1>4
  <2> HIDE DEF prefix
  <2>3. a \o prefix(i - 1) \in Seq(Seq(S)) /\ a \o prefix(i) = Append(a \o prefix(i - 1), b[i])
    <3>1. PICK u \in Seq(Seq(S)), x \in Seq(S) : u = prefix(i - 1) /\ x = b[i]
      BY <2>1
    <3>2. a \o u \in Seq(Seq(S))
      BY ConcatProperties
    <3>3. a \o Append(u, x) = Append(a \o u, x)
      BY ConcatAppend
    <3> QED
      BY <2>1, <3>1, <3>2, <3>3, Zenon
  <2>4. FlattenSeq(prefix(i)) = FlattenSeq(prefix(i - 1)) \o b[i]
        /\ FlattenSeq(prefix(i - 1)) \in Seq(S)
    BY <2>1, FlattenOneMore
  <2>5. FlattenSeq(a \o prefix(i)) = (FlattenSeq(a) \o FlattenSeq(prefix(i - 1))) \o b[i]
    BY <2>1, <2>2, <2>3, FlattenOneMore, ZenonT(60)
  <2>6. FlattenSeq(a \o prefix(i)) = FlattenSeq(a) \o FlattenSeq(prefix(i))
    <3>1. PICK u \in Seq(S), v \in Seq(S), w \in Seq(S) :
             u = FlattenSeq(a) /\ v = FlattenSeq(prefix(i - 1)) /\ w = b[i]
      BY <1>2, <2>1, <2>4
    <3>2. (u \o v) \o w = u \o (v \o w)
      BY ConcatAssociative
    <3> QED
      BY <2>4, <2>5, <3>1, <3>2, Zenon
  <2> QED
    BY <2>6
<1>5. n \in T
  <2> HIDE DEF T
  <2>1. 0 .. n \subseteq T
    BY <1>3, <1>4, InductionTo
  <2> QED
    BY <2>1
<1>6. prefix(n) = b
  BY <1>1, SubSeqFull
<1> QED
  BY <1>5, <1>6
=============================================================================
