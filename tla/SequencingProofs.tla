-------------------------- MODULE SequencingProofs ---------------------------
(***************************************************************************)
(* What Sequencing's operators return, for sequences over any set: their   *)
(* type, what is in them, and in what order.                               *)
(*                                                                         *)
(* Concat is a recursive function: what is needed of it is proved by the   *)
(* least prefix for which it fails (NatMin, ConcatUpto).  Sift and Ranked  *)
(* are concatenations, and everything else follows from what these return. *)
(***************************************************************************)
EXTENDS Sequencing, FiniteSetTheorems, FunctionTheorems, SequenceTheorems,
        WellFoundedInduction, TLAPS

-----------------------------------------------------------------------------
LEMMA NatMin ==
    ASSUME NEW S \in SUBSET Nat, S # {}
    PROVE  \E m \in S : \A n \in S : m <= n
  <1> DEFINE less == {p \in Nat \X Nat : p[1] < p[2]}
  <1>1. IsWellFoundedOn(less, Nat)
    <2>1. OpToRel(<, Nat) = less
      BY DEF OpToRel
    <2> QED
      BY <2>1, NatLessThanWellFounded
  <1>2. \A n, m \in Nat : n < m => <<n, m>> \in less
    OBVIOUS
  <1> HIDE DEF less
  <1>3. PICK m \in S : \A n \in S : <<n, m>> \notin less
    BY <1>1, WFMin
  <1>4. ASSUME NEW n \in S PROVE m <= n
    <2>1. n \in Nat /\ m \in Nat
      OBVIOUS
    <2>2. ~(n < m)
      BY <1>2, <1>3, <2>1, Zenon
    <2> QED
      BY <2>1, <2>2
  <1> QED
    BY <1>4

(* Sequences are put one after the other from the first to the last.       *)
LEMMA ConcatUpto ==
    ASSUME NEW S, NEW seqs \in Seq(Seq(S))
    PROVE  \E F : /\ F[0] = << >>
                  /\ \A n \in 1..Len(seqs) : F[n] = F[n - 1] \o seqs[n]
                  /\ \A n \in 0..Len(seqs) : F[n] \in Seq(S)
                  /\ Concat(seqs) = F[Len(seqs)]
  <1> DEFINE N == Len(seqs)
             Cat(f, k) == f = [n \in 0..k |-> IF n = 0 THEN << >> ELSE f[n - 1] \o seqs[n]]
             F == CHOOSE f : Cat(f, N)
  <1>1. N \in Nat /\ \A n \in 1..N : seqs[n] \in Seq(S)
    OBVIOUS
  <1> HIDE DEF N
  <1>2. \A k \in 0..N : \E f : Cat(f, k)
    <2> DEFINE Bad == {k \in 0..N : ~\E f : Cat(f, k)}
    <2> SUFFICES ASSUME Bad # {} PROVE FALSE
      OBVIOUS
    <2>0. Bad \in SUBSET Nat
      <3> HIDE DEF Cat, F
      <3> QED
        BY <1>1
    <2>1. PICK k \in Bad : \A j \in Bad : k <= j
      <3> HIDE DEF Bad
      <3> QED
        BY <2>0, NatMin
    <2>2. CASE k = 0
      <3>1. Cat([n \in 0..0 |-> << >>], 0)
        OBVIOUS
      <3> QED
        BY <2>1, <2>2, <3>1
    <2>3. CASE k # 0
      <3>1. k \in 1..N /\ k - 1 \in 0..N /\ ~(k <= k - 1)
        BY <1>1, <2>1, <2>3
      <3>2. PICK f : Cat(f, k - 1)
        BY <2>1, <3>1
      <3> DEFINE g == [n \in 0..k |-> IF n = k THEN f[k - 1] \o seqs[k] ELSE f[n]]
      <3>3. ASSUME NEW n \in 0..k
            PROVE  g[n] = IF n = 0 THEN << >> ELSE g[n - 1] \o seqs[n]
        <4>1. CASE n = k
          <5>1. k - 1 \in 0..k /\ k - 1 # k /\ k # 0
            BY <3>1
          <5>2. g[k - 1] = f[k - 1] /\ g[k] = f[k - 1] \o seqs[k]
            <6>1. k \in 0..k
              BY <3>1
            <6> HIDE DEF F, Bad
            <6> QED
              BY <5>1, <6>1
          <5> QED
            BY <4>1, <5>1, <5>2
        <4>2. CASE n # k
          <5>1. n \in 0..k - 1 /\ (n # 0 => n - 1 \in 0..k - 1 /\ n - 1 \in 0..k /\ n - 1 # k)
            BY <3>1, <4>2
          <5>2. f[n] = IF n = 0 THEN << >> ELSE f[n - 1] \o seqs[n]
            BY <3>2, <5>1
          <5>3. g[n] = f[n] /\ (n # 0 => g[n - 1] = f[n - 1])
            BY <4>2, <5>1
          <5> QED
            BY <5>2, <5>3
        <4> QED
          BY <4>1, <4>2
      <3>4. Cat(g, k)
        <4>1. g = [n \in 0..k |-> g[n]]
          OBVIOUS
        <4> HIDE DEF g
        <4> QED
          BY <3>3, <4>1
      <3> QED
        BY <2>1, <3>4
    <2> QED
      BY <2>2, <2>3
  <1>3. Cat(F, N)
    <2>1. \E f : Cat(f, N)
      <3>1. N \in 0..N
        BY <1>1
      <3> HIDE DEF Cat, F
      <3> QED
        BY <3>1, <1>2, Zenon
    <2> QED
      BY <2>1
  <1> HIDE DEF F
  <1>4. \A n \in 0..N : F[n] = IF n = 0 THEN << >> ELSE F[n - 1] \o seqs[n]
    BY <1>3
  <1>5. \A n \in 0..N : F[n] \in Seq(S)
    <2> DEFINE Bad == {k \in 0..N : F[k] \notin Seq(S)}
    <2> SUFFICES ASSUME Bad # {} PROVE FALSE
      OBVIOUS
    <2>0. Bad \in SUBSET Nat
      BY <1>1
    <2>1. PICK k \in Bad : \A j \in Bad : k <= j
      <3> HIDE DEF Bad
      <3> QED
        BY <2>0, NatMin
    <2>2. k # 0
      BY <2>1, <1>4, << >> \in Seq(S)
    <2>3. k \in 1..N /\ k - 1 \in 0..N /\ ~(k <= k - 1)
      BY <1>1, <2>1, <2>2
    <2>4. F[k - 1] \in Seq(S)
      BY <2>1, <2>3
    <2>5. F[k] = F[k - 1] \o seqs[k]
      BY <1>4, <2>1, <2>2
    <2>6. F[k - 1] \o seqs[k] \in Seq(S)
      <3>1. seqs[k] \in Seq(S)
        BY <1>1, <2>3
      <3> HIDE DEF Bad
      <3> QED
        BY <2>4, <3>1
    <2> QED
      BY <2>1, <2>5, <2>6
  <1>6. Concat(seqs) = F[N]
    BY DEF Concat, F, N
  <1>7. F[0] = << >> /\ \A n \in 1..N : F[n] = F[n - 1] \o seqs[n]
    <2>1. 0 \in 0..N /\ \A n \in 1..N : n \in 0..N /\ n # 0
      BY <1>1
    <2> QED
      BY <1>4, <2>1, Zenon
  <1> QED
    BY <1>5, <1>6, <1>7, Zenon DEF N

LEMMA ConcatType ==
    ASSUME NEW S, NEW seqs \in Seq(Seq(S))
    PROVE  Concat(seqs) \in Seq(S)
  <1>1. Len(seqs) \in Nat
    OBVIOUS
  <1>2. Len(seqs) \in 0..Len(seqs)
    BY <1>1
  <1> QED
    BY <1>2, ConcatUpto, Zenon

(* What an element more does to the sequences a document is made of.       *)
LEMMA ConcatEmpty == Concat(<< >>) = << >>
  <1>1. << >> \in Seq(Seq({})) /\ Len(<< >>) = 0
    OBVIOUS
  <1> QED
    BY <1>1, ConcatUpto

LEMMA Appended ==
    ASSUME NEW S, NEW s \in Seq(S), NEW x \in S
    PROVE  /\ Append(s, x) \in Seq(S) /\ Len(Append(s, x)) = Len(s) + 1 /\ Len(s) \in Nat
           /\ \A n \in 1..Len(s) : Append(s, x)[n] = s[n] /\ s[n] \in S
           /\ Append(s, x)[Len(s) + 1] = x
  OBVIOUS

LEMMA ConcatAppend ==
    ASSUME NEW S, NEW seqs \in Seq(Seq(S)), NEW x \in Seq(S)
    PROVE  Concat(Append(seqs, x)) = Concat(seqs) \o x
  <1> DEFINE N == Len(seqs)
             more == Append(seqs, x)
  <1>1. /\ more \in Seq(Seq(S)) /\ Len(more) = N + 1 /\ N \in Nat
        /\ \A n \in 1..N : more[n] = seqs[n]
        /\ more[N + 1] = x
    <2> DEFINE T == Seq(S)
    <2>1. seqs \in Seq(T) /\ x \in T
      OBVIOUS
    <2> HIDE DEF T
    <2>2. /\ more \in Seq(T) /\ Len(more) = N + 1 /\ N \in Nat
          /\ \A n \in 1..N : more[n] = seqs[n]
          /\ more[N + 1] = x
      BY <2>1, Appended
    <2> QED
      BY <2>2 DEF T
  <1>2. PICK F : /\ F[0] = << >>
                 /\ \A n \in 1..N : F[n] = F[n - 1] \o seqs[n]
                 /\ Concat(seqs) = F[N]
    BY ConcatUpto, Zenon
  <1>3. PICK G : /\ G[0] = << >>
                 /\ \A n \in 1..Len(more) : G[n] = G[n - 1] \o more[n]
                 /\ Concat(more) = G[Len(more)]
    <2>1. more \in Seq(Seq(S))
      BY <1>1
    <2> HIDE DEF more
    <2> QED
      BY <2>1, ConcatUpto, Zenon
  <1> HIDE DEF N, more
  <1>4. \A n \in 0..N : G[n] = F[n]
    <2> DEFINE Bad == {k \in 0..N : G[k] # F[k]}
    <2> SUFFICES ASSUME Bad # {} PROVE FALSE
      OBVIOUS
    <2>0. Bad \in SUBSET Nat
      BY <1>1
    <2>1. PICK k \in Bad : \A j \in Bad : k <= j
      <3> HIDE DEF Bad
      <3> QED
        BY <2>0, NatMin
    <2>2. k # 0
      BY <2>1, <1>2, <1>3
    <2>3. k \in 1..N /\ k \in 1..Len(more) /\ k - 1 \in 0..N /\ ~(k <= k - 1)
      BY <1>1, <2>1, <2>2
    <2>4. G[k - 1] = F[k - 1]
      BY <2>1, <2>3
    <2>5. F[k] = F[k - 1] \o seqs[k] /\ G[k] = G[k - 1] \o more[k] /\ more[k] = seqs[k]
      BY <1>1, <1>2, <1>3, <2>3
    <2> QED
      BY <2>1, <2>4, <2>5
  <1>5. N + 1 \in 1..Len(more) /\ (N + 1) - 1 = N /\ N \in 0..N
    BY <1>1
  <1>6. G[N + 1] = G[N] \o x
    <2>1. G[N + 1] = G[(N + 1) - 1] \o more[N + 1]
      BY <1>3, <1>5
    <2> QED
      BY <1>1, <1>5, <2>1
  <1>7. Concat(more) = G[N + 1] /\ G[N] = F[N]
    BY <1>1, <1>3, <1>4, <1>5
  <1>8. Concat(more) = Concat(seqs) \o x
    BY <1>2, <1>6, <1>7
  <1> QED
    BY <1>8 DEF more

(* One more element in a mapped sequence.                                  *)
LEMMA MapAppend ==
    ASSUME NEW S, NEW a \in Seq(S), NEW b \in Seq(S), NEW x \in S,
           Len(b) = Len(a) + 1, b[Len(a) + 1] = x,
           \A n \in 1..Len(a) : b[n] = a[n]
    PROVE  b = Append(a, x)
  <1>1. /\ Append(a, x) \in Seq(S) /\ Len(Append(a, x)) = Len(a) + 1 /\ Len(a) \in Nat
        /\ \A n \in 1..Len(a) : Append(a, x)[n] = a[n]
        /\ Append(a, x)[Len(a) + 1] = x
    BY Appended
  <1>2. \A n \in 1..Len(a) + 1 : n \in 1..Len(a) \/ n = Len(a) + 1
    BY <1>1
  <1>3. \A n \in 1..Len(a) + 1 : Append(a, x)[n] = b[n]
    BY <1>1, <1>2
  <1> QED
    BY <1>1, <1>3, SeqEqual

LEMMA Sequenced ==
    ASSUME NEW S, NEW N \in Nat, NEW f \in [1..N -> S]
    PROVE  f \in Seq(S) /\ Len(f) = N
  OBVIOUS

(* The same, for the sequences one after the other.                        *)
LEMMA ConcatMore ==
    ASSUME NEW S, NEW N \in Nat, NEW a \in [1..N -> Seq(S)], NEW b \in [1..N + 1 -> Seq(S)],
           \A n \in 1..N : b[n] = a[n]
    PROVE  /\ Concat(a) \in Seq(S) /\ Concat(b) = Concat(a) \o b[N + 1]
           /\ Concat(b) \in Seq(S)
  <1> DEFINE Q == Seq(S)
             y == b[N + 1]
  <1>1. N + 1 \in Nat /\ N + 1 \in 1..N + 1
    OBVIOUS
  <1>2. a \in [1..N -> Q] /\ b \in [1..N + 1 -> Q] /\ y \in Q
    BY <1>1
  <1> HIDE DEF Q
  <1>3. a \in Seq(Q) /\ Len(a) = N /\ b \in Seq(Q) /\ Len(b) = N + 1
    BY <1>1, <1>2, Sequenced
  <1>4. b = Append(a, y)
    BY <1>2, <1>3, MapAppend
  <1> HIDE DEF y
  <1>5. Concat(a) \in Seq(S) /\ Concat(b) \in Seq(S)
    BY <1>3, ConcatType DEF Q
  <1>6. Concat(Append(a, y)) = Concat(a) \o y
    BY <1>2, <1>3, ConcatAppend DEF Q
  <1> QED
    BY <1>4, <1>5, <1>6 DEF y

(* What is in a sequence that is put together.                             *)
LEMMA SeqRange ==
    ASSUME NEW S, NEW s \in Seq(S)
    PROVE  /\ Range(s) \subseteq S /\ Len(s) \in Nat
           /\ \A n \in 1..Len(s) : s[n] \in Range(s)
           /\ \A x \in Range(s) : \E n \in 1..Len(s) : s[n] = x
  <1>1. DOMAIN s = 1..Len(s) /\ Len(s) \in Nat /\ \A n \in 1..Len(s) : s[n] \in S
    OBVIOUS
  <1> QED
    BY <1>1, Zenon DEF Range

LEMMA JoinedAt ==
    ASSUME NEW S, NEW s \in Seq(S), NEW t \in Seq(S)
    PROVE  /\ s \o t \in Seq(S) /\ Len(s \o t) = Len(s) + Len(t) /\ Len(s) \in Nat /\ Len(t) \in Nat
           /\ \A n \in 1..Len(s) : (s \o t)[n] = s[n]
           /\ \A n \in 1..Len(t) : (s \o t)[Len(s) + n] = t[n]
           /\ \A k \in 1..Len(s \o t) : k \in 1..Len(s) \/ \E n \in 1..Len(t) : k = Len(s) + n
  <1>1. /\ s \o t \in Seq(S) /\ Len(s \o t) = Len(s) + Len(t) /\ Len(s) \in Nat /\ Len(t) \in Nat
        /\ \A n \in 1..Len(s) : (s \o t)[n] = s[n]
    OBVIOUS
  <1>2. \A n \in 1..Len(t) : (s \o t)[Len(s) + n] = t[n]
    OBVIOUS
  <1>3. ASSUME NEW k \in 1..Len(s \o t), k \notin 1..Len(s) PROVE \E n \in 1..Len(t) : k = Len(s) + n
    <2>1. k - Len(s) \in 1..Len(t) /\ k = Len(s) + (k - Len(s))
      BY <1>1, <1>3
    <2> QED
      BY <2>1
  <1> QED
    BY <1>1, <1>2, <1>3

LEMMA JoinedParts ==
    ASSUME NEW S, NEW s \in Seq(S), NEW t \in Seq(S),
           NEW u, u = s \o t, NEW m, m = Len(s), NEW n, n = Len(t)
    PROVE  /\ \A k \in 1..m : u[k] = s[k]
           /\ \A k \in 1..n : u[m + k] = t[k]
  BY JoinedAt

LEMMA JoinedRange ==
    ASSUME NEW S, NEW s \in Seq(S), NEW t \in Seq(S)
    PROVE  s \o t \in Seq(S) /\ Range(s \o t) = Range(s) \cup Range(t)
  <1> DEFINE u == s \o t
             a == Len(s)
             b == Len(t)
  <1>1. /\ u \in Seq(S) /\ Len(u) = a + b /\ a \in Nat /\ b \in Nat
        /\ \A n \in 1..a : u[n] = s[n]
        /\ \A n \in 1..b : u[a + n] = t[n]
        /\ \A k \in 1..Len(u) : k \in 1..a \/ \E n \in 1..b : k = a + n
    BY JoinedAt
  <1>2. /\ DOMAIN u = 1..Len(u) /\ DOMAIN s = 1..a /\ DOMAIN t = 1..b
    BY <1>1
  <1> HIDE DEF u, a, b
  <1>3. \A n \in 1..a : n \in 1..Len(u)
    BY <1>1
  <1>4. \A n \in 1..b : a + n \in 1..Len(u)
    BY <1>1
  <1>5. ASSUME NEW x \in Range(u) PROVE x \in Range(s) \cup Range(t)
    <2>1. PICK k \in 1..Len(u) : x = u[k]
      BY <1>2 DEF Range
    <2>2. CASE k \in 1..a
      BY <1>1, <1>2, <2>1, <2>2 DEF Range
    <2>3. CASE \E n \in 1..b : k = a + n
      BY <1>1, <1>2, <2>1, <2>3 DEF Range
    <2> QED
      BY <1>1, <2>2, <2>3
  <1>6. ASSUME NEW x \in Range(s) PROVE x \in Range(u)
    BY <1>1, <1>2, <1>3, <1>6 DEF Range
  <1>7. ASSUME NEW x \in Range(t) PROVE x \in Range(u)
    <2>1. PICK n \in 1..b : x = t[n]
      BY <1>2 DEF Range
    <2>2. u[a + n] = x /\ a + n \in 1..Len(u)
      BY <1>1, <1>4, <2>1
    <2> QED
      BY <1>2, <2>2 DEF Range
  <1> QED
    BY <1>1, <1>5, <1>6, <1>7 DEF u

LEMMA ConcatRange ==
    ASSUME NEW S, NEW seqs \in Seq(Seq(S))
    PROVE  Range(Concat(seqs)) = UNION {Range(seqs[n]) : n \in 1..Len(seqs)}
  <1> DEFINE N == Len(seqs)
             all(n) == UNION {Range(seqs[k]) : k \in 1..n}
  <1>1. N \in Nat /\ \A n \in 1..N : seqs[n] \in Seq(S)
    OBVIOUS
  <1>2. PICK F : /\ F[0] = << >>
                 /\ \A n \in 1..N : F[n] = F[n - 1] \o seqs[n]
                 /\ \A n \in 0..N : F[n] \in Seq(S)
                 /\ Concat(seqs) = F[N]
    BY ConcatUpto, Zenon
  <1> HIDE DEF N
  <1>3. \A n \in 0..N : Range(F[n]) = all(n)
    <2> DEFINE Bad == {n \in 0..N : Range(F[n]) # all(n)}
    <2> SUFFICES ASSUME Bad # {} PROVE FALSE
      OBVIOUS
    <2>0. Bad \in SUBSET Nat
      BY <1>1
    <2>1. PICK k \in Bad : \A j \in Bad : k <= j
      <3> HIDE DEF Bad
      <3> QED
        BY <2>0, NatMin
    <2>2. k # 0
      <3>1. Range(F[0]) = {} /\ all(0) = {}
        BY <1>2 DEF Range
      <3> QED
        BY <2>1, <3>1
    <2>3. k \in 1..N /\ k - 1 \in 0..N /\ ~(k <= k - 1)
      BY <1>1, <2>1, <2>2
    <2>4. Range(F[k - 1]) = all(k - 1)
      BY <2>1, <2>3
    <2>5. Range(F[k]) = Range(F[k - 1]) \cup Range(seqs[k])
      <3> DEFINE f == F[k - 1]
                 x == seqs[k]
      <3>1. f \in Seq(S) /\ x \in Seq(S) /\ F[k] = f \o x
        BY <1>1, <1>2, <2>3
      <3> HIDE DEF f, x, Bad
      <3>2. Range(f \o x) = Range(f) \cup Range(x)
        BY <3>1, JoinedRange
      <3> QED
        BY <3>1, <3>2 DEF f, x
    <2>6. all(k) = all(k - 1) \cup Range(seqs[k])
      <3>1. \A j \in 1..k : j \in 1..k - 1 \/ j = k
        BY <2>3
      <3>2. \A j \in 1..k - 1 : j \in 1..k
        BY <2>3
      <3>3. k \in 1..k
        BY <2>3
      <3> QED
        BY <3>1, <3>2, <3>3
    <2> QED
      BY <2>1, <2>4, <2>5, <2>6
  <1>4. N \in 0..N
    BY <1>1
  <1> QED
    BY <1>2, <1>3, <1>4 DEF N

(* What is taken out of a sequence by a condition.                         *)
LEMMA Filtered ==
    ASSUME NEW S, NEW par \in Seq(S), NEW T
    PROVE  LET out == Concat([n \in 1..Len(par) |-> IF par[n] \in T THEN <<par[n]>> ELSE << >>])
           IN  out \in Seq(S) /\ Range(out) = Range(par) \cap T
  <1> DEFINE N == Len(par)
             seqs == [n \in 1..N |-> IF par[n] \in T THEN <<par[n]>> ELSE << >>]
  <1>1. N \in Nat /\ DOMAIN par = 1..N /\ \A n \in 1..N : par[n] \in S
    OBVIOUS
  <1>2. \A n \in 1..N : seqs[n] = IF par[n] \in T THEN <<par[n]>> ELSE << >>
    OBVIOUS
  <1>3. seqs \in Seq(Seq(S)) /\ Len(seqs) = N
    <2> DEFINE Q == Seq(S)
    <2>1. seqs \in [1..N -> Q]
      BY <1>1
    <2> HIDE DEF seqs, Q, N
    <2>2. seqs \in Seq(Q) /\ Len(seqs) = N
      BY <1>1, <2>1, Sequenced
    <2> QED
      BY <2>2 DEF Q
  <1> HIDE DEF seqs, N
  <1>4. Concat(seqs) \in Seq(S) /\ Range(Concat(seqs)) = UNION {Range(seqs[n]) : n \in 1..N}
    BY <1>3, ConcatType, ConcatRange
  <1>5. \A n \in 1..N : Range(seqs[n]) = IF par[n] \in T THEN {par[n]} ELSE {}
    <2> SUFFICES ASSUME NEW n \in 1..N PROVE Range(seqs[n]) = IF par[n] \in T THEN {par[n]} ELSE {}
      OBVIOUS
    <2>1. Range(<<par[n]>>) = {par[n]} /\ Range(<< >>) = {}
      BY DEF Range
    <2> QED
      BY <1>2, <2>1
  <1>6. Range(par) = {par[n] : n \in 1..N}
    BY <1>1 DEF Range
  <1>7. UNION {Range(seqs[n]) : n \in 1..N} = Range(par) \cap T
    BY <1>5, <1>6
  <1> QED
    BY <1>4, <1>7 DEF seqs, N

(* What becomes of the references.                                         *)
LEMMA JoinedOnce ==
    ASSUME NEW S, NEW s \in Seq(S), NEW t \in Seq(S), IsInjective(s), IsInjective(t),
           Range(s) \cap Range(t) = {}
    PROVE  IsInjective(s \o t)
  <1> DEFINE u == s \o t
             a == Len(s)
             b == Len(t)
  <1>1. /\ Len(u) = a + b /\ a \in Nat /\ b \in Nat /\ u \in Seq(S)
        /\ \A n \in 1..a : u[n] = s[n] /\ s[n] \in Range(s)
        /\ \A n \in 1..b : u[a + n] = t[n] /\ t[n] \in Range(t)
        /\ \A k \in 1..Len(u) : k \in 1..a \/ \E n \in 1..b : k = a + n
    <2>1. /\ u \in Seq(S) /\ Len(u) = a + b /\ a \in Nat /\ b \in Nat
          /\ \A n \in 1..a : u[n] = s[n]
          /\ \A n \in 1..b : u[a + n] = t[n]
          /\ \A k \in 1..Len(u) : k \in 1..a \/ \E n \in 1..b : k = a + n
      BY JoinedAt
    <2>2. (\A n \in 1..a : s[n] \in Range(s)) /\ (\A n \in 1..b : t[n] \in Range(t))
      BY SeqRange
    <2> HIDE DEF u, a, b
    <2> QED
      BY <2>1, <2>2
  <1>2. DOMAIN u = 1..Len(u) /\ DOMAIN s = 1..a /\ DOMAIN t = 1..b
    BY <1>1
  <1>3. /\ \A m, n \in 1..a : s[m] = s[n] => m = n
        /\ \A m, n \in 1..b : t[m] = t[n] => m = n
    BY <1>2 DEF IsInjective
  <1> HIDE DEF u, a, b
  <1>4. ASSUME NEW m \in 1..Len(u), NEW n \in 1..Len(u), u[m] = u[n]
        PROVE  m = n
    <2>1. CASE m \in 1..a /\ n \in 1..a
      BY <1>1, <1>3, <1>4, <2>1
    <2>2. CASE m \in 1..a /\ \E k \in 1..b : n = a + k
      <3>1. u[m] \in Range(s) /\ u[n] \in Range(t)
        BY <1>1, <2>2
      <3> QED
        BY <1>4, <3>1
    <2>3. CASE n \in 1..a /\ \E k \in 1..b : m = a + k
      <3>1. u[n] \in Range(s) /\ u[m] \in Range(t)
        BY <1>1, <2>3
      <3> QED
        BY <1>4, <3>1
    <2>4. CASE (\E k \in 1..b : n = a + k) /\ (\E k \in 1..b : m = a + k)
      <3>1. PICK j \in 1..b : n = a + j
        BY <2>4
      <3>2. PICK k \in 1..b : m = a + k
        BY <2>4
      <3>3. u[n] = t[j] /\ u[m] = t[k]
        BY <1>1, <3>1, <3>2
      <3>4. k = j
        BY <1>3, <1>4, <3>3
      <3> QED
        BY <3>1, <3>2, <3>4
    <2> QED
      BY <1>1, <2>1, <2>2, <2>3, <2>4
  <1> QED
    BY <1>2, <1>4 DEF IsInjective, u

LEMMA CountedRange ==
    ASSUME NEW S, NEW s \in Seq(S), IsInjective(s)
    PROVE  Cardinality(Range(s)) = Len(s)
  <1>1. Len(s) \in Nat /\ DOMAIN s = 1..Len(s) /\ s \in [1..Len(s) -> S]
    OBVIOUS
  <1>2. s \in Surjection(1..Len(s), Range(s))
    BY <1>1, Fun_RangeProperties
  <1>3. s \in [1..Len(s) -> Range(s)]
    BY <1>2, Fun_SurjectionProperties
  <1>4. s \in Injection(1..Len(s), Range(s))
    BY <1>1, <1>3 DEF Injection
  <1>5. ExistsBijection(1..Len(s), Range(s))
    BY <1>2, <1>4 DEF ExistsBijection, Bijection
  <1> QED
    BY <1>1, <1>5, FS_CountingElements

-----------------------------------------------------------------------------
(* Each element stands in Q to all that come after it.  With the order of  *)
(* a sort for Q this says that s is sorted; with inequality, that nothing  *)
(* is in s twice.                                                          *)
InOrder(s, Q) == \A i, j \in 1..Len(s) : i < j => <<s[i], s[j]>> \in Q

(* The elements of s stand in Q to those of t.                             *)
Crosses(s, t, Q) == \A x \in Range(s), y \in Range(t) : <<x, y>> \in Q

LEMMA JoinedInOrder ==
    ASSUME NEW S, NEW s \in Seq(S), NEW t \in Seq(S), NEW Q,
           InOrder(s, Q), InOrder(t, Q), Crosses(s, t, Q)
    PROVE  InOrder(s \o t, Q)
  <1> DEFINE u == s \o t
             a == Len(s)
             b == Len(t)
  <1>1. /\ Len(u) = a + b /\ a \in Nat /\ b \in Nat
        /\ \A n \in 1..a : u[n] = s[n] /\ s[n] \in Range(s)
        /\ \A n \in 1..b : u[a + n] = t[n] /\ t[n] \in Range(t)
        /\ \A k \in 1..Len(u) : k \in 1..a \/ \E n \in 1..b : k = a + n
    <2>1. /\ u \in Seq(S) /\ Len(u) = a + b /\ a \in Nat /\ b \in Nat
          /\ \A n \in 1..a : u[n] = s[n]
          /\ \A n \in 1..b : u[a + n] = t[n]
          /\ \A k \in 1..Len(u) : k \in 1..a \/ \E n \in 1..b : k = a + n
      BY JoinedAt
    <2>2. (\A n \in 1..a : s[n] \in Range(s)) /\ (\A n \in 1..b : t[n] \in Range(t))
      BY SeqRange
    <2> HIDE DEF u, a, b
    <2> QED
      BY <2>1, <2>2
  <1>2. /\ \A i, j \in 1..a : i < j => <<s[i], s[j]>> \in Q
        /\ \A i, j \in 1..b : i < j => <<t[i], t[j]>> \in Q
        /\ \A x \in Range(s), y \in Range(t) : <<x, y>> \in Q
    BY DEF InOrder, Crosses
  <1> HIDE DEF u, a, b
  <1>3. ASSUME NEW i \in 1..Len(u), NEW j \in 1..Len(u), i < j
        PROVE  <<u[i], u[j]>> \in Q
    <2>1. CASE j \in 1..a
      <3>1. i \in 1..a
        BY <1>1, <1>3, <2>1
      <3> QED
        BY <1>1, <1>2, <1>3, <2>1, <3>1
    <2>2. CASE \E n \in 1..b : j = a + n
      <3>1. PICK n \in 1..b : j = a + n
        BY <2>2
      <3>2. CASE i \in 1..a
        <4>1. u[i] = s[i] /\ s[i] \in Range(s) /\ u[j] = t[n] /\ t[n] \in Range(t)
          BY <1>1, <3>1, <3>2
        <4> QED
          BY <1>2, <4>1, Zenon
      <3>3. CASE \E m \in 1..b : i = a + m
        <4>1. PICK m \in 1..b : i = a + m
          BY <3>3
        <4>2. m < n /\ u[i] = t[m] /\ u[j] = t[n]
          BY <1>1, <1>3, <3>1, <4>1
        <4> QED
          BY <1>2, <4>2
      <3> QED
        BY <1>1, <3>2, <3>3
    <2> QED
      BY <1>1, <2>1, <2>2
  <1> QED
    BY <1>3 DEF InOrder, u

LEMMA ConcatInOrder ==
    ASSUME NEW S, NEW seqs \in Seq(Seq(S)), NEW Q,
           \A n \in 1..Len(seqs) : InOrder(seqs[n], Q),
           \A m, n \in 1..Len(seqs) : m < n => Crosses(seqs[m], seqs[n], Q)
    PROVE  InOrder(Concat(seqs), Q)
  <1> DEFINE N == Len(seqs)
             Of(k) == UNION {Range(seqs[m]) : m \in 1..k}
             Good(n, F) == InOrder(F[n], Q) /\ Range(F[n]) \subseteq Of(n)
  <1>1. N \in Nat /\ \A n \in 1..N : seqs[n] \in Seq(S)
    OBVIOUS
  <1>2. PICK F : /\ F[0] = << >>
                 /\ \A n \in 1..N : F[n] = F[n - 1] \o seqs[n]
                 /\ \A n \in 0..N : F[n] \in Seq(S)
                 /\ Concat(seqs) = F[N]
    BY ConcatUpto, Zenon
  <1> HIDE DEF N
  <1>3. \A n \in 0..N : Good(n, F)
    <2> DEFINE Bad == {n \in 0..N : ~Good(n, F)}
    <2> SUFFICES ASSUME Bad # {} PROVE FALSE
      OBVIOUS
    <2>0. Bad \in SUBSET Nat
      <3> HIDE DEF Good
      <3> QED
        BY <1>1
    <2>1. PICK k \in Bad : \A j \in Bad : k <= j
      <3> HIDE DEF Bad
      <3> QED
        BY <2>0, NatMin
    <2>2. k # 0
      <3>1. Range(F[0]) = {} /\ InOrder(F[0], Q)
        BY <1>2 DEF Range, InOrder
      <3> QED
        BY <2>1, <3>1
    <2>3. k \in 1..N /\ k - 1 \in 0..N /\ ~(k <= k - 1)
      BY <1>1, <2>1, <2>2
    <2>4. Good(k - 1, F)
      <3> HIDE DEF Good
      <3> QED
        BY <2>1, <2>3
    <2> DEFINE f == F[k - 1]
               x == seqs[k]
    <2>5. f \in Seq(S) /\ x \in Seq(S) /\ F[k] = f \o x
      BY <1>1, <1>2, <2>3
    <2>6. InOrder(f, Q) /\ Range(f) \subseteq Of(k - 1) /\ InOrder(x, Q)
      BY <2>3, <2>4 DEF N
    <2>7. \A m \in 1..k - 1 : m \in 1..N /\ m < k
      BY <1>1, <2>3
    <2>8. Crosses(f, x, Q)
      <3> SUFFICES ASSUME NEW y \in Range(f), NEW z \in Range(x) PROVE <<y, z>> \in Q
        BY DEF Crosses
      <3>1. PICK m \in 1..k - 1 : y \in Range(seqs[m])
        BY <2>6
      <3>2. Crosses(seqs[m], x, Q)
        BY <2>3, <2>7 DEF N
      <3> QED
        BY <3>1, <3>2 DEF Crosses
    <2>9. Of(k) = Of(k - 1) \cup Range(x)
      <3>1. \A j \in 1..k : j \in 1..k - 1 \/ j = k
        BY <2>3
      <3>2. \A j \in 1..k - 1 : j \in 1..k
        BY <2>3
      <3>3. k \in 1..k
        BY <2>3
      <3> QED
        BY <3>1, <3>2, <3>3
    <2> HIDE DEF f, x, Of
    <2>10. InOrder(f \o x, Q) /\ Range(f \o x) = Range(f) \cup Range(x)
      BY <2>5, <2>6, <2>8, JoinedInOrder, JoinedRange
    <2> QED
      BY <2>1, <2>5, <2>6, <2>9, <2>10
  <1>4. N \in 0..N
    BY <1>1
  <1> QED
    BY <1>2, <1>3, <1>4, Zenon

-----------------------------------------------------------------------------
StrictOn(R, S) ==
    /\ \A x \in S : <<x, x>> \notin R
    /\ \A x, y, z \in S : <<x, y>> \in R /\ <<y, z>> \in R => <<x, z>> \in R

(* The pairs that R does not order the other way round.                    *)
NotAfter(R, S) == {p \in S \X S : <<p[2], p[1]>> \notin R}

Different(S) == {p \in S \X S : p[1] # p[2]}

LEMMA OnceInjective ==
    ASSUME NEW S, NEW s \in Seq(S)
    PROVE  InOrder(s, Different(S)) <=> IsInjective(s)
  <1>1. DOMAIN s = 1..Len(s) /\ Len(s) \in Nat /\ \A n \in 1..Len(s) : s[n] \in S
    OBVIOUS
  <1>2. ASSUME InOrder(s, Different(S)), NEW i \in 1..Len(s), NEW j \in 1..Len(s), s[i] = s[j]
        PROVE  i = j
    <2>1. ~(i < j) /\ ~(j < i)
      BY <1>2 DEF InOrder, Different
    <2> QED
      BY <1>1, <2>1
  <1>3. ASSUME IsInjective(s), NEW i \in 1..Len(s), NEW j \in 1..Len(s), i < j
        PROVE  <<s[i], s[j]>> \in Different(S)
    <2>1. i # j
      BY <1>1, <1>3
    <2>2. s[i] # s[j] /\ s[i] \in S /\ s[j] \in S
      BY <1>1, <1>3, <2>1 DEF IsInjective
    <2> QED
      BY <2>2 DEF Different
  <1> QED
    BY <1>1, <1>2, <1>3 DEF InOrder, IsInjective

-----------------------------------------------------------------------------
(* What is sifted is what was in the sequence and the set, in any order    *)
(* the sequence was in.                                                    *)
LEMMA SiftRange ==
    ASSUME NEW S, NEW s \in Seq(S), NEW T
    PROVE  Sift(s, T) \in Seq(S) /\ Range(Sift(s, T)) = Range(s) \cap T
  BY Filtered DEF Sift

LEMMA SiftInOrder ==
    ASSUME NEW S, NEW s \in Seq(S), NEW T, NEW Q, InOrder(s, Q)
    PROVE  InOrder(Sift(s, T), Q)
  <1> DEFINE N == Len(s)
             seqs == [n \in 1..N |-> IF s[n] \in T THEN <<s[n]>> ELSE << >>]
  <1>1. N \in Nat /\ \A n \in 1..N : s[n] \in S
    OBVIOUS
  <1>2. \A n \in 1..N : seqs[n] = IF s[n] \in T THEN <<s[n]>> ELSE << >>
    OBVIOUS
  <1>3. seqs \in Seq(Seq(S)) /\ Len(seqs) = N
    <2> DEFINE V == Seq(S)
    <2>1. seqs \in [1..N -> V]
      BY <1>1
    <2> HIDE DEF seqs, V, N
    <2>2. seqs \in Seq(V) /\ Len(seqs) = N
      BY <1>1, <2>1, Sequenced
    <2> QED
      BY <2>2 DEF V
  <1> HIDE DEF seqs
  <1>4. \A n \in 1..N : InOrder(seqs[n], Q) /\ Range(seqs[n]) \subseteq {s[n]}
    <2> SUFFICES ASSUME NEW n \in 1..N
                 PROVE  InOrder(seqs[n], Q) /\ Range(seqs[n]) \subseteq {s[n]}
      OBVIOUS
    <2>1. /\ Range(<<s[n]>>) = {s[n]} /\ Range(<< >>) = {}
          /\ InOrder(<<s[n]>>, Q) /\ InOrder(<< >>, Q)
      BY DEF Range, InOrder
    <2> QED
      BY <1>2, <2>1
  <1>5. \A m, n \in 1..N : m < n => Crosses(seqs[m], seqs[n], Q)
    BY <1>4 DEF InOrder, Crosses
  <1>6. InOrder(Concat(seqs), Q)
    <2> HIDE DEF N
    <2> QED
      BY <1>3, <1>4, <1>5, ConcatInOrder
  <1> QED
    BY <1>6 DEF Sift, seqs, N

LEMMA SiftOnce ==
    ASSUME NEW S, NEW s \in Seq(S), NEW T, IsInjective(s)
    PROVE  IsInjective(Sift(s, T))
  <1> DEFINE differ == Different(S)
             sifted == Sift(s, T)
  <1>1. InOrder(s, differ)
    BY OnceInjective
  <1>2. sifted \in Seq(S)
    BY SiftRange
  <1>3. InOrder(sifted, differ)
    <2> HIDE DEF differ
    <2> QED
      BY <1>1, SiftInOrder
  <1> HIDE DEF sifted
  <1>4. IsInjective(sifted)
    BY <1>2, <1>3, OnceInjective
  <1> QED
    BY <1>4 DEF sifted

-----------------------------------------------------------------------------
LEMMA RangeFinite ==
    ASSUME NEW S, NEW s \in Seq(S)
    PROVE  /\ IsFiniteSet(Range(s)) /\ Len(s) \in Nat
           /\ Cardinality(Range(s)) \in Nat /\ Cardinality(Range(s)) <= Len(s)
  <1>1. Len(s) \in Nat /\ s \in [1..Len(s) -> S]
    OBVIOUS
  <1>2. s \in Surjection(1..Len(s), Range(s))
    BY <1>1, Fun_RangeProperties
  <1>3. IsFiniteSet(1..Len(s)) /\ Cardinality(1..Len(s)) = Len(s)
    BY <1>1, FS_Interval, SMTT(40)
  <1>4. IsFiniteSet(Range(s)) /\ Cardinality(Range(s)) <= Len(s)
    BY <1>2, <1>3, FS_Surjection
  <1> QED
    BY <1>1, <1>4, FS_CardinalityType

(* What comes before another has fewer before it, and none has all.        *)
LEMMA PrecedingOrdered ==
    ASSUME NEW S, NEW s \in Seq(S), NEW R, StrictOn(R, S)
    PROVE  /\ \A x \in Range(s) : Preceding(s, R, x) \in 0..Len(s) - 1
           /\ \A x, y \in Range(s) : <<x, y>> \in R => Preceding(s, R, x) < Preceding(s, R, y)
  <1> DEFINE A == Range(s)
             P(x) == {y \in A : <<y, x>> \in R}
  <1>1. /\ IsFiniteSet(A) /\ Len(s) \in Nat /\ A \subseteq S
        /\ Cardinality(A) \in Nat /\ Cardinality(A) <= Len(s)
    BY RangeFinite, SeqRange
  <1>2. \A x \in A : Preceding(s, R, x) = Cardinality(P(x))
    BY DEF Preceding
  <1> HIDE DEF A
  <1>3. ASSUME NEW x \in A
        PROVE  IsFiniteSet(P(x)) /\ Cardinality(P(x)) \in 0..Len(s) - 1
    <2>1. P(x) \in SUBSET (A \ {x})
      BY <1>1 DEF StrictOn
    <2>2. IsFiniteSet(A \ {x}) /\ Cardinality(A \ {x}) = Cardinality(A) - 1
      BY <1>1, FS_RemoveElement
    <2> HIDE DEF P
    <2>3. IsFiniteSet(P(x)) /\ Cardinality(P(x)) <= Cardinality(A \ {x})
      BY <2>1, <2>2, FS_Subset
    <2>4. Cardinality(P(x)) \in Nat
      BY <2>3, FS_CardinalityType
    <2> QED
      BY <1>1, <2>2, <2>3, <2>4
  <1>4. ASSUME NEW x \in A, NEW y \in A, <<x, y>> \in R
        PROVE  Cardinality(P(x)) < Cardinality(P(y))
    <2>1. P(x) \in SUBSET P(y) /\ x \in P(y) /\ x \notin P(x)
      BY <1>1, <1>4 DEF StrictOn
    <2> HIDE DEF P
    <2>2. IsFiniteSet(P(y)) /\ Cardinality(P(x)) \in Nat /\ Cardinality(P(y)) \in Nat
      BY <1>1, <1>3
    <2>3. Cardinality(P(x)) <= Cardinality(P(y)) /\ Cardinality(P(x)) # Cardinality(P(y))
      BY <2>1, <2>2, FS_Subset
    <2> QED
      BY <2>2, <2>3
  <1> HIDE DEF P
  <1> QED
    BY <1>2, <1>3, <1>4 DEF A

(* Sorting keeps what is there, and that nothing is there twice, and puts  *)
(* nothing before what comes before it.                                    *)
LEMMA RankedSorted ==
    ASSUME NEW S, NEW s \in Seq(S), NEW R, StrictOn(R, S)
    PROVE  /\ Ranked(s, R) \in Seq(S)
           /\ Range(Ranked(s, R)) = Range(s)
           /\ InOrder(Ranked(s, R), NotAfter(R, S))
           /\ IsInjective(s) => IsInjective(Ranked(s, R))
  <1> DEFINE N == Len(s)
             T(k) == {x \in Range(s) : Preceding(s, R, x) = k - 1}
             seqs == [k \in 1..N |-> Sift(s, T(k))]
             before == NotAfter(R, S)
             differ == Different(S)
  <1>1. /\ N \in Nat /\ Range(s) \subseteq S
        /\ \A x \in Range(s) : Preceding(s, R, x) \in 0..N - 1
        /\ \A x, y \in Range(s) : <<x, y>> \in R => Preceding(s, R, x) < Preceding(s, R, y)
    BY SeqRange, PrecedingOrdered
  <1>2. Ranked(s, R) = Concat(seqs)
    BY DEF Ranked
  <1> HIDE DEF N
  <1>3. \A k \in 1..N : seqs[k] = Sift(s, T(k))
    OBVIOUS
  <1>4. \A k \in 1..N : seqs[k] \in Seq(S) /\ Range(seqs[k]) = T(k)
    <2> SUFFICES ASSUME NEW k \in 1..N PROVE seqs[k] \in Seq(S) /\ Range(seqs[k]) = T(k)
      OBVIOUS
    <2> DEFINE X == T(k)
    <2>1. X \subseteq Range(s)
      OBVIOUS
    <2> HIDE DEF X
    <2>2. Sift(s, X) \in Seq(S) /\ Range(Sift(s, X)) = Range(s) \cap X
      BY SiftRange
    <2> HIDE DEF seqs
    <2> QED
      BY <1>3, <2>1, <2>2 DEF X
  <1>5. seqs \in Seq(Seq(S)) /\ Len(seqs) = N
    <2> DEFINE V == Seq(S)
    <2>1. seqs \in [1..N -> V]
      BY <1>4
    <2> HIDE DEF seqs, V
    <2>2. seqs \in Seq(V) /\ Len(seqs) = N
      BY <1>1, <2>1, Sequenced
    <2> QED
      BY <2>2 DEF V
  <1> HIDE DEF seqs
  <1>6. Concat(seqs) \in Seq(S) /\ Range(Concat(seqs)) = UNION {Range(seqs[k]) : k \in 1..N}
    BY <1>5, ConcatType, ConcatRange
  <1>7. UNION {Range(seqs[k]) : k \in 1..N} = Range(s)
    <2>1. ASSUME NEW x \in Range(s) PROVE \E k \in 1..N : x \in T(k)
      <3> DEFINE k == Preceding(s, R, x) + 1
      <3>1. k \in 1..N /\ Preceding(s, R, x) = k - 1
        BY <1>1
      <3> HIDE DEF k
      <3> QED
        BY <3>1
    <2> QED
      BY <1>4, <2>1
  <1>8. ASSUME NEW j \in 1..N, NEW k \in 1..N, j <= k, NEW x \in T(j), NEW y \in T(k)
        PROVE  <<x, y>> \in before
    <2>1. x \in S /\ y \in S
      BY <1>1
    <2>2. ~(Preceding(s, R, y) < Preceding(s, R, x))
      BY <1>1, <1>8
    <2>3. <<y, x>> \notin R
      BY <1>1, <2>2
    <2> QED
      BY <2>1, <2>3 DEF NotAfter
  <1>9. \A j, k \in 1..N : j < k => Crosses(seqs[j], seqs[k], before)
    <2> HIDE DEF before, T
    <2> SUFFICES ASSUME NEW j \in 1..N, NEW k \in 1..N, j < k,
                        NEW x \in T(j), NEW y \in T(k)
                 PROVE  <<x, y>> \in before
      BY <1>4 DEF Crosses
    <2>1. j <= k
      BY <1>1
    <2> QED
      BY <1>8, <2>1
  <1>10. \A k \in 1..N : InOrder(seqs[k], before)
    <2> HIDE DEF before, T
    <2> SUFFICES ASSUME NEW k \in 1..N, NEW i \in 1..Len(seqs[k]), NEW j \in 1..Len(seqs[k])
                 PROVE  <<seqs[k][i], seqs[k][j]>> \in before
      BY DEF InOrder
    <2>1. seqs[k][i] \in T(k) /\ seqs[k][j] \in T(k) /\ k <= k
      BY <1>1, <1>4, SeqRange
    <2> QED
      BY <1>8, <2>1
  <1>11. InOrder(Concat(seqs), before)
    <2> HIDE DEF before
    <2> QED
      BY <1>5, <1>9, <1>10, ConcatInOrder
  <1>12. ASSUME IsInjective(s) PROVE IsInjective(Concat(seqs))
    <2>1. InOrder(s, differ)
      BY <1>12, OnceInjective
    <2>2. \A k \in 1..N : InOrder(seqs[k], differ)
      <3> HIDE DEF differ, T
      <3> QED
        BY <1>3, <2>1, SiftInOrder
    <2>3. \A j, k \in 1..N : j < k => Crosses(seqs[j], seqs[k], differ)
      <3> SUFFICES ASSUME NEW j \in 1..N, NEW k \in 1..N, j < k,
                          NEW x \in T(j), NEW y \in T(k)
                   PROVE  <<x, y>> \in differ
        <4> HIDE DEF differ, T
        <4> QED
          BY <1>4 DEF Crosses
      <3>1. x # y /\ x \in S /\ y \in S
        BY <1>1
      <3> QED
        BY <3>1 DEF Different
    <2> HIDE DEF differ
    <2>4. InOrder(Concat(seqs), differ)
      BY <1>5, <2>2, <2>3, ConcatInOrder
    <2> QED
      BY <1>6, <2>4, OnceInjective DEF differ
  <1> QED
    BY <1>2, <1>6, <1>7, <1>11, <1>12, Zenon

-----------------------------------------------------------------------------
(* What is sifted out of a sequence comes word by word.                    *)
LEMMA SiftUpto ==
    ASSUME NEW S, NEW s \in Seq(S), NEW T
    PROVE  \E F : /\ F[0] = << >>
                  /\ \A n \in 1..Len(s) :
                        F[n] = IF s[n] \in T THEN Append(F[n - 1], s[n]) ELSE F[n - 1]
                  /\ \A n \in 0..Len(s) : F[n] \in Seq(S)
                  /\ Sift(s, T) = F[Len(s)]
  <1> DEFINE N == Len(s)
             seqs == [n \in 1..N |-> IF s[n] \in T THEN <<s[n]>> ELSE << >>]
  <1>1. N \in Nat /\ \A n \in 1..N : s[n] \in S
    OBVIOUS
  <1>2. \A n \in 1..N : seqs[n] = IF s[n] \in T THEN <<s[n]>> ELSE << >>
    OBVIOUS
  <1>3. seqs \in Seq(Seq(S)) /\ Len(seqs) = N
    <2> DEFINE Q == Seq(S)
    <2>1. seqs \in [1..N -> Q]
      BY <1>1
    <2> HIDE DEF seqs, Q, N
    <2>2. seqs \in Seq(Q) /\ Len(seqs) = N
      BY <1>1, <2>1, Sequenced
    <2> QED
      BY <2>2 DEF Q
  <1>4. Sift(s, T) = Concat(seqs)
    BY DEF Sift
  <1> HIDE DEF seqs, N
  <1>5. PICK F : /\ F[0] = << >>
                 /\ \A n \in 1..N : F[n] = F[n - 1] \o seqs[n]
                 /\ \A n \in 0..N : F[n] \in Seq(S)
                 /\ Concat(seqs) = F[N]
    BY <1>3, ConcatUpto, Zenon
  <1>6. ASSUME NEW n \in 1..N
        PROVE  F[n] = IF s[n] \in T THEN Append(F[n - 1], s[n]) ELSE F[n - 1]
    <2> DEFINE f == F[n - 1]
               x == s[n]
    <2>1. n - 1 \in 0..N
      BY <1>1
    <2>2. f \in Seq(S) /\ x \in S
      BY <1>1, <1>5, <2>1
    <2>3. F[n] = f \o (IF x \in T THEN <<x>> ELSE << >>)
      BY <1>2, <1>5
    <2> HIDE DEF f, x
    <2>4. f \o <<x>> = Append(f, x) /\ f \o << >> = f
      BY <2>2
    <2>5. F[n] = IF x \in T THEN Append(f, x) ELSE f
      BY <2>3, <2>4
    <2> QED
      BY <2>5 DEF f, x
  <1> QED
    BY <1>4, <1>5, <1>6 DEF N

(* Sifting by what all meet leaves all.                                    *)
LEMMA SiftAll ==
    ASSUME NEW S, NEW s \in Seq(S), NEW T, \A n \in 1..Len(s) : s[n] \in T
    PROVE  Sift(s, T) = s
  <1> DEFINE N == Len(s)
  <1>1. N \in Nat /\ \A n \in 1..N : s[n] \in S
    OBVIOUS
  <1>2. PICK F : /\ F[0] = << >>
                 /\ \A n \in 1..N : F[n] = IF s[n] \in T THEN Append(F[n - 1], s[n]) ELSE F[n - 1]
                 /\ \A n \in 0..N : F[n] \in Seq(S)
                 /\ Sift(s, T) = F[N]
    BY SiftUpto, Zenon
  <1> DEFINE Same(n) == Len(F[n]) = n /\ \A k \in 1..n : F[n][k] = s[k]
             Bad == {n \in 0..N : ~Same(n)}
  <1>3. ASSUME Bad # {} PROVE FALSE
    <2>0. Bad \in SUBSET Nat
      BY <1>1
    <2>1. PICK n \in Bad : \A j \in Bad : n <= j
      <3> HIDE DEF Bad
      <3> QED
        BY <1>3, <2>0, NatMin
    <2>2. n # 0
      BY <1>2, <2>1
    <2>3. n \in 1..N /\ n - 1 \in 0..N /\ n \in Nat
      BY <1>1, <2>1, <2>2
    <2>4. Same(n - 1)
      BY <2>1, <2>3
    <2> DEFINE f == F[n - 1]
               x == s[n]
    <2>5. f \in Seq(S) /\ x \in S /\ F[n] = Append(f, x) /\ Len(f) = n - 1
          /\ \A k \in 1..n - 1 : f[k] = s[k]
      BY <1>1, <1>2, <2>3, <2>4
    <2> HIDE DEF f, Same, Bad
    <2>6. Len(F[n]) = n /\ F[n][n] = x /\ \A k \in 1..n - 1 : F[n][k] = f[k]
      BY <2>3, <2>5, Appended
    <2>7. ASSUME NEW k \in 1..n PROVE F[n][k] = s[k]
      BY <2>3, <2>5, <2>6 DEF x
    <2>8. Same(n)
      BY <2>6, <2>7 DEF Same
    <2> QED
      BY <2>1, <2>8 DEF Bad
  <1>4. Same(N) /\ F[N] \in Seq(S)
    BY <1>1, <1>2, <1>3
  <1>5. F[N] = s
    <2> DEFINE f == F[N]
    <2>1. f \in Seq(S) /\ Len(f) = Len(s) /\ \A k \in 1..Len(s) : f[k] = s[k]
      BY <1>4
    <2> HIDE DEF f
    <2>2. f = s
      BY <2>1
    <2> QED
      BY <2>2 DEF f
  <1> QED
    BY <1>2, <1>5

(* The first of what is sifted out is the first, if it stays.              *)
LEMMA SiftFirst ==
    ASSUME NEW S, NEW s \in Seq(S), NEW T, s # << >>, s[1] \in T
    PROVE  Sift(s, T) # << >> /\ Sift(s, T)[1] = s[1]
  <1> DEFINE N == Len(s)
  <1>1. N \in Nat /\ N >= 1 /\ \A n \in 1..N : s[n] \in S
    OBVIOUS
  <1>2. PICK F : /\ F[0] = << >>
                 /\ \A n \in 1..N : F[n] = IF s[n] \in T THEN Append(F[n - 1], s[n]) ELSE F[n - 1]
                 /\ \A n \in 0..N : F[n] \in Seq(S)
                 /\ Sift(s, T) = F[N]
    BY SiftUpto, Zenon
  <1> DEFINE First(n) == Len(F[n]) >= 1 /\ F[n][1] = s[1]
             Bad == {n \in 1..N : ~First(n)}
  <1>3. ASSUME Bad # {} PROVE FALSE
    <2>0. Bad \in SUBSET Nat
      BY <1>1
    <2>1. PICK n \in Bad : \A j \in Bad : n <= j
      <3> HIDE DEF Bad
      <3> QED
        BY <1>3, <2>0, NatMin
    <2> DEFINE f == F[n - 1]
               x == s[n]
    <2>2. /\ n \in 1..N /\ n - 1 \in 0..N /\ n \in Nat
          /\ f \in Seq(S) /\ x \in S /\ F[n] = IF x \in T THEN Append(f, x) ELSE f
      BY <1>1, <1>2, <2>1
    <2>3. CASE n = 1
      <3>1. f = << >> /\ x \in T /\ x = s[1]
        BY <1>2, <2>3
      <3> HIDE DEF f, x, Bad
      <3>2. Append(f, x) = <<x>>
        BY <3>1
      <3>3. First(n)
        BY <2>2, <3>1, <3>2
      <3> QED
        BY <2>1, <3>3 DEF Bad
    <2>4. CASE n # 1
      <3>1. n - 1 \in 1..N /\ ~(n <= n - 1)
        BY <2>2, <2>4
      <3>2. Len(f) >= 1 /\ f[1] = s[1]
        BY <2>1, <3>1
      <3> HIDE DEF f, x, Bad
      <3>3. /\ Len(Append(f, x)) = Len(f) + 1 /\ Len(f) \in Nat
            /\ \A k \in 1..Len(f) : Append(f, x)[k] = f[k]
        BY <2>2, Appended
      <3>4. First(n)
        BY <2>2, <3>2, <3>3
      <3> QED
        BY <2>1, <3>4 DEF Bad
    <2> QED
      BY <2>3, <2>4
  <1>4. First(N)
    BY <1>1, <1>3
  <1> QED
    BY <1>2, <1>4

(* A piece of a sequence.                                                  *)
LEMMA Between ==
    ASSUME NEW S, NEW s \in Seq(S), NEW a \in 1..Len(s), NEW b \in a..Len(s)
    PROVE  /\ SubSeq(s, a, b) \in Seq(S) /\ Len(SubSeq(s, a, b)) = b - a + 1
           /\ \A j \in 1..b - a + 1 : SubSeq(s, a, b)[j] = s[a + (j - 1)]
  <1>1. Len(s) \in Nat /\ a \in Nat /\ b \in Nat /\ a >= 1 /\ b <= Len(s) /\ a <= b
    OBVIOUS
  <1>2. Len(SubSeq(s, a, b)) = b - a + 1
    BY <1>1
  <1>3. \A j \in 1..b - a + 1 : SubSeq(s, a, b)[j] = s[a + (j - 1)]
    BY <1>1
  <1>4. SubSeq(s, a, b) \in Seq(S)
    BY <1>1
  <1> QED
    BY <1>2, <1>3, <1>4

(* The a-th to the b-th of s are in a row in t.                            *)
InARow(s, a, b, t) ==
    \E c \in Nat \ {0} : c + (b - a) <= Len(t) /\ \A j \in 0..b - a : t[c + j] = s[a + j]

(* The a-th to the b-th of s are put in one by one.                        *)
OneByOne(s, a, b, seqs) == \A k \in a..b : seqs[k] = <<s[k]>>

(* Elements that are put in one by one are there in a row.                 *)
LEMMA ConcatWindow ==
    ASSUME NEW S, NEW seqs \in Seq(Seq(S)), NEW s \in Seq(S), Len(s) = Len(seqs),
           NEW a \in 1..Len(s), NEW b \in a..Len(s), OneByOne(s, a, b, seqs)
    PROVE  InARow(s, a, b, Concat(seqs))
  <1> DEFINE N == Len(s)
  <1>1. /\ N \in Nat /\ a \in 1..N /\ b \in a..N /\ a \in Nat /\ b \in Nat
        /\ \A n \in 1..N : s[n] \in S /\ seqs[n] \in Seq(S)
    OBVIOUS
  <1>0. PICK F : /\ F[0] = << >>
                 /\ \A n \in 1..Len(seqs) : F[n] = F[n - 1] \o seqs[n]
                 /\ \A n \in 0..Len(seqs) : F[n] \in Seq(S)
                 /\ Concat(seqs) = F[Len(seqs)]
    BY ConcatUpto, Zenon
  <1>2. /\ \A n \in 1..N : F[n] = F[n - 1] \o seqs[n]
        /\ \A n \in 0..N : F[n] \in Seq(S)
        /\ Concat(seqs) = F[N]
    BY <1>0
  <1> HIDE DEF N
  <1> DEFINE L == Len(F[a - 1])
             Good(n) == /\ n <= b => Len(F[n]) = L + (n - (a - 1))
                        /\ n > b => Len(F[n]) >= L + (b - (a - 1))
                        /\ \A j \in 0..b - a : a + j <= n => F[n][L + 1 + j] = s[a + j]
             Bad == {n \in a - 1..N : ~Good(n)}
  <1>3. L \in Nat
    <2>1. a - 1 \in 0..N
      BY <1>1
    <2> QED
      BY <1>2, <2>1
  <1>4. ASSUME Bad # {} PROVE FALSE
    <2>0. Bad \in SUBSET Nat
      BY <1>1
    <2>1. PICK n \in Bad : \A j \in Bad : n <= j
      <3> HIDE DEF Bad
      <3> QED
        BY <1>4, <2>0, NatMin
    <2>2. n # a - 1
      <3>1. Good(a - 1)
        BY <1>1, <1>3
      <3> QED
        BY <2>1, <3>1
    <2>3. n \in a..N /\ n - 1 \in a - 1..N /\ n \in 1..N /\ n - 1 \in 0..N /\ ~(n <= n - 1)
      BY <1>1, <2>1, <2>2
    <2>4. Good(n - 1)
      BY <2>1, <2>3
    <2> DEFINE f == F[n - 1]
               t == seqs[n]
               g == F[n]
    <2>5. f \in Seq(S) /\ t \in Seq(S) /\ g = f \o t
      BY <1>1, <1>2, <2>3
    <2>6. /\ n - 1 <= b => Len(f) = L + (n - a)
          /\ n - 1 > b => Len(f) >= L + (b - (a - 1))
          /\ \A j \in 0..b - a : a + j <= n - 1 => f[L + 1 + j] = s[a + j]
      <3> HIDE DEF L, Bad
      <3>1. n - 1 - (a - 1) = n - a /\ L \in Nat
        BY <1>1, <1>3, <2>3
      <3>2. /\ n - 1 <= b => Len(f) = L + (n - 1 - (a - 1))
            /\ n - 1 > b => Len(f) >= L + (b - (a - 1))
            /\ \A j \in 0..b - a : a + j <= n - 1 => f[L + 1 + j] = s[a + j]
        BY <2>4
      <3> QED
        BY <3>1, <3>2
    <2>9. n <= b => t = <<s[n]>>
      BY <1>1, <2>3 DEF OneByOne
    <2>10. ~Good(n)
      BY <2>1
    <2> HIDE DEF f, t, g, L, Bad
    <2>7. /\ Len(g) = Len(f) + Len(t) /\ Len(f) \in Nat /\ Len(t) \in Nat
          /\ \A k \in 1..Len(f) : g[k] = f[k]
          /\ \A k \in 1..Len(t) : g[Len(f) + k] = t[k]
      <3>1. Len(f \o t) = Len(f) + Len(t) /\ Len(f) \in Nat /\ Len(t) \in Nat
        BY <2>5, JoinedAt
      <3>2. /\ \A k \in 1..Len(f) : g[k] = f[k]
            /\ \A k \in 1..Len(t) : g[Len(f) + k] = t[k]
        BY <2>5, JoinedParts
      <3> QED
        BY <2>5, <3>1, <3>2
    <2>14. n <= b => Len(t) = 1 /\ t[1] = s[n] /\ 1 \in 1..Len(t)
      <3>1. \A x : Len(<<x>>) = 1 /\ <<x>>[1] = x
        OBVIOUS
      <3>2. 1 \in 1..1
        OBVIOUS
      <3>3. n <= b => t = <<s[n]>>
        BY <2>9
      <3> QED
        BY ONLY <3>1, <3>2, <3>3
    <2>8. ASSUME NEW j \in 0..b - a, a + j <= n PROVE g[L + 1 + j] = s[a + j]
      <3>1. CASE a + j <= n - 1
        <4>1. L + 1 + j \in 1..Len(f)
          BY <1>1, <1>3, <2>3, <2>6, <2>7, <3>1
        <4> QED
          BY <2>6, <2>7, <3>1, <4>1
      <3>2. CASE a + j = n
        <4>1. n <= b /\ n - 1 <= b /\ L + 1 + j = Len(f) + 1
          BY <1>1, <1>3, <2>3, <2>6, <3>2
        <4>2. Len(t) = 1 /\ t[1] = s[n] /\ 1 \in 1..Len(t)
          BY <2>14, <4>1
        <4> QED
          BY <2>7, <3>2, <4>1, <4>2
      <3> QED
        BY <1>1, <2>3, <2>8, <3>1, <3>2
    <2>11. n <= b => Len(g) = L + (n - (a - 1))
      <3>1. n <= b => n - 1 <= b /\ n - a + 1 = n - (a - 1)
        BY <1>1, <2>3
      <3>2. n <= b => Len(g) = Len(f) + 1 /\ Len(f) = L + (n - a)
        BY <2>6, <2>7, <2>14, <3>1
      <3>3. (L + (n - a)) + 1 = L + (n - (a - 1))
        <4>1. L \in Nat /\ n \in Nat /\ a \in Nat
          BY <1>1, <1>3, <2>3
        <4> QED
          BY ONLY <4>1
      <3> QED
        BY ONLY <3>2, <3>3
    <2>12. n > b => Len(g) >= L + (b - (a - 1))
      <3>0. n \in Int /\ a \in Int /\ b \in Int
        BY <1>1, <2>3
      <3>1. n > b => n - 1 > b \/ (n - 1 <= b /\ n - a = b - (a - 1))
        BY ONLY <3>0
      <3>2. n > b => Len(f) >= L + (b - (a - 1))
        <4>1. L + (b - (a - 1)) \in Int
          BY <1>1, <1>3
        <4>2. n > b /\ n - 1 <= b => Len(f) = L + (b - (a - 1))
          <5>1. n - 1 <= b => Len(f) = L + (n - a)
            BY <2>6
          <5>2. n > b /\ n - 1 <= b => n - a = b - (a - 1)
            BY ONLY <3>0
          <5> QED
            BY ONLY <5>1, <5>2
        <4>3. n > b /\ n - 1 > b => Len(f) >= L + (b - (a - 1))
          BY <2>6
        <4> QED
          BY ONLY <3>1, <4>1, <4>2, <4>3
      <3>3. Len(g) >= Len(f) /\ Len(g) \in Nat /\ Len(f) \in Nat
        BY <2>7
      <3> QED
        BY <1>1, <1>3, <3>2, <3>3
    <2>13. Good(n)
      BY <2>8, <2>11, <2>12, Zenon DEF g, L
    <2> QED
      BY <2>10, <2>13
  <1>5. Good(N)
    <2>1. N \in a - 1..N
      BY <1>1
    <2> QED
      BY <1>4, <2>1
  <1> DEFINE c == L + 1
  <1>6. /\ Len(F[N]) >= L + (b - (a - 1))
        /\ \A j \in 0..b - a : F[N][L + 1 + j] = s[a + j]
    <2> HIDE DEF L, Bad
    <2>1. N <= b => N = b
      BY <1>1
    <2>2. N <= b => Len(F[N]) = L + (b - (a - 1))
      BY <1>5, <2>1
    <2>3. N > b => Len(F[N]) >= L + (b - (a - 1))
      BY <1>5
    <2>4. N <= b \/ N > b
      BY <1>1
    <2>5. Len(F[N]) >= L + (b - (a - 1))
      BY <1>1, <1>3, <2>2, <2>3, <2>4
    <2>6. \A j \in 0..b - a : a + j <= N
      BY <1>1
    <2> QED
      BY <1>5, <2>5, <2>6
  <1> HIDE DEF L, Good, Bad
  <1>7. /\ c \in Nat \ {0} /\ c + (b - a) <= Len(F[N])
        /\ \A j \in 0..b - a : F[N][c + j] = s[a + j]
    <2>1. Len(F[N]) \in Nat
      <3>1. N \in 0..N
        BY <1>1
      <3> QED
        BY <1>2, <3>1
    <2> QED
      BY <1>1, <1>3, <1>6, <2>1
  <1> HIDE DEF c
  <1> QED
    BY <1>2, <1>7 DEF InARow
=============================================================================
