-------------------------- MODULE Questions_proofs --------------------------
(***************************************************************************)
(* What the proofs about the decision procedures rest on: induction, the   *)
(* existence of a function that is defined by recursion, and the two       *)
(* operators of Questions that are so defined, OnlyIn and Reach.           *)
(*                                                                         *)
(* A definition f[n \in S] == e stands for CHOOSE f : f = [n \in S |-> e].  *)
(* To use its equations one has to show that some function satisfies them. *)
(***************************************************************************)
EXTENDS Questions, Integers, FiniteSetTheorems, WellFoundedInduction, TLAPS

(* A set of naturals that has an element has a least one: < on Nat is well  *)
(* founded.                                                                 *)
LEMMA LeastNatural ==
  ASSUME NEW T \in SUBSET Nat, T # {}
  PROVE  \E n \in T : \A m \in T : n <= m
<1> DEFINE R == OpToRel(<, Nat)
<1>1. IsWellFoundedOn(R, Nat)
  BY NatLessThanWellFounded
<1> HIDE DEF R
<1>2. PICK n \in T : \A m \in T : <<m, n>> \notin R
  BY <1>1, WFMin
<1>3. \A m \in T : ~(m < n)
  BY <1>2 DEF R, OpToRel
<1> QED BY <1>3

(* And one that is bounded has a greatest.                                   *)
LEMMA GreatestNatural ==
  ASSUME NEW T \in SUBSET Nat, T # {}, NEW N \in Nat, \A n \in T : n <= N
  PROVE  \E n \in T : \A m \in T : m <= n
<1> DEFINE R == {N - n : n \in T}
<1>1. R \in SUBSET Nat /\ R # {}
  OBVIOUS
<1> HIDE DEF R
<1>2. PICK r \in R : \A q \in R : r <= q
  BY <1>1, LeastNatural
<1>3. PICK n \in T : r = N - n
  BY <1>2 DEF R
<1>4. ASSUME NEW m \in T PROVE m <= n
  <2>1. N - m \in R
    BY DEF R
  <2> QED BY <1>2, <1>3, <2>1
<1> QED BY <1>4

(* A set that has 0 and, with a number, the next has every natural. The set *)
(* stands for the predicate of an induction, for a lemma that takes an      *)
(* operator as a parameter cannot be used.                                  *)
LEMMA Induction ==
  ASSUME NEW S, 0 \in S, \A n \in S \cap Nat : n + 1 \in S
  PROVE  Nat \subseteq S
<1> SUFFICES ASSUME Nat \ S # {} PROVE FALSE
  OBVIOUS
<1>1. PICK n \in Nat \ S : \A m \in Nat \ S : n <= m
  BY LeastNatural
<1>2. n # 0 /\ n - 1 \in Nat /\ n - 1 \notin Nat \ S
  BY <1>1
<1>3. n - 1 \in S \cap Nat /\ (n - 1) + 1 = n
  BY <1>1, <1>2
<1>4. n \in S
  BY <1>3
<1> QED BY <1>1, <1>4

(* f is the first N iterates of step from base.                             *)
Iterates(f, V, base, step, N) ==
    /\ f \in [0..N -> V]
    /\ f[0] = base
    /\ \A d \in 1..N : f[d] = step[f[d - 1]]

(* They exist: what a recursive definition over 0..N needs to have a value. *)
LEMMA Iteration ==
  ASSUME NEW V, NEW base \in V, NEW step \in [V -> V], NEW N \in Nat
  PROVE  \E f : Iterates(f, V, base, step, N)
<1> DEFINE Good(f, k) == f[0] = base /\ \A d \in 1..k : f[d] = step[f[d - 1]]
           S == {k \in Nat : \E f \in [0..k -> V] : Good(f, k)}
<1>1. 0 \in S
  <2> DEFINE f == [d \in 0..0 |-> base]
  <2>1. f \in [0..0 -> V] /\ Good(f, 0)
    OBVIOUS
  <2> QED BY <2>1
<1>2. ASSUME NEW k \in S \cap Nat PROVE k + 1 \in S
  <2>1. PICK f \in [0..k -> V] : Good(f, k)
    OBVIOUS
  <2> DEFINE g == [d \in 0..(k + 1) |-> IF d <= k THEN f[d] ELSE step[f[k]]]
  <2>2. k \in Nat /\ f[k] \in V
    OBVIOUS
  <2>3. g \in [0..(k + 1) -> V]
    BY <2>2
  <2>4. g[0] = base
    BY <2>1, <2>2
  <2>5. ASSUME NEW d \in 1..(k + 1) PROVE g[d] = step[g[d - 1]]
    <3>1. g[d - 1] = f[d - 1]
      BY <2>2
    <3>2. CASE d <= k
      <4>1. d \in 1..k /\ g[d] = f[d]
        BY <2>2, <3>2
      <4> QED BY <2>1, <3>1, <4>1
    <3>3. CASE d = k + 1
      BY <2>2, <3>1, <3>3
    <3> QED BY <2>2, <3>2, <3>3
  <2> HIDE DEF g
  <2>6. \E h \in [0..(k + 1) -> V] : Good(h, k + 1)
    BY <2>3, <2>4, <2>5
  <2> QED BY <2>2, <2>6
<1> HIDE DEF S
<1>3. N \in S
  BY <1>1, <1>2, Induction
<1> QED BY <1>3 DEF S, Iterates

(* OnlyIn satisfies the equations it is defined by.                         *)
LEMMA OnlyInDef ==
  ASSUME NEW V, NEW s \in Seq(V), NEW T
  PROVE  \E F : /\ OnlyIn(s, T) = F[Len(s)]
                /\ F[0] = << >>
                /\ \A i \in 1..Len(s) :
                     F[i] = IF s[i] \in T THEN Append(F[i - 1], s[i]) ELSE F[i - 1]
<1> DEFINE N == Len(s)
           Body(g) == [i \in 0..N |->
              IF i = 0 THEN << >>
              ELSE IF s[i] \in T THEN Append(g[i - 1], s[i]) ELSE g[i - 1]]
           Good(g, k) == /\ g[0] = << >>
                         /\ \A i \in 1..k :
                              g[i] = IF s[i] \in T THEN Append(g[i - 1], s[i]) ELSE g[i - 1]
           S == {k \in Nat : k <= N => \E g : g = [i \in 0..k |-> g[i]] /\ Good(g, k)}
<1>1. N \in Nat
  OBVIOUS
<1>2. 0 \in S
  <2> DEFINE g == [i \in 0..0 |-> << >>]
  <2>1. g = [i \in 0..0 |-> g[i]] /\ Good(g, 0)
    OBVIOUS
  <2> HIDE DEF g
  <2> QED BY <2>1
<1>3. ASSUME NEW k \in S \cap Nat PROVE k + 1 \in S
  <2>1. CASE k + 1 > N
    BY <2>1, <1>1
  <2>2. CASE k + 1 <= N
    <3>1. PICK g : g = [i \in 0..k |-> g[i]] /\ Good(g, k)
      BY <2>2, <1>1
    <3> DEFINE h == [i \in 0..(k + 1) |-> IF i <= k THEN g[i]
                       ELSE IF s[k + 1] \in T THEN Append(g[k], s[k + 1]) ELSE g[k]]
    <3>2. h = [i \in 0..(k + 1) |-> h[i]]
      OBVIOUS
    <3>3. h[0] = << >>
      BY <3>1
    <3>4. ASSUME NEW i \in 1..(k + 1)
          PROVE  h[i] = IF s[i] \in T THEN Append(h[i - 1], s[i]) ELSE h[i - 1]
      <4>1. h[i - 1] = g[i - 1]
        OBVIOUS
      <4>2. CASE i <= k
        <5>1. i \in 1..k /\ h[i] = g[i]
          BY <4>2
        <5> HIDE DEF h
        <5> QED BY <3>1, <4>1, <5>1
      <4>3. CASE i = k + 1
        <5>1. h[i] = IF s[k + 1] \in T THEN Append(g[k], s[k + 1]) ELSE g[k]
          BY <4>3
        <5> HIDE DEF h
        <5> QED BY <4>1, <4>3, <5>1
      <4> QED BY <4>2, <4>3
    <3> HIDE DEF h
    <3>5. Good(h, k + 1)
      BY <3>3, <3>4
    <3> HIDE DEF Good
    <3> QED BY <3>2, <3>5
  <2> QED BY <2>1, <2>2, <1>1
<1> HIDE DEF S
<1>4. N \in S
  BY <1>1, <1>2, <1>3, Induction
<1>5. PICK g : g = [i \in 0..N |-> g[i]] /\ Good(g, N)
  BY <1>1, <1>4 DEF S
<1>6. g = Body(g)
  <2>1. ASSUME NEW i \in 0..N PROVE g[i] = Body(g)[i]
    BY <1>1, <1>5
  <2>2. Body(g) = [i \in 0..N |-> Body(g)[i]]
    OBVIOUS
  <2> HIDE DEF Body
  <2> QED BY <1>5, <2>1, <2>2
<1> DEFINE F == CHOOSE f : f = Body(f)
<1> HIDE DEF Body
<1>7. F = Body(F)
  BY <1>6
<1> HIDE DEF F
<1>8. \A i \in 0..N : F[i] = Body(F)[i]
  BY <1>7, Zenon
<1>9. Good(F, N)
  BY <1>1, <1>8 DEF Body
<1>10. OnlyIn(s, T) = F[N]
  BY DEF OnlyIn, F, Body
<1> QED BY <1>9, <1>10

(* OnlyIn keeps only elements that are in T, never has more of them than    *)
(* there were, and when it drops none it is the sequence.                   *)
LEMMA OnlyInFacts ==
  ASSUME NEW V, NEW s \in Seq(V), NEW T
  PROVE  /\ OnlyIn(s, T) \in Seq({s[i] : i \in DOMAIN s} \cap T)
         /\ Len(OnlyIn(s, T)) <= Len(s)
         /\ Len(OnlyIn(s, T)) = Len(s) =>
               OnlyIn(s, T) = s /\ \A i \in DOMAIN s : s[i] \in T
<1> DEFINE N == Len(s)
           R == {s[i] : i \in DOMAIN s} \cap T
<1>1. N \in Nat /\ DOMAIN s = 1..N
  OBVIOUS
<1>2. PICK F : /\ OnlyIn(s, T) = F[N]
               /\ F[0] = << >>
               /\ \A i \in 1..N :
                    F[i] = IF s[i] \in T THEN Append(F[i - 1], s[i]) ELSE F[i - 1]
  BY OnlyInDef
<1> DEFINE Fine(i) ==
      /\ F[i] \in Seq(R) /\ Len(F[i]) <= i
      /\ Len(F[i]) = i => \A j \in 1..i : F[i][j] = s[j] /\ s[j] \in T
    S == {i \in Nat : i <= N => Fine(i)}
<1>3. 0 \in S
  <2>1. F[0] \in Seq(R) /\ Len(F[0]) = 0
    <3> HIDE DEF R
    <3> QED BY <1>2
  <2>2. Fine(0)
    BY <2>1
  <2> QED BY <2>2
<1>4. ASSUME NEW i \in S \cap Nat PROVE i + 1 \in S
  <2>1. CASE i + 1 > N
    BY <2>1, <1>1
  <2>2. CASE i + 1 <= N
    <3>1. Fine(i) /\ i \in Nat
      BY <2>2, <1>1
    <3>2. i + 1 \in 1..N /\ (i + 1) - 1 = i
      BY <2>2, <1>1
    <3>3. CASE s[i + 1] \in T
      <4>1. F[i + 1] = Append(F[i], s[i + 1])
        BY <1>2, <3>2, <3>3
      <4>2. s[i + 1] \in R
        BY <1>1, <3>2, <3>3
      <4> HIDE DEF R
      <4>3. Append(F[i], s[i + 1]) \in Seq(R) /\ Len(Append(F[i], s[i + 1])) = Len(F[i]) + 1
        BY <3>1, <4>2
      <4>4. ASSUME Len(F[i + 1]) = i + 1, NEW j \in 1..(i + 1)
            PROVE  F[i + 1][j] = s[j] /\ s[j] \in T
        <5>1. Len(F[i]) = i /\ F[i] \in Seq(R)
          BY <4>1, <4>3, <4>4, <3>1
        <5>2. CASE j <= i
          BY <5>1, <5>2, <3>1, <4>1
        <5>3. CASE j = i + 1
          BY <5>1, <5>3, <3>1, <3>3, <4>1
        <5> QED BY <5>2, <5>3, <3>1
      <4>5. Fine(i + 1)
        BY <3>1, <4>1, <4>3, <4>4
      <4> QED BY <4>5
    <3>4. CASE s[i + 1] \notin T
      <4>1. F[i + 1] = F[i]
        BY <1>2, <3>2, <3>4
      <4>2. Fine(i + 1)
        BY <3>1, <4>1
      <4> QED BY <4>2
    <3> QED BY <3>3, <3>4
  <2> QED BY <2>1, <2>2, <1>1
<1> HIDE DEF S
<1>5. N \in S
  BY <1>1, <1>3, <1>4, Induction
<1>6. Fine(N)
  BY <1>1, <1>5 DEF S
<1>7. ASSUME Len(F[N]) = N PROVE F[N] = s
  <2> DEFINE q == F[N]
  <2>1. q \in Seq(R) /\ Len(q) = N /\ \A j \in 1..N : q[j] = s[j]
    BY <1>6, <1>7
  <2> HIDE DEF q
  <2>2. q = [j \in 1..N |-> q[j]] /\ s = [j \in 1..N |-> s[j]]
    BY <2>1
  <2>3. q = s
    BY <2>1, <2>2
  <2> QED BY <2>3 DEF q
<1> QED BY <1>1, <1>2, <1>6, <1>7

(* An element of the sequence that is in T is kept.                         *)
LEMMA OnlyInKeeps ==
  ASSUME NEW V, NEW s \in Seq(V), NEW T, NEW i \in DOMAIN s, s[i] \in T
  PROVE  \E m \in DOMAIN OnlyIn(s, T) : OnlyIn(s, T)[m] = s[i]
<1> DEFINE N == Len(s)
<1>1. N \in Nat /\ DOMAIN s = 1..N
  OBVIOUS
<1>2. PICK F : /\ OnlyIn(s, T) = F[N]
               /\ F[0] = << >>
               /\ \A k \in 1..N :
                    F[k] = IF s[k] \in T THEN Append(F[k - 1], s[k]) ELSE F[k - 1]
  BY OnlyInDef
<1> DEFINE Fine(k) == F[k] \in Seq(V) /\ (i <= k => \E m \in 1..Len(F[k]) : F[k][m] = s[i])
           S == {k \in Nat : k <= N => Fine(k)}
<1>3. 0 \in S
  <2>1. Fine(0)
    BY <1>1, <1>2
  <2> QED BY <2>1
<1>4. ASSUME NEW k \in S \cap Nat PROVE k + 1 \in S
  <2>1. CASE k + 1 > N
    BY <2>1, <1>1
  <2>2. CASE k + 1 <= N
    <3>1. Fine(k) /\ k \in Nat
      BY <2>2, <1>1
    <3> HIDE DEF Fine
    <3>2. k + 1 \in 1..N /\ (k + 1) - 1 = k /\ s[k + 1] \in V
      BY <2>2, <1>1
    <3>3. CASE s[k + 1] \in T
      <4>1. F[k + 1] = Append(F[k], s[k + 1])
        BY <1>2, <3>2, <3>3
      <4>2. /\ F[k + 1] \in Seq(V) /\ Len(F[k + 1]) = Len(F[k]) + 1 /\ Len(F[k]) \in Nat
            /\ F[k + 1][Len(F[k]) + 1] = s[k + 1]
            /\ \A m \in 1..Len(F[k]) : F[k + 1][m] = F[k][m]
        BY <3>1, <3>2, <4>1 DEF Fine
      <4>3. i <= k + 1 => i <= k \/ i = k + 1
        BY <1>1, <3>1
      <4>4. Fine(k + 1)
        BY <3>1, <4>2, <4>3, SMTT(20) DEF Fine
      <4> QED BY <4>4
    <3>4. CASE s[k + 1] \notin T
      <4>1. F[k + 1] = F[k] /\ i # k + 1
        BY <1>2, <3>2, <3>4
      <4>2. Fine(k + 1)
        BY <1>1, <3>1, <4>1 DEF Fine
      <4> QED BY <4>2
    <3> QED BY <3>3, <3>4
  <2> QED BY <2>1, <2>2, <1>1
<1> HIDE DEF S
<1>5. N \in S
  BY <1>1, <1>3, <1>4, Induction
<1>6. Fine(N)
  BY <1>1, <1>5 DEF S
<1> QED BY <1>1, <1>2, <1>6

(* Reach satisfies the equations it is defined by.                          *)
LEMMA ReachDef ==
  ASSUME NEW start, NEW next, IsFiniteSet(DOMAIN next)
  PROVE  \E Up : /\ Reach(start, next) = Up[Cardinality(DOMAIN next)]
                 /\ Up[0] = start
                 /\ \A d \in 1..Cardinality(DOMAIN next) :
                      Up[d] = Up[d - 1] \cup
                                UNION {next[x] : x \in Up[d - 1] \cap DOMAIN next}
<1> DEFINE N == Cardinality(DOMAIN next)
           V == SUBSET (start \cup UNION {next[x] : x \in DOMAIN next})
           more(v) == v \cup UNION {next[x] : x \in v \cap DOMAIN next}
           step == [v \in V |-> more(v)]
           Body(g) == [d \in 0..N |-> IF d = 0 THEN start ELSE more(g[d - 1])]
<1>1. N \in Nat
  BY FS_CardinalityType
<1>2. start \in V
  OBVIOUS
<1>3. step \in [V -> V]
  OBVIOUS
<1> HIDE DEF V, step
<1>4. PICK f : Iterates(f, V, start, step, N)
  BY <1>1, <1>2, <1>3, Iteration
<1>5. /\ f \in [0..N -> V]
      /\ f[0] = start
      /\ \A d \in 1..N : f[d] = step[f[d - 1]]
  BY <1>4 DEF Iterates
<1>6. f = Body(f)
  <2>1. ASSUME NEW d \in 0..N PROVE f[d] = Body(f)[d]
    <3>1. CASE d = 0
      BY <1>5, <3>1
    <3>2. CASE d # 0
      <4>1. d \in 1..N /\ f[d - 1] \in V /\ f[d] = step[f[d - 1]]
        BY <1>1, <1>5, <3>2
      <4>2. f[d] = more(f[d - 1])
        BY <4>1 DEF step
      <4> HIDE DEF more
      <4> QED BY <3>2, <4>2
    <3> QED BY <3>1, <3>2
  <2>2. f = [d \in 0..N |-> f[d]]
    BY <1>5
  <2>3. Body(f) = [d \in 0..N |-> Body(f)[d]]
    OBVIOUS
  <2> HIDE DEF Body
  <2> QED BY <2>1, <2>2, <2>3
<1> DEFINE F == CHOOSE g : g = Body(g)
<1> HIDE DEF Body
<1>7. F = Body(F)
  BY <1>6
<1> HIDE DEF F
<1>8. \A d \in 0..N : F[d] = Body(F)[d]
  BY <1>7, Zenon
<1>9. F[0] = start /\ \A d \in 1..N : F[d] = more(F[d - 1])
  <2> HIDE DEF more
  <2> QED BY <1>1, <1>8 DEF Body
<1>10. Reach(start, next) = F[N]
  BY DEF Reach, F, Body
<1> QED BY <1>9, <1>10

(* Cardinality(DOMAIN next) rounds are enough: what Reach has found leads   *)
(* nowhere else, for each round either adds nothing, which ends the search, *)
(* or takes in one more element of DOMAIN next.                             *)
LEMMA ReachIsClosed ==
  ASSUME NEW start, NEW next, IsFiniteSet(DOMAIN next)
  PROVE  /\ start \subseteq Reach(start, next)
         /\ \A x \in Reach(start, next) \cap DOMAIN next :
               next[x] \subseteq Reach(start, next)
<1> DEFINE N == Cardinality(DOMAIN next)
           more(v) == v \cup UNION {next[x] : x \in v \cap DOMAIN next}
           Closed(v) == \A x \in v \cap DOMAIN next : next[x] \subseteq v
<1>1. N \in Nat
  BY FS_CardinalityType
<1>2. PICK Up : /\ Reach(start, next) = Up[N]
                  /\ Up[0] = start
                  /\ \A d \in 1..N : Up[d] = more(Up[d - 1])
  BY ReachDef
<1> DEFINE Fine(d) == /\ start \subseteq Up[d]
                      /\ \/ Closed(Up[d])
                         \/ Cardinality(Up[d] \cap DOMAIN next) >= d + 1
           S == {d \in Nat : d <= N => Fine(d)}
<1>3. ASSUME NEW v PROVE /\ IsFiniteSet(v \cap DOMAIN next)
                         /\ Cardinality(v \cap DOMAIN next) \in Nat
                         /\ Cardinality(v \cap DOMAIN next) <= N
                         /\ Cardinality(v \cap DOMAIN next) = 0 => v \cap DOMAIN next = {}
  <2>1. v \cap DOMAIN next \subseteq DOMAIN next
    OBVIOUS
  <2>2. IsFiniteSet(v \cap DOMAIN next) /\ Cardinality(v \cap DOMAIN next) <= N
    BY <2>1, FS_Subset
  <2> QED BY <2>2, FS_CardinalityType, FS_EmptySet
<1>4. 0 \in S
  <2>1. CASE start \cap DOMAIN next = {}
    BY <1>2, <2>1
  <2>2. CASE start \cap DOMAIN next # {}
    <3>1. Cardinality(start \cap DOMAIN next) >= 1
      BY <1>3, <2>2
    <3> QED BY <1>2, <3>1
  <2> QED BY <2>1, <2>2
<1>5. ASSUME NEW d \in S \cap Nat PROVE d + 1 \in S
  <2>1. d \in Nat /\ (d <= N => Fine(d))
    <3> HIDE DEF S
    <3>1. d \in S /\ d \in Nat
      OBVIOUS
    <3> QED BY <3>1 DEF S
  <2> HIDE DEF S
  <2> SUFFICES ASSUME d + 1 <= N PROVE Fine(d + 1)
    BY <2>1 DEF S
  <2>2. Fine(d) /\ Up[d + 1] = more(Up[d])
    BY <1>1, <1>2, <2>1
  <2>3. start \subseteq Up[d + 1] /\ Up[d] \subseteq Up[d + 1]
    BY <2>2
  <2>4. CASE Closed(Up[d])
    <3>1. Up[d + 1] = Up[d]
      BY <2>2, <2>4
    <3> QED BY <2>3, <2>4, <3>1
  <2>5. CASE Cardinality(Up[d] \cap DOMAIN next) >= d + 1
    <3> DEFINE was == Up[d] \cap DOMAIN next
               is == Up[d + 1] \cap DOMAIN next
    <3>1. CASE is = was
      <4>1. Closed(Up[d + 1])
        BY <2>2, <3>1
      <4> QED BY <2>3, <4>1
    <3>2. CASE is # was
      <4>1. was \subseteq is
        BY <2>3
      <4>2. IsFiniteSet(is) /\ Cardinality(is) \in Nat /\ Cardinality(was) \in Nat
        BY <1>3
      <4> HIDE DEF was, is
      <4>3. Cardinality(was) <= Cardinality(is)
            /\ (Cardinality(was) = Cardinality(is) => was = is)
        BY <4>1, <4>2, FS_Subset
      <4>4. Cardinality(is) >= d + 2
        BY <2>1, <2>5, <3>2, <4>2, <4>3 DEF was
      <4>5. Cardinality(Up[d + 1] \cap DOMAIN next) >= (d + 1) + 1
        BY <2>1, <4>2, <4>4 DEF is
      <4> QED BY <2>3, <4>5
    <3> QED BY <3>1, <3>2
  <2> QED BY <2>2, <2>4, <2>5
<1> HIDE DEF S
<1>6. N \in S
  BY <1>1, <1>4, <1>5, Induction
<1>7. Fine(N)
  BY <1>1, <1>6 DEF S
<1>8. ~(Cardinality(Up[N] \cap DOMAIN next) >= N + 1)
  <2> DEFINE c == Cardinality(Up[N] \cap DOMAIN next)
  <2>1. c \in Nat /\ c <= N
    BY <1>3
  <2> HIDE DEF c, N
  <2>2. ~(c >= N + 1)
    BY <1>1, <2>1
  <2> QED BY <2>2 DEF c
<1>9. start \subseteq Up[N] /\ Closed(Up[N])
  BY <1>7, <1>8
<1>10. Reach(start, next) = Up[N]
  BY <1>2
<1> HIDE DEF N, more
<1>11. start \subseteq Reach(start, next) /\ Closed(Reach(start, next))
  <2> HIDE DEF Closed
  <2> QED BY <1>9, <1>10
<1> QED BY <1>11

(* Reach finds nothing but what every closed set that holds start has.      *)
LEMMA ReachIsLeast ==
  ASSUME NEW start, NEW next, IsFiniteSet(DOMAIN next), NEW C, start \subseteq C,
         \A x \in C \cap DOMAIN next : next[x] \subseteq C
  PROVE  Reach(start, next) \subseteq C
<1> DEFINE N == Cardinality(DOMAIN next)
           more(v) == v \cup UNION {next[x] : x \in v \cap DOMAIN next}
<1>1. N \in Nat
  BY FS_CardinalityType
<1>2. PICK Up : /\ Reach(start, next) = Up[N]
                /\ Up[0] = start
                /\ \A d \in 1..N : Up[d] = more(Up[d - 1])
  BY ReachDef
<1> DEFINE S == {d \in Nat : d <= N => Up[d] \subseteq C}
<1>3. 0 \in S
  BY <1>2
<1>4. ASSUME NEW d \in S \cap Nat PROVE d + 1 \in S
  <2>1. d \in Nat /\ (d <= N => Up[d] \subseteq C)
    <3> HIDE DEF S
    <3>1. d \in S /\ d \in Nat
      OBVIOUS
    <3> QED BY <3>1 DEF S
  <2> HIDE DEF S
  <2> SUFFICES ASSUME d + 1 <= N PROVE Up[d + 1] \subseteq C
    BY <2>1 DEF S
  <2>2. Up[d] \subseteq C /\ Up[d + 1] = more(Up[d])
    BY <1>1, <1>2, <2>1
  <2> QED BY <2>2
<1> HIDE DEF S
<1>5. N \in S
  BY <1>1, <1>3, <1>4, Induction
<1> QED BY <1>1, <1>2, <1>5 DEF S
=============================================================================
