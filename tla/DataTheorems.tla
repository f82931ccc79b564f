---------------------------- MODULE DataTheorems ----------------------------
(***************************************************************************)
(* Sums over finite sets as MapThenSumSet of the community modules folds   *)
(* them: what a member adds, and that nothing else counts.  Selections     *)
(* from sequences: each position that passes, in their order.  Loops: what *)
(* every round keeps.  And what sequences put together have.               *)
(*                                                                         *)
(* Both are recursive functions, over the subsets of a set and over the    *)
(* numbers up to one.  Facts about them are proved from a smallest         *)
(* counterexample: the strict order of the subsets of a finite set is      *)
(* well-founded, so any non-empty set of them has a minimal one            *)
(* (SmallestSet), and so has a set of numbers (SmallestNumber).            *)
(***************************************************************************)
EXTENDS Integers, FiniteSetsExt, SequencesExt, Selections,
        FiniteSetTheorems, WellFoundedInduction, TLAPS

(* The sum of g over S, as the fold computes it, and the member it takes.  *)
SumOf(g, S) == MapThenSumSet(LAMBDA x : g[x], S)
Chosen(s)    == CHOOSE x \in s : TRUE

(* it is what the fold computes for each subset of S...                    *)
Sums(it, g, S) ==
  it = [s \in SUBSET S |-> IF s = {} THEN 0 ELSE g[Chosen(s)] + it[s \ {Chosen(s)}]]

(* ... and for one of them.                                                *)
Adds(it, g, s) ==
  /\ s = {} => it[s] = 0
  /\ s # {} => it[s] = g[Chosen(s)] + it[s \ {Chosen(s)}]

-----------------------------------------------------------------------------
(* A set of subsets of a finite set has one that holds no other of them.   *)
LEMMA SmallestSet ==
  ASSUME NEW S, IsFiniteSet(S), NEW C, C \subseteq SUBSET S, C # {}
  PROVE  \E T \in C : \A U \in C : U \subseteq T => U = T
<1>1. FiniteSubsetsOf(S) = SUBSET S
  BY FS_FiniteSubsetsOfFinite
<1>2. \E T \in C : \A U \in C : ~ (<<U, T>> \in StrictSubsetOrdering(S))
  BY <1>1, FS_StrictSubsetOrderingWellFounded, WFMin
<1>3. QED
  BY <1>2 DEF StrictSubsetOrdering

(* The fold takes a member.                                                *)
LEMMA ChosenIsIn == \A s : s # {} => Chosen(s) \in s
BY DEF Chosen

(* The recursion, unfolded once.                                           *)
LEMMA SumsAt ==
  ASSUME NEW g, NEW S, NEW it, Sums(it, g, S), NEW s \in SUBSET S
  PROVE  Adds(it, g, s)
BY DEF Sums, Adds

(* The recursion has one solution, which larger sets share.                *)
LEMMA SumsOnce ==
  ASSUME NEW g, NEW S, IsFiniteSet(S), NEW it, Sums(it, g, S),
         NEW T, S \subseteq T, NEW jt, Sums(jt, g, T)
  PROVE  \A s \in SUBSET S : it[s] = jt[s]
<1> DEFINE C == {s \in SUBSET S : it[s] # jt[s]}
<1> SUFFICES ASSUME C # {} PROVE FALSE
  OBVIOUS
<1>1. PICK s \in SUBSET S : s \in C /\ \A u \in C : u \subseteq s => u = s
  <2>1. C \subseteq SUBSET S
    OBVIOUS
  <2> HIDE DEF C
  <2>2. QED
    BY <2>1, SmallestSet
<1>2. Adds(it, g, s)
  BY SumsAt
<1>3. Adds(jt, g, s)
  <2>1. s \in SUBSET T
    OBVIOUS
  <2>2. QED
    BY <2>1, SumsAt
<1>4. s # {}
  BY <1>1, <1>2, <1>3 DEF Adds
<1>5. s \ {Chosen(s)} \notin C
  BY <1>1, <1>4, ChosenIsIn
<1>6. QED
  BY <1>1, <1>2, <1>3, <1>4, <1>5 DEF Adds

(* Cut down to a part, a solution is one for the part.                     *)
LEMMA SumsOfPart ==
  ASSUME NEW g, NEW S, NEW it, Sums(it, g, S), NEW T \in SUBSET S
  PROVE  Sums([s \in SUBSET T |-> it[s]], g, T)
<1> DEFINE jt == [s \in SUBSET T |-> it[s]]
<1>1. ASSUME NEW s \in SUBSET T
      PROVE  Adds(jt, g, s)
  <2>1. Adds(it, g, s)
    <3> HIDE DEF jt
    <3>1. s \in SUBSET S
      OBVIOUS
    <3>2. QED
      BY <3>1, SumsAt
  <2>2. jt[s] = it[s] /\ jt[s \ {Chosen(s)}] = it[s \ {Chosen(s)}]
    OBVIOUS
  <2> HIDE DEF jt
  <2>3. QED
    BY <2>1, <2>2 DEF Adds
<1>2. jt = [s \in SUBSET T |-> jt[s]]
  OBVIOUS
<1> HIDE DEF jt
<1>3. Sums(jt, g, T)
  BY <1>1, <1>2 DEF Sums, Adds
<1>4. QED
  BY <1>3 DEF jt

(* It has a solution for every finite set.                                 *)
LEMMA SumsExist ==
  ASSUME NEW g, NEW S, IsFiniteSet(S)
  PROVE  \E it : Sums(it, g, S)
<1> DEFINE C == {s \in SUBSET S : ~ \E it : Sums(it, g, s)}
           V(u) == (CHOOSE it : Sums(it, g, u))[u]
<1> SUFFICES ASSUME C # {} PROVE FALSE
  OBVIOUS
<1>1. PICK T \in SUBSET S : T \in C /\ \A u \in C : u \subseteq T => u = T
  <2>1. C \subseteq SUBSET S
    OBVIOUS
  <2> HIDE DEF C
  <2>2. QED
    BY <2>1, SmallestSet
<1>2. ASSUME NEW u \in SUBSET T, u # T
      PROVE  (u = {} => V(u) = 0) /\ (u # {} => V(u) = g[Chosen(u)] + V(u \ {Chosen(u)}))
  <2> DEFINE it == CHOOSE it : Sums(it, g, u)
             w == u \ {Chosen(u)}
             jt == CHOOSE jt : Sums(jt, g, w)
  <2>1. Sums(it, g, u)
    BY <1>1, <1>2
  <2>2. (u = {} => it[u] = 0) /\ (u # {} => it[u] = g[Chosen(u)] + it[w])
    BY <2>1, SumsAt DEF Adds
  <2>3. CASE u = {}
    BY <2>2, <2>3
  <2>4. CASE u # {}
    <3>1. w \in SUBSET T /\ w # T /\ w \subseteq u
      BY <1>2
    <3>2. Sums(jt, g, w)
      BY <1>1, <3>1
    <3>3. IsFiniteSet(w)
      BY <3>1, FS_Subset
    <3>4. jt[w] = it[w]
      <4> HIDE DEF it, jt, w
      <4>1. \A x \in SUBSET w : jt[x] = it[x]
        BY <2>1, <3>1, <3>2, <3>3, SumsOnce
      <4>2. QED
        BY <4>1
    <3>5. QED
      BY <2>2, <2>4, <3>4
  <2>5. QED
    BY <2>3, <2>4
<1> HIDE DEF V
<1> DEFINE it == [s \in SUBSET T |-> IF s = {} THEN 0 ELSE g[Chosen(s)] + V(s \ {Chosen(s)})]
<1>3. ASSUME NEW s \in SUBSET T
      PROVE  Adds(it, g, s)
  <2>1. CASE s = {}
    BY <2>1 DEF Adds
  <2>2. CASE s # {}
    <3> DEFINE u == s \ {Chosen(s)}
    <3>1. u \in SUBSET T /\ u # T
      BY <2>2, ChosenIsIn
    <3>2. (u = {} => V(u) = 0) /\ (u # {} => V(u) = g[Chosen(u)] + V(u \ {Chosen(u)}))
      BY <1>2, <3>1
    <3>3. it[u] = V(u)
      BY <3>1, <3>2
    <3>4. QED
      BY <2>2, <3>3 DEF Adds
  <2>3. QED
    BY <2>1, <2>2
<1>4. Sums(it, g, T)
  <2>1. it = [s \in SUBSET T |-> it[s]]
    OBVIOUS
  <2> HIDE DEF it
  <2>2. QED
    BY <1>3, <2>1 DEF Sums, Adds
<1>5. QED
  BY <1>1, <1>4

(* ... and just one.                                                       *)
LEMMA SumsUnique ==
  ASSUME NEW g, NEW S, IsFiniteSet(S), NEW it, Sums(it, g, S), NEW jt, Sums(jt, g, S)
  PROVE  it = jt
<1>1. \A s \in SUBSET S : it[s] = jt[s]
  <2>1. PICK T, kt : T = S /\ kt = jt
    OBVIOUS
  <2>2. S \subseteq T /\ Sums(kt, g, T)
    BY <2>1
  <2>3. \A s \in SUBSET S : it[s] = kt[s]
    BY <2>2, SumsOnce
  <2>4. QED
    BY <2>1, <2>3
<1>2. it = [s \in SUBSET S |-> it[s]]
  BY DEF Sums
<1>3. jt = [s \in SUBSET S |-> jt[s]]
  BY DEF Sums
<1>4. QED
  BY <1>1, <1>2, <1>3

(* So the fold is the sum.                                                 *)
LEMMA SumOfIs ==
  ASSUME NEW g, NEW S, IsFiniteSet(S), NEW T \in SUBSET S, NEW it, Sums(it, g, S)
  PROVE  SumOf(g, T) = it[T]
<1>1. PICK jt : Sums(jt, g, T) /\ jt = [s \in SUBSET T |-> it[s]]
  BY SumsOfPart
<1>2. IsFiniteSet(T)
  BY FS_Subset
<1>3. \A kt : Sums(kt, g, T) => kt = jt
  BY <1>1, <1>2, SumsUnique
<1>4. SumOf(g, T) = jt[T]
  BY <1>1, <1>3 DEF SumOf, MapThenSumSet, MapThenFoldSet, Sums, Chosen
<1>5. QED
  BY <1>1, <1>4

(* Nothing sums up to 0.                                                   *)
LEMMA SumEmpty == ASSUME NEW g PROVE SumOf(g, {}) = 0
<1>1. IsFiniteSet({})
  BY FS_EmptySet
<1>2. PICK it : Sums(it, g, {})
  BY <1>1, SumsExist
<1>3. it[{}] = 0
  BY <1>2, SumsAt DEF Adds
<1>4. QED
  BY <1>1, <1>2, <1>3, SumOfIs

(* Sums of integers are integers.                                          *)
LEMMA SumType ==
  ASSUME NEW S, IsFiniteSet(S), NEW g, \A x \in S : g[x] \in Int
  PROVE  SumOf(g, S) \in Int
<1>1. PICK it : Sums(it, g, S)
  BY SumsExist
<1> DEFINE C == {s \in SUBSET S : it[s] \notin Int}
<1>2. ASSUME C # {} PROVE FALSE
  <2>1. PICK s \in SUBSET S : s \in C /\ \A u \in C : u \subseteq s => u = s
    <3>1. C \subseteq SUBSET S
      OBVIOUS
    <3> HIDE DEF C
    <3>2. QED
      BY <3>1, <1>2, SmallestSet
  <2> HIDE DEF C
  <2>2. Adds(it, g, s)
    BY <1>1, SumsAt
  <2>3. it[s] \notin Int
    BY <2>1 DEF C
  <2>4. s # {}
    BY <2>2, <2>3 DEF Adds
  <2>5. Chosen(s) \in S /\ it[s \ {Chosen(s)}] \in Int
    BY <2>1, <2>4, ChosenIsIn DEF C
  <2>6. QED
    BY <2>2, <2>3, <2>4, <2>5 DEF Adds
<1>3. QED
  BY <1>1, <1>2, SumOfIs

(* One more member adds its share, whichever the fold takes first.         *)
LEMMA SumAdds ==
  ASSUME NEW S, IsFiniteSet(S), NEW g, \A x \in S : g[x] \in Int,
         NEW y \in S
  PROVE  SumOf(g, S) = SumOf(g, S \ {y}) + g[y]
<1>1. PICK it : Sums(it, g, S)
  BY SumsExist
<1>2. \A s \in SUBSET S : it[s] \in Int
  <2> SUFFICES ASSUME NEW s \in SUBSET S PROVE it[s] \in Int
    OBVIOUS
  <2>1. IsFiniteSet(s)
    BY FS_Subset
  <2>2. QED
    BY <1>1, <2>1, SumType, SumOfIs
<1> DEFINE C == {s \in SUBSET S : \E x \in s : it[s] # it[s \ {x}] + g[x]}
<1>3. ASSUME C # {} PROVE FALSE
  <2>1. PICK s \in SUBSET S : s \in C /\ \A u \in C : u \subseteq s => u = s
    <3>1. C \subseteq SUBSET S
      OBVIOUS
    <3> HIDE DEF C
    <3>2. QED
      BY <3>1, <1>3, SmallestSet
  <2> HIDE DEF C
  <2>2. PICK x \in s : it[s] # it[s \ {x}] + g[x]
    BY <2>1 DEF C
  <2> DEFINE z == Chosen(s)
  <2>3. z \in s /\ it[s] = g[z] + it[s \ {z}]
    <3>1. s # {} /\ z \in s
      BY ChosenIsIn
    <3>2. QED
      BY <1>1, <3>1, SumsAt DEF z, Adds
  <2> HIDE DEF z
  <2>9. g[x] \in Int /\ g[z] \in Int /\ it[(s \ {z}) \ {x}] \in Int /\ it[s \ {z}] \in Int
    BY <1>2, <2>3
  <2>4. ASSUME x = z PROVE FALSE
    <3>1. it[s] = it[s \ {x}] + g[x]
      BY <2>3, <2>4, <2>9
    <3>2. QED
      BY <2>2, <3>1
  <2>5. s \ {z} \notin C /\ s \ {x} \notin C
    BY <2>1, <2>3, <2>4
  <2>6. it[s \ {z}] = it[(s \ {z}) \ {x}] + g[x]
    BY <2>3, <2>4, <2>5 DEF C
  <2>7. it[s \ {x}] = it[(s \ {x}) \ {z}] + g[z]
    BY <2>3, <2>4, <2>5 DEF C
  <2>8. (s \ {x}) \ {z} = (s \ {z}) \ {x}
    OBVIOUS
  <2>10. QED
    <3>1. it[(s \ {x}) \ {z}] = it[(s \ {z}) \ {x}]
      BY <2>8
    <3>2. QED
      BY <2>2, <2>3, <2>6, <2>7, <2>9, <3>1
<1>4. it[S] = it[S \ {y}] + g[y]
  BY <1>3
<1>5. QED
  BY <1>1, <1>4, SumOfIs

(* What is outside of the set does not count.                              *)
LEMMA SumSame ==
  ASSUME NEW S, IsFiniteSet(S), NEW g, NEW k, \A x \in S : g[x] = k[x]
  PROVE  SumOf(g, S) = SumOf(k, S)
<1>1. PICK it : Sums(it, g, S)
  BY SumsExist
<1>2. Sums(it, k, S)
  <2>1. ASSUME NEW s \in SUBSET S
        PROVE  Adds(it, k, s)
    BY <1>1, SumsAt, ChosenIsIn DEF Adds
  <2>2. it = [s \in SUBSET S |-> it[s]]
    BY <1>1 DEF Sums
  <2>3. QED
    BY <2>1, <2>2 DEF Sums, Adds
<1>3. QED
  BY <1>1, <1>2, SumOfIs

(* A sum of n equally bounded shares is bounded by n times the bound, here *)
(* for shares no larger than an n-th of m.                                 *)
LEMMA SumBound ==
  ASSUME NEW S, IsFiniteSet(S), NEW g, NEW n \in Nat, NEW m \in Nat,
         \A x \in S : g[x] \in Nat /\ n * g[x] <= m
  PROVE  SumOf(g, S) \in Nat /\ n * SumOf(g, S) <= Cardinality(S) * m
<1>1. PICK it : Sums(it, g, S)
  BY SumsExist
<1> DEFINE Bounded(s) == it[s] \in Nat /\ n * it[s] <= Cardinality(s) * m
           C == {s \in SUBSET S : ~Bounded(s)}
<1>2. ASSUME C # {} PROVE FALSE
  <2>1. PICK s \in SUBSET S : s \in C /\ \A u \in C : u \subseteq s => u = s
    <3>1. C \subseteq SUBSET S
      OBVIOUS
    <3> HIDE DEF C
    <3>2. QED
      BY <3>1, <1>2, SmallestSet
  <2> DEFINE x == Chosen(s)
             u == s \ {x}
  <2>2. Adds(it, g, s)
    <3> HIDE DEF C
    <3>1. QED
      BY <1>1, <2>1, SumsAt
  <2>3. s # {}
    <3>1. ASSUME s = {} PROVE Bounded(s)
      <4>1. it[s] = 0 /\ Cardinality(s) = 0
        BY <2>2, <3>1, FS_EmptySet DEF Adds
      <4>2. n * 0 = 0 /\ 0 * m = 0
        OBVIOUS
      <4>3. QED
        BY <4>1, <4>2
    <3>2. QED
      BY <2>1, <3>1
  <2>4. x \in s /\ it[s] = g[x] + it[u]
    <3>1. x \in s
      BY <2>3, ChosenIsIn
    <3>2. QED
      BY <2>2, <2>3, <3>1 DEF Adds
  <2>5. Bounded(u)
    BY <2>1, <2>4
  <2>6. Cardinality(s) = Cardinality(u) + 1 /\ Cardinality(u) \in Nat
    <3>1. IsFiniteSet(s) /\ IsFiniteSet(u)
      BY FS_Subset
    <3>2. Cardinality(u) = Cardinality(s) - 1 /\ Cardinality(s) \in Nat /\ Cardinality(u) \in Nat
      <4> HIDE DEF C, Bounded, x
      <4>1. QED
        BY <2>4, <3>1, FS_RemoveElement, FS_CardinalityType DEF u
    <3>3. QED
      BY <3>2
  <2>7. g[x] \in Nat /\ n * g[x] <= m
    BY <2>4
  <2>8. PICK a, b, c \in Nat : a = g[x] /\ b = it[u] /\ c = Cardinality(u)
    BY <2>5, <2>6, <2>7
  <2>9. n * (a + b) = n * a + n * b /\ (c + 1) * m = c * m + m
        /\ n * a \in Nat /\ n * b \in Nat /\ c * m \in Nat
    OBVIOUS
  <2>10. it[s] = a + b /\ Cardinality(s) = c + 1 /\ n * a <= m /\ n * b <= c * m
    BY <2>4, <2>5, <2>6, <2>7, <2>8
  <2>11. Bounded(s)
    BY <2>9, <2>10
  <2>12. QED
    BY <2>1, <2>11
<1>3. Bounded(S)
  BY <1>2
<1>4. QED
  BY <1>1, <1>3, SumOfIs

-----------------------------------------------------------------------------
(* it is what Ascending computes for each number up to n...                *)
Picks(it, D, n) ==
  it = [i \in 0 .. n |-> IF i = 0 THEN <<>> ELSE IF i \in D THEN Append(it[i-1], i) ELSE it[i-1]]

(* ... and for one of them.                                                *)
Picked(it, D, i) ==
  /\ i = 0 => it[i] = <<>>
  /\ i # 0 /\ i \in D => it[i] = Append(it[i-1], i)
  /\ i # 0 /\ i \notin D => it[i] = it[i-1]

LEMMA SmallestNumber ==
  ASSUME NEW C, C \subseteq Nat, C # {}
  PROVE  \E n \in C : \A m \in C : n <= m
<1> DEFINE Smaller == {p \in Nat \X Nat : p[1] < p[2]}
<1>1. IsWellFoundedOn(Smaller, Nat)
  BY NatLessThanWellFounded DEF OpToRel
<1> HIDE DEF Smaller
<1>2. PICK n \in C : \A m \in C : ~ (<<m, n>> \in Smaller)
  BY <1>1, WFMin
<1>3. ASSUME NEW m \in C PROVE n <= m
  <2>1. ~ (<<m, n>> \in Smaller) /\ m \in Nat /\ n \in Nat
    BY <1>2
  <2>2. ~ (m < n)
    BY <2>1 DEF Smaller
  <2>3. QED
    BY <2>1, <2>2
<1>4. QED
  BY <1>3

LEMMA PickedAt ==
  ASSUME NEW D, NEW n \in Nat, NEW it, Picks(it, D, n), NEW i \in 0 .. n
  PROVE  Picked(it, D, i)
BY DEF Picks, Picked

LEMMA PicksOnce ==
  ASSUME NEW D, NEW n \in Nat, NEW it, Picks(it, D, n), NEW m \in Nat, n <= m, NEW jt, Picks(jt, D, m)
  PROVE  \A i \in 0 .. n : it[i] = jt[i]
<1> DEFINE C == {i \in 0 .. n : it[i] # jt[i]}
<1> SUFFICES ASSUME C # {} PROVE FALSE
  OBVIOUS
<1>1. PICK i \in 0 .. n : i \in C /\ \A k \in C : i <= k
  <2>1. C \subseteq Nat
    OBVIOUS
  <2> HIDE DEF C
  <2>2. PICK i \in C : \A k \in C : i <= k
    BY <2>1, SmallestNumber
  <2>3. QED
    BY <2>2 DEF C
<1>2. Picked(it, D, i)
  BY PickedAt
<1>3. Picked(jt, D, i)
  <2>1. i \in 0 .. m
    OBVIOUS
  <2>2. QED
    BY <2>1, PickedAt
<1>4. i # 0
  BY <1>1, <1>2, <1>3 DEF Picked
<1>5. i - 1 \in 0 .. n /\ i - 1 \notin C
  BY <1>1, <1>4
<1>6. QED
  BY <1>1, <1>2, <1>3, <1>4, <1>5 DEF Picked

LEMMA PicksExist ==
  ASSUME NEW D, NEW n \in Nat
  PROVE  \E it : Picks(it, D, n)
<1> DEFINE C == {k \in Nat : ~ \E it : Picks(it, D, k)}
<1> SUFFICES ASSUME C # {} PROVE FALSE
  OBVIOUS
<1>1. PICK k \in Nat : k \in C /\ \A m \in C : k <= m
  <2>1. C \subseteq Nat
    OBVIOUS
  <2> HIDE DEF C
  <2>2. QED
    BY <2>1, SmallestNumber
<1>2. CASE k = 0
  <2> DEFINE it == [i \in 0 .. 0 |-> <<>>]
  <2>1. Picks(it, D, 0)
    BY DEF Picks
  <2>2. QED
    BY <1>1, <1>2, <2>1
<1>3. CASE k # 0
  <2>1. PICK jt : Picks(jt, D, k - 1)
    BY <1>1, <1>3
  <2> DEFINE it == [i \in 0 .. k |-> IF i < k THEN jt[i]
                                     ELSE IF k \in D THEN Append(jt[k - 1], k) ELSE jt[k - 1]]
  <2>2. ASSUME NEW i \in 0 .. k PROVE Picked(it, D, i)
    <3>1. CASE i = k
      <4>1. it[i] = (IF k \in D THEN Append(jt[k - 1], k) ELSE jt[k - 1]) /\ it[i - 1] = jt[i - 1]
        BY <1>3, <3>1
      <4>2. QED
        BY <1>3, <3>1, <4>1 DEF Picked
    <3>2. CASE i # k
      <4>1. i \in 0 .. k - 1 /\ k - 1 \in Nat
        BY <1>3, <3>2
      <4>2. Picked(jt, D, i)
        BY <2>1, <4>1, PickedAt
      <4>3. it[i] = jt[i] /\ (i # 0 => it[i - 1] = jt[i - 1])
        BY <4>1
      <4> HIDE DEF it
      <4>4. QED
        BY <4>2, <4>3 DEF Picked
    <3>3. QED
      BY <3>1, <3>2
  <2>3. it = [i \in 0 .. k |-> it[i]]
    OBVIOUS
  <2> HIDE DEF it
  <2>4. Picks(it, D, k)
    BY <2>2, <2>3 DEF Picks, Picked
  <2>5. QED
    BY <1>1, <2>4
<1>4. QED
  BY <1>2, <1>3

LEMMA PicksUnique ==
  ASSUME NEW D, NEW n \in Nat, NEW it, Picks(it, D, n), NEW jt, Picks(jt, D, n)
  PROVE  jt = it
<1>1. PICK m, kt : m = n /\ kt = jt
  OBVIOUS
<1>2. m \in Nat /\ n <= m /\ Picks(kt, D, m)
  BY <1>1
<1>3. \A i \in 0 .. n : it[i] = kt[i]
  BY <1>2, PicksOnce
<1>4. it = [i \in 0 .. n |-> it[i]] /\ jt = [i \in 0 .. n |-> jt[i]]
  BY DEF Picks
<1>5. QED
  BY <1>1, <1>3, <1>4

(* Each of the first so many numbers of D, in increasing order.            *)
AllInOrder(q, D, n) ==
  /\ q \in Seq(1 .. n)
  /\ ToSet(q) = D \cap 1 .. n
  /\ \A k \in 1 .. Len(q) - 1 : q[k] < q[k + 1]

LEMMA PicksAll ==
  ASSUME NEW D, NEW n \in Nat, NEW it, Picks(it, D, n), NEW i \in 0 .. n
  PROVE  AllInOrder(it[i], D, i)
<1> DEFINE Right(j) == /\ it[j] \in Seq(1 .. j)
                       /\ \A k \in 1 .. Len(it[j]) : it[j][k] \in D
                       /\ \A e \in D \cap 1 .. j : \E k \in 1 .. Len(it[j]) : it[j][k] = e
                       /\ \A k \in 1 .. Len(it[j]) - 1 : it[j][k] < it[j][k + 1]
           C == {j \in 0 .. n : ~Right(j)}
<1>1. ASSUME C # {} PROVE FALSE
  <2>1. PICK j \in 0 .. n : j \in C /\ \A m \in C : j <= m
    <3>1. C \subseteq Nat
      OBVIOUS
    <3> HIDE DEF C
    <3>2. PICK j \in C : \A m \in C : j <= m
      BY <3>1, <1>1, SmallestNumber
    <3>3. QED
      BY <3>2 DEF C
  <2>2. Picked(it, D, j)
    <3> HIDE DEF C
    <3>1. QED
      BY PickedAt
  <2>3. j # 0
    <3>1. ASSUME j = 0 PROVE Right(j)
      <4>1. it[j] = <<>>
        BY <2>2, <3>1 DEF Picked
      <4>2. QED
        BY <3>1, <4>1
    <3>2. QED
      BY <2>1, <3>1
  <2>4. j - 1 \in 0 .. n /\ j - 1 \notin C
    <3> HIDE DEF C
    <3>1. j - 1 \in 0 .. n /\ ~ (j <= j - 1)
      BY <2>3
    <3>2. QED
      BY <2>1, <3>1
  <2>5. PICK q, p : q = it[j - 1] /\ p = it[j]
    OBVIOUS
  <2>10. Right(j - 1)
    BY <2>4
  <2>11. \A k \in 1 .. j - 1 : k \in 1 .. j /\ k < j
    OBVIOUS
  <2>6. /\ q \in Seq(1 .. j - 1) /\ q \in Seq(1 .. j)
        /\ \A k \in 1 .. Len(q) : q[k] \in D /\ q[k] < j
        /\ \A e \in D \cap 1 .. j - 1 : \E k \in 1 .. Len(q) : q[k] = e
        /\ \A k \in 1 .. Len(q) - 1 : q[k] < q[k + 1]
    <3>1. q \in Seq(1 .. j - 1) /\ (\A k \in 1 .. Len(q) : q[k] \in D)
          /\ (\A e \in D \cap 1 .. j - 1 : \E k \in 1 .. Len(q) : q[k] = e)
          /\ (\A k \in 1 .. Len(q) - 1 : q[k] < q[k + 1])
      BY <2>5, <2>10
    <3>2. \A k \in 1 .. Len(q) : q[k] \in 1 .. j - 1
      BY <3>1
    <3>3. q \in Seq(1 .. j)
      BY <3>1, <3>2, <2>11
    <3>4. QED
      BY <2>11, <3>1, <3>2, <3>3
  <2>7. CASE j \in D
    <3>1. p = Append(q, j)
      BY <2>2, <2>3, <2>5, <2>7 DEF Picked
    <3>2. p \in Seq(1 .. j) /\ Len(p) = Len(q) + 1 /\ Len(q) \in Nat
          /\ p[Len(p)] = j /\ \A k \in 1 .. Len(q) : p[k] = q[k]
      BY <2>3, <2>6, <3>1
    <3>8. \A k \in 1 .. Len(p) : k \in 1 .. Len(q) \/ k = Len(p)
      BY <3>2
    <3>3. \A k \in 1 .. Len(p) : p[k] \in D
      BY <2>6, <2>7, <3>2, <3>8
    <3>4. \A e \in D \cap 1 .. j : \E k \in 1 .. Len(p) : p[k] = e
      <4> SUFFICES ASSUME NEW e \in D \cap 1 .. j PROVE \E k \in 1 .. Len(p) : p[k] = e
        OBVIOUS
      <4>1. CASE e = j
        BY <3>2, <4>1
      <4>2. CASE e # j
        <5>1. e \in D \cap 1 .. j - 1
          BY <4>2
        <5>2. QED
          BY <2>6, <3>2, <5>1
      <4>3. QED
        BY <4>1, <4>2
    <3>5. ASSUME NEW k \in 1 .. Len(p) - 1 PROVE p[k] < p[k + 1]
      <4>1. k \in 1 .. Len(q) /\ p[k] = q[k]
        BY <3>2
      <4>2. CASE k = Len(q)
        BY <2>6, <3>2, <4>1, <4>2
      <4>3. CASE k # Len(q)
        <5>1. k \in 1 .. Len(q) - 1 /\ k + 1 \in 1 .. Len(q)
          BY <3>2, <4>1, <4>3
        <5>2. QED
          BY <2>6, <3>2, <4>1, <5>1
      <4>4. QED
        BY <4>2, <4>3
    <3>6. Right(j)
      BY <2>5, <3>2, <3>3, <3>4, <3>5
    <3>7. QED
      BY <2>1, <3>6
  <2>8. CASE j \notin D
    <3>1. p = q
      BY <2>2, <2>3, <2>5, <2>8 DEF Picked
    <3>2. D \cap 1 .. j = D \cap 1 .. j - 1
      BY <2>3, <2>8
    <3>3. Right(j)
      BY <2>5, <2>6, <3>1, <3>2
    <3>4. QED
      BY <2>1, <3>3
  <2>9. QED
    BY <2>7, <2>8
<1>2. Right(i)
  BY <1>1
<1>3. PICK q : q = it[i]
  OBVIOUS
<1>4. ToSet(q) = D \cap 1 .. i
  BY <1>2, <1>3 DEF ToSet
<1>5. QED
  BY <1>2, <1>3, <1>4 DEF AllInOrder

LEMMA AscendingIs ==
  ASSUME NEW D, NEW n \in Nat
  PROVE  AllInOrder(Ascending(D, n), D, n)
<1>1. PICK it : Picks(it, D, n)
  BY PicksExist
<1>2. \A jt : Picks(jt, D, n) => jt = it
  BY <1>1, PicksUnique
<1> DEFINE kt == CHOOSE jt : jt = [i \in 0 .. n |-> IF i = 0 THEN <<>> ELSE IF i \in D THEN Append(jt[i-1], i) ELSE jt[i-1]]
<1>3. kt = it
  BY <1>1, <1>2 DEF Picks
<1>4. Ascending(D, n) = it[n]
  BY <1>3 DEF Ascending
<1>5. PICK m : m = n /\ m \in 0 .. n
  OBVIOUS
<1>6. AllInOrder(it[m], D, m)
  BY <1>1, <1>5, PicksAll
<1> QED
  BY <1>4, <1>5, <1>6

(* No two positions are the same.                                          *)
LEMMA Increasing ==
  ASSUME NEW n \in Nat, NEW q \in Seq(1 .. n), \A k \in 1 .. Len(q) - 1 : q[k] < q[k + 1]
  PROVE  \A j, k \in 1 .. Len(q) : j < k => q[j] < q[k]
<1> SUFFICES ASSUME NEW j \in 1 .. Len(q),
                    {k \in 1 .. Len(q) : j < k /\ ~(q[j] < q[k])} # {}
             PROVE  FALSE
  OBVIOUS
<1>1. PICK C : C = {k \in 1 .. Len(q) : j < k /\ ~(q[j] < q[k])}
  OBVIOUS
<1>2. C \subseteq Nat /\ C # {}
  BY <1>1
<1>3. PICK k \in C : \A m \in C : k <= m
  BY <1>2, SmallestNumber
<1>4. k \in 1 .. Len(q) /\ j < k /\ ~(q[j] < q[k]) /\ Len(q) \in Nat
  BY <1>1, <1>3
<1>5. k - 1 \in 1 .. Len(q) /\ k - 1 \in 1 .. Len(q) - 1 /\ k - 1 + 1 = k /\ ~(k <= k - 1)
  BY <1>4
<1>6. q[k - 1] < q[k]
  BY <1>5
<1>7. q[j] \in Nat /\ q[k - 1] \in Nat /\ q[k] \in Nat
  BY <1>4, <1>5
<1>8. CASE k - 1 = j
  BY <1>4, <1>6, <1>8
<1>9. CASE k - 1 # j
  <2>1. j < k - 1
    BY <1>4, <1>9
  <2>2. k - 1 \notin C
    BY <1>3, <1>5
  <2>3. q[j] < q[k - 1]
    BY <1>1, <1>5, <2>1, <2>2
  <2> QED
    BY <1>4, <1>6, <1>7, <2>3
<1> QED
  BY <1>8, <1>9

(* r is what is at the positions q.                                        *)
IsAt(r, s, q) ==
  /\ Len(r) = Len(q)
  /\ r = [k \in 1 .. Len(q) |-> s[q[k]]]

(* A selection has each position that passes once, in their order.         *)
LEMMA SelectAtIs ==
  ASSUME NEW s, Len(s) \in Nat, NEW D, D \subseteq 1 .. Len(s)
  PROVE  \E q \in Seq(1 .. Len(s)) :
           /\ ToSet(q) = D
           /\ \A j, k \in 1 .. Len(q) : j < k => q[j] < q[k]
           /\ IsAt(SelectAt(s, D), s, q)
<1>1. PICK n \in Nat : n = Len(s)
  OBVIOUS
<1>2. PICK q : q = Ascending(D, n)
  OBVIOUS
<1>3. AllInOrder(q, D, n)
  BY <1>2, AscendingIs
<1>4. q \in Seq(1 .. n) /\ ToSet(q) = D
  BY <1>1, <1>3 DEF AllInOrder
<1>5. \A j, k \in 1 .. Len(q) : j < k => q[j] < q[k]
  BY <1>3, <1>4, Increasing DEF AllInOrder
<1>6. PICK r : r = SelectAt(s, D)
  OBVIOUS
<1>7. r = [k \in 1 .. Len(q) |-> s[q[k]]]
  BY <1>1, <1>2, <1>6 DEF SelectAt
<1>8. Len(q) \in Nat
  BY <1>4
<1>9. IsAt(r, s, q)
  <2>1. Len(r) = Len(q)
    BY <1>7, <1>8
  <2> QED
    BY <1>7, <2>1 DEF IsAt
<1> QED
  BY <1>1, <1>4, <1>5, <1>6, <1>9

(* A sequence that has each member of S just once is as long as S is large.*)
LEMMA CountOnce ==
  ASSUME NEW n \in Nat, NEW f, NEW S, \A k \in 1 .. n : f[k] \in S,
         \A j, k \in 1 .. n : f[j] = f[k] => j = k,
         \A x \in S : \E k \in 1 .. n : f[k] = x
  PROVE  IsFiniteSet(S) /\ Cardinality(S) = n
<1>1. PICK g : g = [k \in 1 .. n |-> f[k]]
  OBVIOUS
<1>2. g \in [1 .. n -> S] /\ \A k \in 1 .. n : g[k] = f[k]
  BY <1>1
<1>3. g \in Bijection(1 .. n, S)
  BY <1>2 DEF Bijection, Injection, Surjection, IsInjective
<1>4. ExistsBijection(1 .. n, S)
  BY <1>3 DEF ExistsBijection
<1>5. Cardinality(S) = n
  BY <1>4, FS_CountingElements
<1>6. IsFiniteSet(S)
  BY <1>4, FS_NatBijection
<1> QED
  BY <1>5, <1>6

(* The pigeonhole principle: a permutation misses nothing.                 *)
LEMMA NothingMissed ==
  ASSUME NEW n \in Nat, NEW p \in [1 .. n -> 1 .. n], IsInjective(p)
  PROVE  \A j \in 1 .. n : \E i \in 1 .. n : p[i] = j
<1>1. PICK S : S = 1 .. n
  OBVIOUS
<1>2. IsFiniteSet(S)
  BY <1>1, FS_Interval
<1>0. p \in Injection(S, S)
  BY <1>1 DEF Injection
<1>3. p \in Surjection(S, S)
  BY <1>0, <1>2, FS_Injection
<1> QED
  BY <1>1, <1>3 DEF Surjection

(* What a loop makes of v, found step by step.                             *)
LEMMA LoopedIs ==
  ASSUME NEW f, NEW v, NEW s, NEW n \in Nat, n = Len(s), NEW w,
         w[0] = v, \A i \in 1 .. n : w[i] = f[s[i]][w[i - 1]]
  PROVE  Looped(f, v, s) = w[n]
<1> DEFINE it == [i \in 0 .. n |-> w[i]]
           Right(jt) == jt = [i \in 0 .. n |-> IF i = 0 THEN v ELSE f[s[i]][jt[i - 1]]]
<1>1. Right(it)
  <2>1. ASSUME NEW i \in 0 .. n PROVE it[i] = IF i = 0 THEN v ELSE f[s[i]][it[i - 1]]
    <3>1. CASE i = 0
      BY <3>1
    <3>2. CASE i # 0
      <4>1. i \in 1 .. n /\ i - 1 \in 0 .. n
        BY <3>2
      <4> QED
        BY <3>2, <4>1
    <3> QED
      BY <3>1, <3>2
  <2>2. it = [i \in 0 .. n |-> it[i]]
    OBVIOUS
  <2> HIDE DEF it
  <2> QED
    BY <2>1, <2>2
<1>2. PICK jt : jt = CHOOSE kt : Right(kt)
  OBVIOUS
<1>3. Right(jt)
  BY <1>1, <1>2
<1>4. Looped(f, v, s) = jt[n]
  BY <1>2 DEF Looped
<1> DEFINE C == {i \in 0 .. n : jt[i] # w[i]}
<1>5. ASSUME C # {} PROVE FALSE
  <2>1. PICK i \in C : \A k \in C : i <= k
    <3>1. C \subseteq Nat
      OBVIOUS
    <3> HIDE DEF C
    <3> QED
      BY <1>5, <3>1, SmallestNumber
  <2>2. i \in 0 .. n /\ jt[i] # w[i]
    OBVIOUS
  <2>3. i # 0
    <3>1. jt[0] = v
      BY <1>3
    <3> QED
      BY <2>2, <3>1
  <2>4. i - 1 \in 0 .. n /\ i - 1 \notin C /\ i \in 1 .. n
    BY <2>1, <2>2, <2>3
  <2>5. jt[i] = f[s[i]][jt[i - 1]]
    BY <1>3, <2>2, <2>3
  <2>6. jt[i - 1] = w[i - 1]
    BY <2>4
  <2> QED
    BY <2>2, <2>4, <2>5, <2>6
<1> QED
  BY <1>4, <1>5

LEMMA LoopedSame ==
  ASSUME NEW f, NEW v, NEW s, Len(s) \in Nat, \A i \in 1 .. Len(s) : f[s[i]][v] = v
  PROVE  Looped(f, v, s) = v
<1>1. PICK n, w : n = Len(s) /\ n \in Nat /\ w = [i \in 0 .. n |-> v]
  OBVIOUS
<1>2. w[0] = v /\ w[n] = v /\ \A i \in 1 .. n : w[i] = f[s[i]][w[i - 1]]
  BY <1>1
<1> QED
  BY <1>1, <1>2, LoopedIs

(* A loop is some function of the rounds.                                  *)
LoopOf(it, f, v, s, n) == it = [i \in 0 .. n |-> IF i = 0 THEN v ELSE f[s[i]][it[i - 1]]]

LEMMA LoopsExist ==
  ASSUME NEW f, NEW v, NEW s, NEW n \in Nat
  PROVE  \E it : LoopOf(it, f, v, s, n)
<1> DEFINE C == {k \in Nat : ~ \E it : LoopOf(it, f, v, s, k)}
<1> SUFFICES ASSUME C # {} PROVE FALSE
  OBVIOUS
<1>1. PICK k \in Nat : k \in C /\ \A m \in C : k <= m
  <2>1. C \subseteq Nat
    OBVIOUS
  <2> HIDE DEF C
  <2>2. QED
    BY <2>1, SmallestNumber
<1>2. CASE k = 0
  <2>1. PICK it : it = [i \in 0 .. 0 |-> v]
    OBVIOUS
  <2>2. it = [i \in 0 .. 0 |-> IF i = 0 THEN v ELSE f[s[i]][it[i - 1]]]
    BY <2>1
  <2> QED
    BY <1>1, <1>2, <2>2 DEF LoopOf
<1>3. CASE k # 0
  <2>1. k - 1 \in Nat /\ k - 1 \notin C
    BY <1>1, <1>3
  <2>2. PICK jt : LoopOf(jt, f, v, s, k - 1)
    BY <2>1
  <2>3. PICK it : it = [i \in 0 .. k |-> IF i < k THEN jt[i] ELSE f[s[k]][jt[k - 1]]]
    OBVIOUS
  <2>4. ASSUME NEW i \in 0 .. k PROVE it[i] = IF i = 0 THEN v ELSE f[s[i]][it[i - 1]]
    <3>1. CASE i = k
      BY <1>3, <2>3, <3>1
    <3>2. CASE i # k /\ i # 0
      <4>1. i \in 0 .. k - 1 /\ i - 1 \in 0 .. k /\ i - 1 < k
        BY <1>3, <3>2
      <4>2. it[i] = jt[i] /\ it[i - 1] = jt[i - 1]
        BY <2>3, <4>1
      <4>3. jt[i] = f[s[i]][jt[i - 1]]
        BY <2>2, <3>2, <4>1 DEF LoopOf
      <4> QED
        BY <3>2, <4>2, <4>3
    <3>3. CASE i = 0
      <4>1. i \in 0 .. k - 1 /\ it[i] = jt[i]
        BY <1>3, <2>3, <3>3
      <4>2. jt[i] = v
        BY <2>2, <3>3, <4>1 DEF LoopOf
      <4> QED
        BY <3>3, <4>1, <4>2
    <3> QED
      BY <3>1, <3>2, <3>3
  <2>5. it = [i \in 0 .. k |-> it[i]]
    BY <2>3
  <2>6. it = [i \in 0 .. k |-> IF i = 0 THEN v ELSE f[s[i]][it[i - 1]]]
    BY <2>4, <2>5
  <2> QED
    BY <1>1, <2>6 DEF LoopOf
<1> QED
  BY <1>2, <1>3

(* What each round keeps, a loop keeps.                                    *)
LEMMA LoopedKeeps ==
  ASSUME NEW f, NEW v, NEW s, NEW n \in Nat, n = Len(s), NEW G,
         v \in G[0], \A i \in 1 .. n : \A x \in G[i - 1] : f[s[i]][x] \in G[i]
  PROVE  Looped(f, v, s) \in G[n]
<1>1. PICK it : it = CHOOSE jt : LoopOf(jt, f, v, s, n)
  OBVIOUS
<1>2. LoopOf(it, f, v, s, n)
  BY <1>1, LoopsExist
<1>3. Looped(f, v, s) = it[n]
  BY <1>1 DEF Looped, LoopOf
<1> DEFINE C == {i \in 0 .. n : it[i] \notin G[i]}
<1>4. ASSUME C # {} PROVE FALSE
  <2>1. PICK i \in C : \A k \in C : i <= k
    <3>1. C \subseteq Nat
      OBVIOUS
    <3> HIDE DEF C
    <3> QED
      BY <1>4, <3>1, SmallestNumber
  <2>2. i \in 0 .. n /\ it[i] \notin G[i]
    OBVIOUS
  <2>3. i # 0
    BY <1>2, <2>2 DEF LoopOf
  <2>4. i - 1 \in 0 .. n /\ i - 1 \notin C /\ i \in 1 .. n
    BY <2>1, <2>2, <2>3
  <2>5. it[i] = f[s[i]][it[i - 1]]
    BY <1>2, <2>2, <2>3 DEF LoopOf
  <2> QED
    BY <2>2, <2>4, <2>5
<1> QED
  BY <1>3, <1>4

(* What never goes down in a step is never below what it was.             *)
LEMMA NeverDown ==
  ASSUME NEW n \in Nat, NEW w, \A i \in 0 .. n : w[i] \in Nat,
         \A i \in 1 .. n : w[i - 1] <= w[i]
  PROVE  \A i, j \in 0 .. n : i <= j => w[i] <= w[j]
<1> SUFFICES ASSUME NEW i \in 0 .. n, {j \in 0 .. n : i <= j /\ ~(w[i] <= w[j])} # {}
             PROVE  FALSE
  OBVIOUS
<1>1. PICK C : C = {j \in 0 .. n : i <= j /\ ~(w[i] <= w[j])}
  OBVIOUS
<1>2. C \subseteq Nat /\ C # {}
  BY <1>1
<1>3. PICK j \in C : \A k \in C : j <= k
  BY <1>2, SmallestNumber
<1>4. j \in 0 .. n /\ i <= j /\ ~(w[i] <= w[j]) /\ j # i
  BY <1>1, <1>3
<1>5. j - 1 \in 0 .. n /\ i <= j - 1 /\ j \in 1 .. n /\ ~(j <= j - 1)
  BY <1>4
<1>6. w[i] <= w[j - 1] /\ w[j - 1] <= w[j]
  BY <1>1, <1>3, <1>5
<1> QED
  BY <1>4, <1>5, <1>6

-----------------------------------------------------------------------------
(* Sequences put together, and of what they are.                           *)
LEMMA SetOfConcat ==
  ASSUME NEW E, NEW s \in Seq(E), NEW t \in Seq(E)
  PROVE  ToSet(s \o t) = ToSet(s) \cup ToSet(t)
<1>1. PICK r, m, n : r = s \o t /\ m = Len(s) /\ n = Len(t)
  OBVIOUS
<1>2. /\ m \in Nat /\ n \in Nat /\ DOMAIN s = 1 .. m /\ DOMAIN t = 1 .. n /\ DOMAIN r = 1 .. m + n
      /\ \A i \in 1 .. m : r[i] = s[i]
      /\ \A i \in 1 .. n : r[m + i] = t[i]
  BY <1>1
<1>3. ASSUME NEW x \in ToSet(r) PROVE x \in ToSet(s) \cup ToSet(t)
  <2>1. PICK i \in 1 .. m + n : r[i] = x
    BY <1>2, <1>3 DEF ToSet
  <2>2. i \in 1 .. m \/ (i - m \in 1 .. n /\ m + (i - m) = i)
    BY <1>2
  <2> QED
    BY <1>2, <2>1, <2>2 DEF ToSet
<1>4. ASSUME NEW x \in ToSet(s) PROVE x \in ToSet(r)
  <2>1. PICK i \in 1 .. m : s[i] = x
    BY <1>2, <1>4 DEF ToSet
  <2>2. i \in 1 .. m + n
    BY <1>2
  <2> QED
    BY <1>2, <2>1, <2>2 DEF ToSet
<1>5. ASSUME NEW x \in ToSet(t) PROVE x \in ToSet(r)
  <2>1. PICK i \in 1 .. n : t[i] = x
    BY <1>2, <1>5 DEF ToSet
  <2>2. m + i \in 1 .. m + n
    BY <1>2
  <2> QED
    BY <1>2, <2>1, <2>2 DEF ToSet
<1> QED
  BY <1>1, <1>3, <1>4, <1>5

LEMMA OnceInConcat ==
  ASSUME NEW E, NEW s \in Seq(E), NEW t \in Seq(E), IsInjective(s), IsInjective(t),
         ToSet(s) \cap ToSet(t) = {}
  PROVE  IsInjective(s \o t)
<1>1. PICK r, m, n : r = s \o t /\ m = Len(s) /\ n = Len(t)
  OBVIOUS
<1>2. /\ m \in Nat /\ n \in Nat /\ DOMAIN s = 1 .. m /\ DOMAIN t = 1 .. n /\ DOMAIN r = 1 .. m + n
      /\ \A i \in 1 .. m : r[i] = s[i]
      /\ \A i \in m + 1 .. m + n : r[i] = t[i - m]
  BY <1>1
<1>3. \A i \in 1 .. m : r[i] \in ToSet(s)
  BY <1>2 DEF ToSet
<1>4. \A i \in m + 1 .. m + n : r[i] \in ToSet(t)
  <2>1. ASSUME NEW i \in m + 1 .. m + n PROVE t[i - m] \in ToSet(t)
    <3>1. i - m \in 1 .. n
      BY <1>2
    <3> QED
      BY <1>2, <3>1 DEF ToSet
  <2> QED
    BY <1>2, <2>1
<1>5. ASSUME NEW i \in 1 .. m + n, NEW j \in 1 .. m + n, r[i] = r[j] PROVE i = j
  <2>1. CASE i \in 1 .. m /\ j \in 1 .. m
    BY <1>2, <1>5, <2>1 DEF IsInjective
  <2>2. CASE i \in m + 1 .. m + n /\ j \in m + 1 .. m + n
    <3>1. i - m \in 1 .. n /\ j - m \in 1 .. n /\ t[i - m] = t[j - m]
      BY <1>2, <1>5, <2>2
    <3>2. i - m = j - m
      BY <1>2, <3>1 DEF IsInjective
    <3> QED
      BY <1>2, <3>2
  <2>3. ~(i \in 1 .. m /\ j \in m + 1 .. m + n) /\ ~(j \in 1 .. m /\ i \in m + 1 .. m + n)
    BY <1>3, <1>4, <1>5
  <2> QED
    BY <1>2, <2>1, <2>2, <2>3
<1> QED
  BY <1>1, <1>2, <1>5 DEF IsInjective

HeadMoved(s, t, u) == Append(s, Head(t)) \o (Tail(t) \o u)

LEMMA MovedOver ==
  ASSUME NEW E, NEW s \in Seq(E), NEW t \in Seq(E), NEW u \in Seq(E), t # <<>>
  PROVE  HeadMoved(s, t, u) = (s \o t) \o u
BY DEF HeadMoved

LEMMA SeqFrom ==
  ASSUME NEW S, NEW s \in Seq(S), NEW E, \A i \in 1 .. Len(s) : s[i] \in E
  PROVE  s \in Seq(E)
OBVIOUS

LEMMA SeqGrows ==
  ASSUME NEW E, NEW F, E \subseteq F, NEW s \in Seq(E)
  PROVE  s \in Seq(F)
OBVIOUS

LEMMA SeqAt ==
  ASSUME NEW E, NEW s \in Seq(E), NEW i \in 1 .. Len(s)
  PROVE  s[i] \in E
OBVIOUS
=============================================================================
