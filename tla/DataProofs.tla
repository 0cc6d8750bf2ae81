---------------------------------- MODULE DataProofs ----------------------------------
(***************************************************************************)
(* Proofs about what the code computes from data of any size: the books of *)
(* a budget, outputs, arguments and answers that are cleaned, what is      *)
(* observed of calls, what conditions are computed from, and packs.        *)
(*                                                                         *)
(* They rest on induction and recursion over data, in the form the provers *)
(* can use. The library states them for any predicate or operator, and no  *)
(* prover finds which one is meant; stated for any set and function they   *)
(* are cited like other facts. All of them come from one: the subsets of a *)
(* finite set are well founded.                                            *)
(***************************************************************************)
EXTENDS PostScan, CallArguments, AgentRules, FanOut, Telemetry, Conditions, HubPacks,
        FiniteSetTheorems, SequenceTheorems, WellFoundedInduction, TLAPS

-------------------------------------------------------------------------------
(* Induction *)

(* Any set of natural numbers has a smallest.                              *)
LEMMA LeastNumber ==
  ASSUME NEW S \in SUBSET Nat, S # {}
  PROVE  \E m \in S : \A k \in S : m <= k
<1> DEFINE T == {1 .. m : m \in S}
           R == StrictSubsetOrdering(Nat)
<1>1. T \subseteq FiniteSubsetsOf(Nat)
  BY FS_Interval DEF FiniteSubsetsOf
<1>2. IsWellFoundedOn(R, FiniteSubsetsOf(Nat))
  BY FS_StrictSubsetOrderingWellFounded
<1>3. T # {}
  OBVIOUS
<1> HIDE DEF T, R
<1>4. PICK x \in T : \A y \in T : <<y, x>> \notin R
  BY <1>1, <1>2, <1>3, WFMin
<1>5. PICK m \in S : x = 1 .. m
  BY DEF T
<1>6. ASSUME NEW k \in S, k < m PROVE FALSE
  <2>1. 1 .. k \in T
    BY DEF T
  <2>2. 1 .. k \subseteq 1 .. m /\ 1 .. k # 1 .. m
    <3>1. m \in 1 .. m /\ m \notin 1 .. k
      BY <1>6
    <3>. QED BY <3>1, <1>6
  <2>3. <<1 .. k, 1 .. m>> \in R
    BY <2>2 DEF R, StrictSubsetOrdering
  <2>. QED BY <2>1, <2>3, <1>4, <1>5
<1>. QED BY <1>6

LEMMA NumberInduction ==
  ASSUME NEW S, 0 \in S, \A n \in Nat : n \in S => n + 1 \in S
  PROVE  \A n \in Nat : n \in S
<1> SUFFICES ASSUME NEW n \in Nat, n \notin S PROVE FALSE
  OBVIOUS
<1> DEFINE B == Nat \ S
<1>1. B \in SUBSET Nat /\ B # {}
  OBVIOUS
<1>2. PICK m \in B : \A k \in B : m <= k
  BY <1>1, LeastNumber
<1>3. m # 0 /\ m - 1 \in Nat /\ m - 1 \notin B
  BY <1>2
<1>. QED BY <1>3

(* The same up to some number.                                             *)
LEMMA IntervalInduction ==
  ASSUME NEW n \in Nat, NEW S, 0 \in S, \A i \in 0 .. n - 1 : i \in S => i + 1 \in S
  PROVE  \A i \in 0 .. n : i \in S
<1> DEFINE T == {i \in Nat : i > n \/ i \in S}
<1>1. 0 \in T /\ \A i \in Nat : i \in T => i + 1 \in T
  OBVIOUS
<1>2. \A i \in Nat : i \in T
  <2> HIDE DEF T
  <2>. QED BY <1>1, NumberInduction
<1>. QED BY <1>2

(* A function that picks an element of a set.                              *)
Picks(pick, D) == \A s \in SUBSET D : s # {} => pick[s] \in s

PickClosed(F, pick, D) == \A s \in SUBSET D : s # {} /\ s \ {pick[s]} \in F => s \in F

(* What holds of a set when it holds of that set without the element       *)
(* picked holds of every subset.                                           *)
LEMMA PickInduction ==
  ASSUME NEW D, IsFiniteSet(D), NEW pick, Picks(pick, D),
         NEW F, {} \in F, PickClosed(F, pick, D)
  PROVE  \A s \in SUBSET D : s \in F
<1> DEFINE R == StrictSubsetOrdering(D)
           B == {s \in SUBSET D : s \notin F}
<1> SUFFICES ASSUME B # {} PROVE FALSE
  OBVIOUS
<1>1. IsWellFoundedOn(R, FiniteSubsetsOf(D)) /\ FiniteSubsetsOf(D) = SUBSET D
  BY FS_StrictSubsetOrderingWellFounded, FS_FiniteSubsetsOfFinite
<1>2. B \subseteq SUBSET D
  OBVIOUS
<1> HIDE DEF R
<1>3. PICK s \in B : \A t \in B : <<t, s>> \notin R
  <2> HIDE DEF B
  <2>. QED BY <1>1, <1>2, WFMin
<1>4. pick[s] \in s /\ s \in SUBSET D /\ s # {}
  BY <1>3 DEF Picks
<1>5. s \ {pick[s]} \in F
  <2>1. s \ {pick[s]} \in SUBSET D /\ s \ {pick[s]} \subseteq s /\ s \ {pick[s]} # s
    BY <1>4
  <2>2. <<s \ {pick[s]}, s>> \in R
    BY <2>1, <1>4 DEF R, StrictSubsetOrdering
  <2>. QED BY <2>1, <2>2, <1>3
<1>. QED BY <1>3, <1>4, <1>5 DEF PickClosed

LEMMA FiniteSetInduction ==
  ASSUME NEW S, IsFiniteSet(S), NEW F, {} \in F,
         \A T \in SUBSET S : \A x \in S \ T : T \in F => T \cup {x} \in F
  PROVE  \A T \in SUBSET S : T \in F
<1> DEFINE pick == [T \in SUBSET S |-> CHOOSE x \in T : TRUE]
<1>1. Picks(pick, S)
  BY DEF Picks
<1> HIDE DEF pick
<1>2. ASSUME NEW T \in SUBSET S, T # {}, T \ {pick[T]} \in F PROVE T \in F
  <2>1. (T \ {pick[T]}) \cup {pick[T]} = T /\ pick[T] \in S \ (T \ {pick[T]}) /\ T \ {pick[T]} \in SUBSET S
    BY <1>1, <1>2 DEF Picks
  <2>. QED BY <2>1, <1>2
<1>3. PickClosed(F, pick, S)
  BY <1>2 DEF PickClosed
<1>. QED BY <1>1, <1>3, PickInduction

-------------------------------------------------------------------------------
(* Recursion *)

(* A function on the subsets of a finite set may be defined by what it is  *)
(* without the element that is picked.                                     *)
RecursesOn(g, D, pick, base, step) ==
    \A s \in SUBSET D : g[s] = IF s = {} THEN base ELSE step[<<pick[s], g[s \ {pick[s]}]>>]

LEMMA SetRecursion ==
  ASSUME NEW D, IsFiniteSet(D), NEW V, NEW base \in V, NEW pick, Picks(pick, D),
         NEW step \in [D \X V -> V]
  PROVE  \E g \in [SUBSET D -> V] : RecursesOn(g, D, pick, base, step)
<1> DEFINE Good(k) == {g \in [SUBSET D -> V] : \A s \in SUBSET D : Cardinality(s) <= k =>
                         g[s] = IF s = {} THEN base ELSE step[<<pick[s], g[s \ {pick[s]}]>>]}
           S == {k \in Nat : Good(k) # {}}
<1>1. \A s \in SUBSET D : IsFiniteSet(s) /\ Cardinality(s) \in Nat /\ Cardinality(s) <= Cardinality(D)
  BY FS_Subset, FS_CardinalityType
<1>2. \A s \in SUBSET D : Cardinality(s) = 0 <=> s = {}
  BY <1>1, FS_EmptySet
<1>3. 0 \in S
  <2>1. [s \in SUBSET D |-> base] \in Good(0)
    BY <1>1, <1>2
  <2>. QED BY <2>1
<1>4. ASSUME NEW k \in Nat, k \in S PROVE k + 1 \in S
  <2>1. PICK g \in [SUBSET D -> V] : g \in Good(k)
    BY <1>4
  <2> DEFINE h == [s \in SUBSET D |-> IF s = {} THEN base ELSE step[<<pick[s], g[s \ {pick[s]}]>>]]
  <2>2. h \in [SUBSET D -> V]
    <3>1. ASSUME NEW s \in SUBSET D, s # {} PROVE step[<<pick[s], g[s \ {pick[s]}]>>] \in V
      <4>1. pick[s] \in D /\ s \ {pick[s]} \in SUBSET D
        BY <3>1 DEF Picks
      <4>2. g[s \ {pick[s]}] \in V
        BY <4>1
      <4>. QED BY <4>1, <4>2
    <3>. QED BY <3>1
  <2>3. ASSUME NEW s \in SUBSET D, Cardinality(s) <= k PROVE h[s] = g[s]
    BY <2>1, <2>3
  <2>4. ASSUME NEW s \in SUBSET D, Cardinality(s) <= k + 1, s # {}
        PROVE  h[s] = step[<<pick[s], h[s \ {pick[s]}]>>]
    <3>1. Cardinality(s \ {pick[s]}) = Cardinality(s) - 1 /\ s \ {pick[s]} \in SUBSET D
      BY <2>4, <1>1, FS_RemoveElement DEF Picks
    <3>2. h[s \ {pick[s]}] = g[s \ {pick[s]}]
      <4>1. Cardinality(s \ {pick[s]}) <= k
        BY <3>1, <2>4, <1>1
      <4>. QED BY <4>1, <3>1, <2>3
    <3>. QED BY <3>2, <2>4
  <2>5. h \in Good(k + 1)
    BY <2>2, <2>4
  <2> HIDE DEF Good
  <2>. QED BY <2>5
<1>5. \A k \in Nat : k \in S
  <2> HIDE DEF S
  <2>. QED BY <1>3, <1>4, NumberInduction
<1>6. Cardinality(D) \in Nat
  BY FS_CardinalityType
<1>7. PICK g : g \in Good(Cardinality(D))
  BY <1>5, <1>6
<1>. QED BY <1>7, <1>1 DEF RecursesOn

-------------------------------------------------------------------------------
(* Sums *)

(* The sum of a weight over each of a set's subsets.                       *)
IsSum(g, D, weight) ==
    /\ g \in [SUBSET D -> Int] /\ g[{}] = 0
    /\ \A s \in SUBSET D : \A x \in s : g[s] = weight[x] + g[s \ {x}]

(* It does not depend on the order in which the elements are added up.     *)
LEMMA AnyOrderSums ==
  ASSUME NEW D, IsFiniteSet(D), NEW weight \in [D -> Int], NEW pick, Picks(pick, D),
         NEW g \in [SUBSET D -> Int],
         \A s \in SUBSET D : g[s] = IF s = {} THEN 0 ELSE weight[pick[s]] + g[s \ {pick[s]}]
  PROVE  IsSum(g, D, weight)
<1> DEFINE S == {k \in Nat : \A s \in SUBSET D : Cardinality(s) = k =>
                    \A x \in s : g[s] = weight[x] + g[s \ {x}]}
<1>1. \A s \in SUBSET D : IsFiniteSet(s) /\ Cardinality(s) \in Nat
  BY FS_Subset, FS_CardinalityType
<1>2. 0 \in S
  BY <1>1, FS_EmptySet
<1>3. ASSUME NEW k \in Nat, k \in S PROVE k + 1 \in S
  <2> SUFFICES ASSUME NEW s \in SUBSET D, Cardinality(s) = k + 1, NEW x \in s
               PROVE  g[s] = weight[x] + g[s \ {x}]
    OBVIOUS
  <2>1. pick[s] \in s /\ g[s] = weight[pick[s]] + g[s \ {pick[s]}]
    BY DEF Picks
  <2>2. CASE pick[s] = x
    BY <2>1, <2>2
  <2>3. CASE pick[s] # x
    <3> DEFINE y == pick[s]
               both == s \ {x, y}
    <3>1. /\ s \ {y} \in SUBSET D /\ x \in s \ {y} /\ (s \ {y}) \ {x} = both
          /\ s \ {x} \in SUBSET D /\ y \in s \ {x} /\ (s \ {x}) \ {y} = both
          /\ both \in SUBSET D
      BY <2>1, <2>3
    <3>2. Cardinality(s \ {y}) = k /\ Cardinality(s \ {x}) = k
      <4>1. ASSUME NEW e \in s PROVE Cardinality(s \ {e}) = k
        <5>1. IsFiniteSet(s) /\ Cardinality(s) = k + 1
          BY <1>1
        <5>2. Cardinality(s \ {e}) = Cardinality(s) - 1
          BY <5>1, FS_RemoveElement
        <5>. QED BY <5>1, <5>2
      <4>. QED BY <4>1, <2>1
    <3>3. g[s \ {y}] = weight[x] + g[both] /\ g[s \ {x}] = weight[y] + g[both]
      <4>1. ASSUME NEW t \in SUBSET D, Cardinality(t) = k, NEW z \in t, t \ {z} = both
            PROVE  g[t] = weight[z] + g[both]
        BY <1>3, <4>1
      <4> HIDE DEF y, both, S
      <4>2. g[s \ {y}] = weight[x] + g[both]
        BY <3>1, <3>2, <4>1
      <4>3. g[s \ {x}] = weight[y] + g[both]
        BY <3>1, <3>2, <4>1
      <4>. QED BY <4>2, <4>3
    <3>4. weight[x] \in Int /\ weight[y] \in Int /\ g[both] \in Int
      BY <3>1, <2>1
    <3>. QED BY <3>3, <3>4, <2>1
  <2>. QED BY <2>2, <2>3
<1>4. \A k \in Nat : k \in S
  <2> HIDE DEF S
  <2>. QED BY <1>2, <1>3, NumberInduction
<1>. QED BY <1>1, <1>4 DEF IsSum

(* Weights that agree on a set have the same sum there.                    *)
LEMMA SumsAgree ==
  ASSUME NEW D, IsFiniteSet(D), NEW E, NEW g, NEW h, NEW v, NEW w,
         IsSum(g, D, v), IsSum(h, E, w), D \subseteq E, \A x \in D : v[x] = w[x]
  PROVE  \A s \in SUBSET D : g[s] = h[s]
<1> DEFINE F == {s \in SUBSET D : g[s] = h[s]}
<1>1. {} \in F
  BY DEF IsSum
<1>2. ASSUME NEW T \in SUBSET D, NEW x \in D \ T, T \in F PROVE T \cup {x} \in F
  <2>1. (T \cup {x}) \ {x} = T /\ T \cup {x} \in SUBSET D /\ T \cup {x} \in SUBSET E
    OBVIOUS
  <2>2. g[T \cup {x}] = v[x] + g[T] /\ h[T \cup {x}] = w[x] + h[T]
    BY <2>1 DEF IsSum
  <2>. QED BY <2>1, <2>2, <1>2
<1>3. \A s \in SUBSET D : s \in F
  <2> HIDE DEF F
  <2>. QED BY <1>1, <1>2, FiniteSetInduction
<1>. QED BY <1>3

(* The library's sum of a function.                                        *)
LEMMA SumIsSum ==
  ASSUME NEW D, IsFiniteSet(D), NEW w \in [D -> Int]
  PROVE  \E g : IsSum(g, D, w) /\ SumFunction(w) = g[D]
<1> DEFINE pick == [s \in SUBSET D |-> CHOOSE x \in s : TRUE]
           step == [p \in D \X Int |-> w[p[1]] + p[2]]
           Adds(g) == g = [s \in SUBSET D |-> IF s = {} THEN 0
                             ELSE w[CHOOSE x \in s : TRUE] + g[s \ {CHOOSE x \in s : TRUE}]]
           zero == 0
<1>1. Picks(pick, D)
  BY DEF Picks
<1>2. PICK g \in [SUBSET D -> Int] : RecursesOn(g, D, pick, zero, step)
  <2>1. zero \in Int /\ step \in [D \X Int -> Int]
    OBVIOUS
  <2> HIDE DEF pick, step, zero
  <2>. QED BY <1>1, <2>1, SetRecursion
<1>3. ASSUME NEW s \in SUBSET D, s # {} PROVE g[s] = w[pick[s]] + g[s \ {pick[s]}]
  <2>1. pick[s] \in D /\ s \ {pick[s]} \in SUBSET D /\ g[s \ {pick[s]}] \in Int
    BY <1>1, <1>3 DEF Picks
  <2> HIDE DEF pick
  <2>. QED BY <2>1, <1>2, <1>3 DEF RecursesOn
<1>4. Adds(g)
  <2>1. \A s \in SUBSET D : s # {} => g[s] = w[CHOOSE x \in s : TRUE] + g[s \ {CHOOSE x \in s : TRUE}]
    BY <1>1, <1>3
  <2>. QED BY <2>1, <1>2 DEF RecursesOn
<1>5. PICK h : Adds(h) /\ SumFunction(w) = h[D]
  <2> DEFINE c == CHOOSE h : Adds(h)
  <2>1. Adds(c)
    <3> HIDE DEF Adds
    <3>. QED BY <1>4
  <2>2. DOMAIN w = D
    OBVIOUS
  <2>3. SumFunction(w) = c[D]
    BY <2>2, Zenon DEF SumFunction, SumFunctionOnSet, FoldFunctionOnSet, MapThenFoldSet
  <2>. QED BY <2>1, <2>3
<1>6. \A s \in SUBSET D : h[s] = g[s]
  <2> DEFINE F == {s \in SUBSET D : h[s] = g[s]}
  <2>1. {} \in F
    BY <1>4, <1>5
  <2>2. ASSUME NEW s \in SUBSET D, s # {}, s \ {pick[s]} \in F PROVE s \in F
    <3>1. h[s] = w[pick[s]] + h[s \ {pick[s]}]
      BY <1>5, <2>2
    <3>. QED BY <3>1, <1>3, <2>2
  <2>3. PickClosed(F, pick, D)
    BY <2>2 DEF PickClosed
  <2>4. \A s \in SUBSET D : s \in F
    <3> HIDE DEF F, pick
    <3>. QED BY <1>1, <2>1, <2>3, PickInduction
  <2>. QED BY <2>4
<1>7. \A s \in SUBSET D : g[s] = IF s = {} THEN 0 ELSE w[pick[s]] + g[s \ {pick[s]}]
  BY <1>2, <1>3 DEF RecursesOn
<1>8. IsSum(g, D, w)
  <2> HIDE DEF pick
  <2>. QED BY <1>1, <1>7, AnyOrderSums
<1>. QED BY <1>5, <1>6, <1>8

LEMMA SumType == ASSUME NEW D, IsFiniteSet(D), NEW w \in [D -> Int] PROVE SumFunction(w) \in Int
<1>1. PICK g : IsSum(g, D, w) /\ SumFunction(w) = g[D]
  BY SumIsSum
<1>. QED BY <1>1 DEF IsSum

LEMMA SumOfNone == ASSUME NEW w \in [{} -> Int] PROVE SumFunction(w) = 0
BY SumIsSum, FS_EmptySet DEF IsSum

(* One more, and one that weighs more.                                     *)
LEMMA SumGrows ==
  ASSUME NEW D, IsFiniteSet(D), NEW a, a \notin D, NEW v \in [D -> Int], NEW w \in [D \cup {a} -> Int],
         \A x \in D : v[x] = w[x]
  PROVE  SumFunction(w) = SumFunction(v) + w[a]
<1>1. IsFiniteSet(D \cup {a})
  BY FS_AddElement
<1>2. PICK g : IsSum(g, D, v) /\ SumFunction(v) = g[D]
  BY SumIsSum
<1>3. PICK h : IsSum(h, D \cup {a}, w) /\ SumFunction(w) = h[D \cup {a}]
  BY <1>1, SumIsSum
<1>4. g[D] = h[D]
  BY <1>2, <1>3, SumsAgree
<1>7. g[D] \in Int
  BY <1>2 DEF IsSum
<1>5. (D \cup {a}) \ {a} = D /\ w[a] \in Int
  OBVIOUS
<1>6. h[D \cup {a}] = w[a] + h[D]
  BY <1>3, <1>5 DEF IsSum
<1>. QED BY <1>2, <1>3, <1>4, <1>5, <1>6, <1>7

LEMMA SumMoves ==
  ASSUME NEW D, IsFiniteSet(D), NEW a \in D, NEW c \in Int, NEW v \in [D -> Int], NEW w \in [D -> Int],
         w[a] = v[a] + c, \A x \in D \ {a} : v[x] = w[x]
  PROVE  SumFunction(w) = SumFunction(v) + c
<1> DEFINE E == D \ {a}
<1>0. PICK g : IsSum(g, D, v) /\ SumFunction(v) = g[D]
  BY SumIsSum
<1>9. PICK h : IsSum(h, D, w) /\ SumFunction(w) = h[D]
  BY SumIsSum
<1> DEFINE gE == [s \in SUBSET E |-> g[s]]
<1>1. IsFiniteSet(E)
  BY FS_Subset
<1>2. IsSum(gE, E, v)
  BY <1>0 DEF IsSum
<1>3. \A s \in SUBSET E : gE[s] = h[s]
  BY <1>1, <1>2, <1>9, SumsAgree
<1>4. g[D] = v[a] + g[E] /\ h[D] = w[a] + h[E] /\ g[E] \in Int /\ v[a] \in Int
  BY <1>0, <1>9 DEF IsSum
<1>5. h[E] = g[E]
  BY <1>3
<1>. QED BY <1>0, <1>9, <1>4, <1>5
-------------------------------------------------------------------------------
(* Along a sequence *)

(* A value for each number, by the one before.                             *)
Recurs(F, n, base, step) == F[0] = base /\ \A i \in 1 .. n : F[i] = step[<<i, F[i - 1]>>]

LEMMA NumberRecursion ==
  ASSUME NEW n \in Nat, NEW V, NEW base \in V, NEW step \in [(1 .. n) \X V -> V]
  PROVE  \E F \in [0 .. n -> V] : Recurs(F, n, base, step)
<1> DEFINE Good(F, k) == F \in [0 .. k -> V] /\ F[0] = base /\ \A i \in 1 .. k : F[i] = step[<<i, F[i - 1]>>]
           S == {k \in 0 .. n : \E F : Good(F, k)}
<1>1. 0 \in S
  <2>1. Good([k \in 0 .. 0 |-> base], 0)
    OBVIOUS
  <2> HIDE DEF Good
  <2>. QED BY <2>1
<1>2. ASSUME NEW k \in 0 .. n - 1, k \in S PROVE k + 1 \in S
  <2>1. PICK F : Good(F, k)
    BY <1>2
  <2> DEFINE G == [i \in 0 .. k + 1 |-> IF i = k + 1 THEN step[<<k + 1, F[k]>>] ELSE F[i]]
  <2>2. F[k] \in V /\ k + 1 \in 1 .. n
    BY <2>1
  <2>3. step[<<k + 1, F[k]>>] \in V
    BY <2>2
  <2>4. G \in [0 .. k + 1 -> V] /\ G[0] = base
    BY <2>1, <2>3
  <2>5. ASSUME NEW i \in 1 .. k + 1 PROVE G[i] = step[<<i, G[i - 1]>>]
    <3>1. CASE i = k + 1
      <4>1. i - 1 = k /\ k # k + 1 /\ k \in 0 .. k + 1 /\ i \in 0 .. k + 1
        BY <3>1
      <4>2. G[i] = step[<<k + 1, F[k]>>] /\ G[k] = F[k]
        BY <3>1, <4>1
      <4> HIDE DEF G
      <4>. QED BY <4>1, <4>2, <3>1
    <3>2. CASE i # k + 1
      <4>1. i \in 1 .. k /\ i - 1 \in 0 .. k /\ i - 1 # k + 1
        BY <3>2
      <4>. QED BY <4>1, <3>2, <2>1
    <3>. QED BY <3>1, <3>2
  <2>6. Good(G, k + 1) /\ k + 1 \in 0 .. n
    <3> HIDE DEF G
    <3>. QED BY <2>4, <2>5
  <2> HIDE DEF Good, G
  <2>. QED BY <2>6
<1>3. n \in S
  <2> HIDE DEF S
  <2>. QED BY <1>1, <1>2, IntervalInduction
<1>. QED BY <1>3 DEF Recurs

(* FlattenSeq appends the sequences one after the other.                   *)
Flattens(F, seqs) ==
    /\ F[0] = <<>> /\ \A i \in 1 .. Len(seqs) : F[i] = F[i - 1] \o seqs[i]
    /\ F[Len(seqs)] = FlattenSeq(seqs)

LEMMA FlattenSteps ==
  ASSUME NEW S, NEW n \in Nat, NEW seqs \in [1 .. n -> Seq(S)]
  PROVE  \E F \in [0 .. n -> Seq(S)] : Flattens(F, seqs)
<1> DEFINE Join(a, b) == a \o b
           step == [p \in (1 .. n) \X Seq(S) |-> Join(p[2], seqs[p[1]])]
           none == << >>
<1>1. Len(seqs) = n /\ none \in Seq(S)
  OBVIOUS
<1>2. \A a, b \in Seq(S) : Join(a, b) \in Seq(S) /\ Join(none, a) = a
  OBVIOUS
<1> HIDE DEF Join, none
<1>3. step \in [(1 .. n) \X Seq(S) -> Seq(S)]
  BY <1>2
<1>4. PICK F \in [0 .. n -> Seq(S)] : Recurs(F, n, none, step)
  <2> HIDE DEF step
  <2>. QED BY <1>1, <1>3, NumberRecursion
<1>5. ASSUME NEW i \in 1 .. n PROVE i - 1 \in 0 .. n /\ F[i] = Join(F[i - 1], seqs[i])
  <2>1. i - 1 \in 0 .. n /\ F[i - 1] \in Seq(S)
    OBVIOUS
  <2>2. F[i] = step[<<i, F[i - 1]>>]
    <3> HIDE DEF step
    <3>. QED BY <1>4 DEF Recurs
  <2>. QED BY <2>1, <2>2
<1>6. ASSUME FlattenSeq(seqs) = F[n] PROVE Flattens(F, seqs)
  BY <1>1, <1>4, <1>5, <1>6 DEF Flattens, Join, none, Recurs
<1>7. CASE n = 0
  <2>1. seqs = <<>> /\ FlattenSeq(seqs) = seqs
    BY <1>1, <1>7 DEF FlattenSeq
  <2>. QED BY <2>1, <1>4, <1>6, <1>7 DEF none, Recurs
<1>8. CASE n # 0
  <2> DEFINE Is(g) == g = [i \in 1 .. Len(seqs) |-> IF i = 1 THEN seqs[i] ELSE Join(g[i - 1], seqs[i])]
             G == [i \in 1 .. n |-> F[i]]
             c == CHOOSE g : Is(g)
  <2>1. Is(G)
    <3>1. F[1] = seqs[1]
      <4>1. 1 \in 1 .. n /\ 1 - 1 = 0
        BY <1>8
      <4>2. F[1] = Join(F[0], seqs[1]) /\ seqs[1] \in Seq(S)
        BY <4>1, <1>5
      <4>. QED BY <4>2, <1>2, <1>4 DEF Recurs
    <3>2. ASSUME NEW i \in 1 .. n, i # 1 PROVE i - 1 \in 1 .. n /\ F[i] = Join(F[i - 1], seqs[i])
      BY <1>5, <3>2
    <3>. QED BY <3>1, <3>2, <1>1
  <2>2. Is(c)
    <3> HIDE DEF Is
    <3>. QED BY <2>1
  <2>3. FlattenSeq(seqs) = c[n]
    BY <1>1, <1>8 DEF FlattenSeq, Join
  <2> DEFINE A == {i \in 0 .. n : i = 0 \/ c[i] = F[i]}
  <2>4. 0 \in A
    OBVIOUS
  <2>5. ASSUME NEW i \in 0 .. n - 1, i \in A PROVE i + 1 \in A
    <3> HIDE DEF c
    <3>1. i + 1 \in 1 .. n /\ (i + 1) - 1 = i /\ i + 1 \in 0 .. n
      OBVIOUS
    <3>2. c[i + 1] = IF i + 1 = 1 THEN seqs[i + 1] ELSE Join(c[i], seqs[i + 1])
      BY <3>1, <1>1, <2>2
    <3>3. F[i + 1] = Join(F[i], seqs[i + 1]) /\ seqs[i + 1] \in Seq(S)
      BY <3>1, <1>5
    <3>4. CASE i = 0
      <4>1. F[i] = none /\ c[i + 1] = seqs[i + 1]
        BY <3>2, <3>4, <1>4 DEF Recurs
      <4>2. F[i + 1] = seqs[i + 1]
        BY <4>1, <3>3, <1>2
      <4>. QED BY <4>1, <4>2, <3>1
    <3>5. CASE i # 0
      BY <3>1, <3>2, <3>3, <3>5, <2>5
    <3>. QED BY <3>4, <3>5
  <2>6. \A i \in 0 .. n : i \in A
    <3> HIDE DEF A
    <3>. QED BY <2>4, <2>5, IntervalInduction
  <2> HIDE DEF c
  <2>. QED BY <2>3, <2>6, <1>6, <1>8
<1>. QED BY <1>7, <1>8

(* What a sequence has once an element is appended.                         *)
LEMMA AppendedTo ==
  ASSUME NEW S, NEW s \in Seq(S), NEW e \in S
  PROVE  /\ Append(s, e) \in Seq(S) /\ Len(s) \in Nat /\ Len(Append(s, e)) = Len(s) + 1
         /\ DOMAIN s = 1 .. Len(s) /\ DOMAIN Append(s, e) = (1 .. Len(s)) \cup {Len(s) + 1}
         /\ \A i \in 1 .. Len(s) : Append(s, e)[i] = s[i]
         /\ Append(s, e)[Len(s) + 1] = e
<1>1. /\ Append(s, e) \in Seq(S) /\ Len(Append(s, e)) = Len(s) + 1
      /\ \A i \in 1 .. Len(s) : Append(s, e)[i] = s[i]
      /\ Append(s, e)[Len(s) + 1] = e
  BY AppendProperties
<1>2. DOMAIN s = 1 .. Len(s) /\ DOMAIN Append(s, e) = 1 .. (Len(s) + 1) /\ Len(s) \in Nat
  BY <1>1
<1>3. 1 .. (Len(s) + 1) = (1 .. Len(s)) \cup {Len(s) + 1}
  BY <1>2
<1>. QED BY <1>1, <1>2, <1>3

LEMMA ToSetOfJoin ==
  ASSUME NEW S, NEW a \in Seq(S), NEW b \in Seq(S)
  PROVE  ToSet(a \o b) = ToSet(a) \cup ToSet(b)
<1>1. PICK c : c = a \o b
  OBVIOUS
<1>2. /\ c \in Seq(S) /\ Len(c) = Len(a) + Len(b)
      /\ \A i \in 1 .. Len(c) : c[i] = IF i <= Len(a) THEN a[i] ELSE b[i - Len(a)]
  BY <1>1, ConcatProperties
<1>3. Len(a) \in Nat /\ Len(b) \in Nat /\ DOMAIN a = 1 .. Len(a) /\ DOMAIN b = 1 .. Len(b)
      /\ DOMAIN c = 1 .. Len(a) + Len(b)
  BY <1>2
<1>4. ASSUME NEW i \in DOMAIN a PROVE i \in DOMAIN c /\ c[i] = a[i]
  BY <1>2, <1>3
<1>5. ASSUME NEW i \in DOMAIN b PROVE i + Len(a) \in DOMAIN c /\ c[i + Len(a)] = b[i]
  BY <1>2, <1>3
<1>6. ASSUME NEW i \in DOMAIN c
      PROVE  (i \in DOMAIN a /\ c[i] = a[i]) \/ (i - Len(a) \in DOMAIN b /\ c[i] = b[i - Len(a)])
  BY <1>2, <1>3
<1>7. ASSUME NEW x PROVE x \in ToSet(c) <=> x \in ToSet(a) \/ x \in ToSet(b)
  <2>1. x \in ToSet(c) => x \in ToSet(a) \/ x \in ToSet(b)
    BY <1>6 DEF ToSet
  <2>2. x \in ToSet(a) => x \in ToSet(c)
    BY <1>4 DEF ToSet
  <2>3. x \in ToSet(b) => x \in ToSet(c)
    BY <1>5 DEF ToSet
  <2>. QED BY <2>1, <2>2, <2>3
<1>. QED BY <1>1, <1>7

LEMMA FlattenElements ==
  ASSUME NEW S, NEW n \in Nat, NEW seqs \in [1 .. n -> Seq(S)]
  PROVE  FlattenSeq(seqs) \in Seq(S) /\ ToSet(FlattenSeq(seqs)) = UNION {ToSet(seqs[i]) : i \in 1 .. n}
<1>1. PICK F \in [0 .. n -> Seq(S)] : Flattens(F, seqs)
  BY FlattenSteps
<1>2. F[0] = <<>> /\ FlattenSeq(seqs) = F[n] /\ \A i \in 1 .. n : F[i] = F[i - 1] \o seqs[i]
  <2>1. Len(seqs) = n
    OBVIOUS
  <2>. QED BY <1>1, <2>1 DEF Flattens
<1> DEFINE A == {k \in 0 .. n : ToSet(F[k]) = UNION {ToSet(seqs[i]) : i \in 1 .. k}}
<1>3. 0 \in A
  BY <1>2 DEF ToSet
<1>4. ASSUME NEW k \in 0 .. n - 1, k \in A PROVE k + 1 \in A
  <2>1. k + 1 \in 1 .. n /\ (k + 1) - 1 = k /\ k + 1 \in 0 .. n /\ k \in 0 .. n
    OBVIOUS
  <2>2. F[k + 1] = F[k] \o seqs[k + 1] /\ F[k] \in Seq(S) /\ seqs[k + 1] \in Seq(S)
    BY <2>1, <1>2
  <2>3. ToSet(F[k + 1]) = ToSet(F[k]) \cup ToSet(seqs[k + 1])
    BY <2>2, ToSetOfJoin
  <2>4. \A i : i \in 1 .. k + 1 <=> i \in 1 .. k \/ i = k + 1
    OBVIOUS
  <2>5. UNION {ToSet(seqs[i]) : i \in 1 .. k + 1} = (UNION {ToSet(seqs[i]) : i \in 1 .. k}) \cup ToSet(seqs[k + 1])
    <3>1. ASSUME NEW x
          PROVE  (\E i \in 1 .. k + 1 : x \in ToSet(seqs[i]))
                 <=> (\E i \in 1 .. k : x \in ToSet(seqs[i])) \/ x \in ToSet(seqs[k + 1])
      BY <2>4
    <3>. QED BY <3>1
  <2>6. ToSet(F[k]) = UNION {ToSet(seqs[i]) : i \in 1 .. k}
    BY <1>4
  <2>. QED BY <2>1, <2>3, <2>5, <2>6
<1>5. \A k \in 0 .. n : k \in A
  <2> HIDE DEF A
  <2>. QED BY <1>3, <1>4, IntervalInduction
<1>. QED BY <1>2, <1>5

LEMMA FlattenOne == ASSUME NEW S, NEW s \in Seq(S) PROVE FlattenSeq(<<s>>) = s
<1> DEFINE q == <<s>>
<1>1. q \in [1 .. 1 -> Seq(S)] /\ q[1] = s /\ Len(q) = 1
  OBVIOUS
<1> HIDE DEF q
<1>2. PICK F \in [0 .. 1 -> Seq(S)] : Flattens(F, q)
  BY <1>1, FlattenSteps
<1>3. F[0] = <<>> /\ F[1] = F[1 - 1] \o q[1] /\ F[1] = FlattenSeq(q)
  BY <1>1, <1>2 DEF Flattens
<1>4. <<>> \o s = s /\ 1 - 1 = 0
  OBVIOUS
<1>5. FlattenSeq(q) = F[0] \o s
  BY <1>1, <1>3, <1>4
<1>. QED BY <1>3, <1>4, <1>5 DEF q

(* The elements of a sequence are finitely many, and an order of a finite  *)
(* set leaves none of them out.                                            *)
LEMMA FiniteElements == ASSUME NEW S, NEW s \in Seq(S) PROVE IsFiniteSet(ToSet(s))
<1>1. s \in Surjection(1 .. Len(s), ToSet(s))
  <2>1. DOMAIN s = 1 .. Len(s) /\ s \in [1 .. Len(s) -> ToSet(s)]
    BY DEF ToSet
  <2>2. \A x \in ToSet(s) : \E i \in 1 .. Len(s) : s[i] = x
    BY <2>1 DEF ToSet
  <2>. QED BY <2>1, <2>2 DEF Surjection
<1>2. IsFiniteSet(1 .. Len(s))
  BY FS_Interval
<1>. QED BY <1>1, <1>2, FS_Surjection

LEMMA OrderOfSet ==
  ASSUME NEW S, IsFiniteSet(S), NEW o \in SetToSeqs(S)
  PROVE  o \in [1 .. Cardinality(S) -> S] /\ Cardinality(S) \in Nat /\ ToSet(o) = S
         /\ \A i, j \in 1 .. Cardinality(S) : i # j => o[i] # o[j]
<1> DEFINE D == 1 .. Cardinality(S)
<1>1. o \in [D -> S] /\ (\A i, j \in D : i # j => o[i] # o[j]) /\ Cardinality(S) \in Nat
  BY FS_CardinalityType DEF SetToSeqs
<1>2. IsFiniteSet(D) /\ Cardinality(D) = Cardinality(S)
  BY <1>1, FS_Interval
<1>3. o \in Injection(D, S)
  BY <1>1 DEF Injection, IsInjective
<1>4. o \in Surjection(D, S)
  <2> HIDE DEF D
  <2>. QED BY <1>2, <1>3, FS_Injection
<1>5. ToSet(o) = S
  <2> HIDE DEF D
  <2>1. \A x \in S : \E i \in D : o[i] = x
    BY <1>4 DEF Surjection
  <2>. QED BY <2>1, <1>1 DEF ToSet
<1>. QED BY <1>1, <1>5

-------------------------------------------------------------------------------
(* FoldLeft: the fold picks the last element first. *)

Last0(n) == [s \in SUBSET (1 .. n) |-> Max(s)]

LEMMA MaxOfNumbers ==
  ASSUME NEW n \in Nat, NEW s \in SUBSET (0 .. n), s # {}
  PROVE  Max(s) \in s /\ \A x \in s : x <= Max(s)
<1> DEFINE T == {n - x : x \in s}
<1>0. \A x \in s : n - x \in Nat /\ x \in Int
  OBVIOUS
<1>1. T \in SUBSET Nat /\ T # {}
  BY <1>0
<1>2. PICK m \in T : \A k \in T : m <= k
  <2> HIDE DEF T
  <2>. QED BY <1>1, LeastNumber
<1>3. PICK x \in s : m = n - x
  BY <1>2
<1>4. \A y \in s : x >= y
  BY <1>0, <1>2, <1>3
<1>5. x \in s
  OBVIOUS
<1>. QED BY <1>0, <1>4 DEF Max

LEMMA MaxOfUpTo == ASSUME NEW n \in Nat, n # 0 PROVE Max(1 .. n) = n
<1> DEFINE s == 1 .. n
<1>1. s \in SUBSET (0 .. n) /\ s # {} /\ n \in s
  OBVIOUS
<1>2. Max(s) \in s /\ \A x \in s : x <= Max(s)
  <2> HIDE DEF s
  <2>. QED BY <1>1, MaxOfNumbers
<1>. QED BY <1>1, <1>2

LEMMA LargestOf ==
  ASSUME NEW C, IsFiniteSet(C), C # {}, NEW size \in [C -> Nat]
  PROVE  \E m \in C : \A n \in C : size[n] <= size[m]
<1> DEFINE Bounded(T) == \E m \in T : \A n \in T : size[n] <= size[m]
           F == {T \in SUBSET C : T = {} \/ Bounded(T)}
<1>1. {} \in F
  OBVIOUS
<1>2. ASSUME NEW T \in SUBSET C, NEW x \in C \ T, T \in F PROVE T \cup {x} \in F
  <2>1. T \cup {x} \in SUBSET C /\ size[x] \in Nat
    OBVIOUS
  <2>2. CASE T = {}
    <3>1. x \in T \cup {x} /\ \A n \in T \cup {x} : size[n] <= size[x]
      BY <2>1, <2>2
    <3>. QED BY <2>1, <3>1
  <2>3. CASE T # {}
    <3>1. PICK m \in T : \A n \in T : size[n] <= size[m]
      BY <1>2, <2>3
    <3>2. size[m] \in Nat /\ \A n \in T : size[n] \in Nat
      BY <1>2
    <3>3. CASE size[x] <= size[m]
      BY <2>1, <3>1, <3>3
    <3>4. CASE ~(size[x] <= size[m])
      <4>1. \A n \in T \cup {x} : size[n] <= size[x]
        BY <2>1, <3>1, <3>2, <3>4
      <4>. QED BY <2>1, <4>1
    <3>. QED BY <3>3, <3>4
  <2>. QED BY <2>2, <2>3
<1>3. C \in F
  <2> HIDE DEF F
  <2>. QED BY <1>1, <1>2, FiniteSetInduction
<1>. QED BY <1>3

LEMMA LastOfSome ==
  ASSUME NEW n \in Nat, NEW s \in SUBSET (1 .. n), s # {}
  PROVE  Max(s) \in 1 .. n /\ s \ {Max(s)} \in SUBSET (1 .. n)
<1>1. s \in SUBSET (0 .. n)
  OBVIOUS
<1>2. Max(s) \in s
  BY <1>1, MaxOfNumbers
<1>. QED BY <1>2

LEMMA LastPicks == ASSUME NEW n \in Nat PROVE Picks(Last0(n), 1 .. n)
BY MaxOfNumbers DEF Picks, Last0

FoldsLast(g, n, base, step) ==
    g = [s \in SUBSET (1 .. n) |-> IF s = {} THEN base ELSE step[<<Max(s), g[s \ {Max(s)}]>>]]
(* The same of a fold whose results are not known to be in V.              *)
FoldsIn(c, n, V, base, step) ==
    /\ c[{}] = base
    /\ \A s \in SUBSET (1 .. n) : s # {} /\ c[s \ {Max(s)}] \in V => c[s] = step[<<Max(s), c[s \ {Max(s)}]>>]

LEMMA LeftFold ==
  ASSUME NEW n \in Nat, NEW V, NEW base \in V, NEW step \in [(1 .. n) \X V -> V]
  PROVE  \E g \in [SUBSET (1 .. n) -> V] : FoldsLast(g, n, base, step)
<1>1. PICK g \in [SUBSET (1 .. n) -> V] : RecursesOn(g, 1 .. n, Last0(n), base, step)
  <2> DEFINE D == 1 .. n
             pick == Last0(n)
  <2>1. IsFiniteSet(D) /\ Picks(pick, D) /\ step \in [D \X V -> V]
    BY LastPicks, FS_Interval
  <2> HIDE DEF D, pick
  <2>2. \E g \in [SUBSET D -> V] : RecursesOn(g, D, pick, base, step)
    BY <2>1, SetRecursion
  <2>. QED BY <2>2 DEF D, pick
<1>2. \A s \in SUBSET (1 .. n) : Last0(n)[s] = Max(s)
  BY DEF Last0
<1>. QED BY <1>1, <1>2 DEF RecursesOn, FoldsLast

(* What the fold has made of the first elements.                           *)
Folding(c, F, n, V, base, step) ==
    /\ n \in Nat /\ base \in V /\ step \in [(1 .. n) \X V -> V] /\ F \in [0 .. n -> V]
    /\ FoldsIn(c, n, V, base, step) /\ Recurs(F, n, base, step)

LEMMA FoldSteps ==
  ASSUME NEW c, NEW F, NEW n, NEW V, NEW base, NEW step, Folding(c, F, n, V, base, step)
  PROVE  F[n] = c[1 .. n]
<1>0. /\ n \in Nat /\ base \in V /\ step \in [(1 .. n) \X V -> V] /\ F \in [0 .. n -> V]
      /\ FoldsIn(c, n, V, base, step) /\ Recurs(F, n, base, step)
  BY DEF Folding
<1> DEFINE A == {k \in 0 .. n : c[1 .. k] = F[k]}
<1>2. 0 \in A
  BY <1>0 DEF Recurs, FoldsIn
<1>3. ASSUME NEW k \in 0 .. n - 1, k \in A PROVE k + 1 \in A
  <2>1. /\ k + 1 \in 1 .. n /\ (k + 1) - 1 = k /\ k \in 0 .. n /\ k + 1 \in 0 .. n
        /\ 1 .. k + 1 \in SUBSET (1 .. n) /\ 1 .. k + 1 # {}
    <3>1. k + 1 \in 1 .. n /\ (k + 1) - 1 = k /\ k \in 0 .. n /\ k + 1 \in 0 .. n
      BY <1>0
    <3>2. \A i : i \in 1 .. k + 1 => i \in 1 .. n
      BY <1>0
    <3>3. 1 \in 1 .. k + 1
      BY <1>0
    <3>. QED BY <3>1, <3>2, <3>3
  <2>2. Max(1 .. k + 1) = k + 1
    BY <1>0, MaxOfUpTo
  <2>3. (1 .. k + 1) \ {k + 1} = 1 .. k
    BY <1>0
  <2>4. c[1 .. k] = F[k] /\ F[k] \in V
    BY <1>0, <2>1, <1>3
  <2>5. c[1 .. k + 1] = step[<<k + 1, F[k]>>]
    BY <1>0, <2>1, <2>2, <2>3, <2>4 DEF FoldsIn
  <2>6. F[k + 1] = step[<<k + 1, F[k]>>]
    BY <1>0, <2>1 DEF Recurs
  <2>. QED BY <2>1, <2>5, <2>6
<1>4. \A k \in 0 .. n : k \in A
  <2> HIDE DEF A
  <2>. QED BY <1>0, <1>2, <1>3, IntervalInduction
<1>. QED BY <1>0, <1>4

-------------------------------------------------------------------------------
(* The books of a fan-out's budget *)

Accounts == {"max", "spent", "reserved", "cancelled"}
BalanceInv ==
    /\ aggregate \in Nat /\ Allocated \subseteq FanAgents
    /\ \A a \in Allocated : /\ DOMAIN budget[a] = Accounts
                            /\ budget[a].max \in Nat /\ budget[a].spent \in Nat /\ budget[a].reserved \in Nat
    /\ BooksBalance

LEMMA BalanceBegins == FanInit => BalanceInv
<1> SUFFICES ASSUME FanInit PROVE BalanceInv
  OBVIOUS
<1>1. Allocated = {}
  BY DEF FanInit, Allocated
<1>2. [a \in Allocated |-> budget[a].max] \in [{} -> Int] /\ [a \in Allocated |-> budget[a].spent] \in [{} -> Int]
  BY <1>1
<1>3. Promised = 0 /\ Spent = 0
  BY <1>2, SumOfNone DEF Promised, Spent
<1>. QED BY <1>1, <1>3, FanOutAssumption DEF FanInit, BalanceInv, BooksBalance

LEMMA BalanceStep == ASSUME BalanceInv, FanNext PROVE BalanceInv'
<1> DEFINE m0 == [x \in Allocated |-> budget[x].max]
           s0 == [x \in Allocated |-> budget[x].spent]
<1>1. /\ Allocated \subseteq FanAgents /\ IsFiniteSet(Allocated) /\ AggregateMax \in Nat /\ aggregate \in Nat
      /\ \A a \in Allocated : budget[a].max \in Nat /\ budget[a].spent \in Nat /\ budget[a].reserved \in Nat
      /\ Slices \subseteq Nat /\ Costs \subseteq Nat
  BY FS_Subset, FanOutAssumption DEF BalanceInv
<1>2. /\ m0 \in [Allocated -> Int] /\ s0 \in [Allocated -> Int]
      /\ Promised = SumFunction(m0) /\ Spent = SumFunction(s0)
  BY <1>1 DEF Promised, Spent
<1>3. ASSUME NEW a \in FanAgents, NEW m \in Slices, AllocateAgent(a, m) PROVE BalanceInv'
  <2> DEFINE m1 == [x \in Allocated' |-> budget'[x].max]
             s1 == [x \in Allocated' |-> budget'[x].spent]
  <2>1. /\ a \notin Allocated /\ Promised + m <= AggregateMax /\ aggregate' = aggregate
        /\ Allocated' = Allocated \cup {a} /\ \A x \in Allocated : budget'[x] = budget[x]
        /\ budget'[a].max = m /\ budget'[a].spent = 0 /\ budget'[a].reserved = 0
        /\ DOMAIN budget'[a] = Accounts
    BY <1>3 DEF AllocateAgent, Fits, Allocated, Accounts
  <2>2. /\ m1 \in [Allocated \cup {a} -> Int] /\ s1 \in [Allocated \cup {a} -> Int]
        /\ \A x \in Allocated : m0[x] = m1[x] /\ s0[x] = s1[x]
        /\ m1[a] = m /\ s1[a] = 0 /\ Promised' = SumFunction(m1) /\ Spent' = SumFunction(s1)
    BY <1>1, <2>1 DEF Promised, Spent
  <2>3. Promised' = Promised + m /\ Spent' = Spent + 0 /\ Spent \in Int
    <3> HIDE DEF m0, s0, m1, s1
    <3>0. IsFiniteSet(Allocated) /\ a \notin Allocated
      BY <1>1, <2>1
    <3>1. SumFunction(m1) = SumFunction(m0) + m1[a]
      <4>1. m0 \in [Allocated -> Int] /\ m1 \in [Allocated \cup {a} -> Int] /\ \A x \in Allocated : m0[x] = m1[x]
        BY <1>2, <2>2
      <4>. QED BY <3>0, <4>1, SumGrows
    <3>2. SumFunction(s1) = SumFunction(s0) + s1[a]
      <4>1. s0 \in [Allocated -> Int] /\ s1 \in [Allocated \cup {a} -> Int] /\ \A x \in Allocated : s0[x] = s1[x]
        BY <1>2, <2>2
      <4>. QED BY <3>0, <4>1, SumGrows
    <3>3. SumFunction(s0) \in Int
      BY <1>1, <1>2, SumType
    <3>. QED BY <1>2, <2>2, <3>1, <3>2, <3>3
  <2>4. \A x \in Allocated' : budget'[x].reserved <= budget'[x].max
    BY <2>1, <1>1 DEF BalanceInv, BooksBalance
  <2>5. /\ aggregate' \in Nat /\ Allocated' \subseteq FanAgents
        /\ \A x \in Allocated' : /\ DOMAIN budget'[x] = Accounts
                                /\ budget'[x].max \in Nat /\ budget'[x].spent \in Nat /\ budget'[x].reserved \in Nat
    <3> HIDE DEF m0, s0, m1, s1
    <3>. QED BY <1>1, <2>1 DEF BalanceInv
  <2>6. BooksBalance'
    BY <2>1, <2>3, <2>4 DEF BalanceInv, BooksBalance
  <2>. QED BY <2>5, <2>6 DEF BalanceInv
<1>4. ASSUME NEW a \in FanAgents, NEW c \in Costs, RecordCost(a, c) \/ Reserve(a, c) PROVE BalanceInv'
  <2> DEFINE m1 == [x \in Allocated |-> budget'[x].max]
             s1 == [x \in Allocated |-> budget'[x].spent]
             booked == aggregate' - aggregate
  <2>1. /\ a \in Allocated /\ Allocated' = Allocated /\ booked \in Nat /\ aggregate' = aggregate + booked
        /\ \A x \in Allocated :
             /\ budget'[x].max = budget[x].max
             /\ budget'[x].spent = IF x = a THEN budget[x].spent + booked ELSE budget[x].spent
             /\ budget'[x].reserved \in Nat /\ budget'[x].reserved <= budget[x].max
             /\ DOMAIN budget'[x] = Accounts
    <3>1. CASE RecordCost(a, c)
      <4>1. /\ a \in Allocated /\ aggregate' = aggregate + c /\ Allocated' = Allocated
            /\ \A x \in Allocated : budget'[x] = [budget[x] EXCEPT !.spent = IF x = a THEN @ + c ELSE @,
                                                    !.cancelled = @ \/ x \in CancelledBy(a, c)]
        BY <3>1 DEF RecordCost, Allocated
      <4>2. booked = c /\ c \in Nat
        <5>1. c \in Nat /\ aggregate \in Nat
          BY <1>1
        <5>2. aggregate' = aggregate + c
          BY <3>1 DEF RecordCost
        <5>. QED BY <5>1, <5>2
      <4>3. ASSUME NEW x \in Allocated
            PROVE  /\ budget'[x].max = budget[x].max /\ budget'[x].reserved = budget[x].reserved
                   /\ budget'[x].spent = IF x = a THEN budget[x].spent + c ELSE budget[x].spent
                   /\ DOMAIN budget'[x] = Accounts
        <5>1. DOMAIN budget[x] = Accounts
          BY DEF BalanceInv
        <5> HIDE DEF m0, s0
        <5>. QED BY <4>1, <5>1 DEF Accounts
      <4>. QED BY <1>1, <4>1, <4>2, <4>3 DEF BalanceInv, BooksBalance
    <3>2. CASE Reserve(a, c)
      <4>1. /\ a \in Allocated /\ aggregate' = aggregate /\ Allocated' = Allocated
            /\ budget[a].spent + budget[a].reserved + c <= budget[a].max
            /\ budget' = [budget EXCEPT ![a].reserved = @ + c]
        BY <3>2 DEF Reserve, Allocated
      <4>2. booked = 0 /\ c \in Nat
        BY <1>1, <4>1
      <4>3. ASSUME NEW x \in Allocated
            PROVE  /\ budget'[x].max = budget[x].max /\ budget'[x].spent = budget[x].spent
                   /\ budget'[x].reserved = IF x = a THEN budget[x].reserved + c ELSE budget[x].reserved
                   /\ DOMAIN budget'[x] = Accounts
        <5>1. DOMAIN budget[x] = Accounts
          BY DEF BalanceInv
        <5>. QED BY <4>1, <5>1 DEF Accounts, Allocated
      <4>. QED BY <4>1, <4>2, <4>3, <1>1 DEF BalanceInv, BooksBalance
    <3>. QED BY <3>1, <3>2, <1>4
  <2>2. /\ m1 \in [Allocated -> Int] /\ s1 \in [Allocated -> Int]
        /\ m1[a] = m0[a] + 0 /\ s1[a] = s0[a] + booked
        /\ \A x \in Allocated \ {a} : m0[x] = m1[x] /\ s0[x] = s1[x]
        /\ Promised' = SumFunction(m1) /\ Spent' = SumFunction(s1)
    <3> HIDE DEF booked
    <3>. QED BY <1>1, <2>1 DEF Promised, Spent
  <2>3. Promised' = Promised + 0 /\ Spent' = Spent + booked /\ Promised \in Int
    <3> DEFINE zero == 0
    <3>1. zero \in Int /\ booked \in Int /\ m1[a] = m0[a] + zero
      BY <2>1, <2>2
    <3> HIDE DEF m0, s0, m1, s1, booked, zero
    <3>2. Promised' = Promised + zero
      BY <1>1, <1>2, <2>1, <2>2, <3>1, SumMoves
    <3>3. Spent' = Spent + booked /\ Promised \in Int
      BY <1>1, <1>2, <2>1, <2>2, <3>1, SumMoves, SumType
    <3>. QED BY <3>2, <3>3 DEF zero
  <2> HIDE DEF booked
  <2>4. BooksBalance'
    BY <2>1, <2>3 DEF BalanceInv, BooksBalance
  <2>5. /\ aggregate' \in Nat /\ Allocated' \subseteq FanAgents
        /\ \A x \in Allocated' : /\ DOMAIN budget'[x] = Accounts
                                /\ budget'[x].max \in Nat /\ budget'[x].spent \in Nat /\ budget'[x].reserved \in Nat
    <3> HIDE DEF m0, s0, m1, s1
    <3>. QED BY <1>1, <2>1
  <2>. QED BY <2>4, <2>5 DEF BalanceInv
<1>5. CASE GateNext
  BY <1>5 DEF GateNext, UpdateState, Wait, EndWaiting, WaitReleased, WaitTimesOut, budgetVars, BalanceInv, BooksBalance,
     Allocated, Promised, Spent
<1>. QED BY <1>3, <1>4, <1>5 DEF FanNext, BudgetNext

(* The aggregate is what the agents spent, and what is promised fits it.   *)
THEOREM BooksAreBalanced == FanSpec => []BooksBalance
<1>1. FanInit => BalanceInv
  BY BalanceBegins
<1>2. BalanceInv /\ [FanNext]_fanVars => BalanceInv'
  <2>1. ASSUME BalanceInv, UNCHANGED fanVars PROVE BalanceInv'
    BY <2>1 DEF BalanceInv, BooksBalance, fanVars, budgetVars, Allocated, Promised, Spent
  <2>. QED BY <2>1, BalanceStep
<1>3. BalanceInv => BooksBalance
  BY DEF BalanceInv
<1>. QED BY <1>1, <1>2, <1>3, PTL DEF FanSpec

-------------------------------------------------------------------------------
(* What a tool gave back *)

ScanResults == [outcome : {"PASS", "WARNED", "REDACTED", "DENIED"}, text : Seq(Fragments)]

(* A text a redaction leaves, and what no scan of some takes out.          *)
Marked(text, s) ==
    [i \in DOMAIN text |-> IF i \in FoundIn(text, s.pattern) THEN Replacement(s, text[i]) ELSE text[i]]
Sought(all, fragment) == \E u \in all : Cleans(u) /\ fragment \in FoundBy[u.pattern]
InertScans(all) ==
    \A t \in all : Cleans(t) => \A f \in FoundBy[t.pattern] : ~Sought(all, Replacement(t, f))
Settled(all, data) == InertScans(all) /\ StandApart(data)
Stays(all, text, data) ==
    DOMAIN text = DOMAIN data /\ \A i \in DOMAIN text : Sought(all, text[i]) => text[i] = data[i]

(* A redaction leaves nothing of what it takes out, and uncovers nothing   *)
(* of what was not found before.                                           *)
LEMMA MarksAndKeeps ==
  ASSUME NEW data \in Seq(Fragments), NEW text \in Seq(Fragments), NEW all \in SUBSET ScanType, NEW s \in all,
         Cleans(s), Settled(all, data), Stays(all, text, data)
  PROVE  /\ Stays(all, Marked(text, s), data)
         /\ \A u \in all : Cleans(u) /\ (u = s \/ FoundIn(text, u.pattern) = {})
              => FoundIn(Marked(text, s), u.pattern) = {}
<1> DEFINE new == Marked(text, s)
           found == FoundIn(text, s.pattern)
<1>1. /\ DOMAIN new = DOMAIN text /\ found \in SUBSET DOMAIN text
      /\ \A i \in DOMAIN text : new[i] = IF i \in found THEN Replacement(s, text[i]) ELSE text[i]
  BY DEF Marked, FoundIn
<1>2. \A i \in found : text[i] \in FoundBy[s.pattern]
  BY DEF FoundIn
<1>3. \A i \in found : ~Sought(all, new[i]) /\ Sought(all, text[i])
  <2>1. \A i \in found : ~Sought(all, Replacement(s, text[i])) /\ Sought(all, text[i])
    BY <1>2 DEF Settled, InertScans, Sought
  <2>. QED BY <1>1, <2>1
<1>4. \A u \in all : u.pattern \in DOMAIN FoundBy
  BY DEF ScanType
<1> HIDE DEF new, found
<1>5. Stays(all, new, data)
  BY <1>1, <1>3 DEF Stays
<1>6. ASSUME NEW u \in all, Cleans(u), u = s \/ FoundIn(text, u.pattern) = {}, NEW i \in FoundIn(new, u.pattern)
      PROVE  FALSE
  <2>1. /\ i \in DOMAIN text /\ new[i] \in FoundBy[u.pattern] /\ Sought(all, new[i])
        /\ u.pattern \in WordBounded => \A j \in NextTo(new, i) : new[j] \notin WordFragments
    BY <1>1, <1>6 DEF FoundIn, AtBoundaries, Sought
  <2>2. i \notin found /\ new[i] = text[i] /\ text[i] = data[i] /\ i \in DOMAIN data
    BY <1>1, <1>3, <2>1 DEF Stays
  <2>3. i \notin FoundIn(text, u.pattern)
    BY <1>6, <2>2 DEF found
  <2>4. u.pattern \in WordBounded /\ \E j \in NextTo(text, i) : text[j] \in WordFragments
    BY <2>1, <2>2, <2>3 DEF FoundIn, AtBoundaries
  <2>5. PICK j \in NextTo(text, i) : text[j] \in WordFragments
    BY <2>4
  <2>6. j \in DOMAIN text /\ j \in NextTo(new, i) /\ j \in NextTo(data, i) /\ new[j] \notin WordFragments
    BY <1>1, <2>1, <2>4, <2>5 DEF NextTo, Stays
  <2>7. j \in found
    BY <1>1, <2>5, <2>6
  <2>8. text[j] = data[j] /\ data[j] \in WordFragments
    BY <1>3, <2>5, <2>6, <2>7 DEF Stays
  <2>9. data[i] \in WordFragments
    BY <2>1, <2>2, <2>4, PostScanAssumption
  <2>. QED BY <2>2, <2>6, <2>8, <2>9 DEF Settled, StandApart, AtBoundaries
<1>. QED BY <1>5, <1>6 DEF new

(* What a number of scans, first to last, have made of a text: nothing     *)
(* that one of them takes out is left when the replacements are inert and  *)
(* words stood apart, and without any it is as it was.                     *)
Cleaned(r, data, all, hunts) ==
    /\ r.outcome # "DENIED" => Stays(all, r.text, data)
    /\ \A s \in hunts : Cleans(s) => FoundIn(r.text, s.pattern) = {}
ScannedBy(r, data, all, hunts) ==
    /\ r \in ScanResults
    /\ r.outcome = "DENIED" => r.text = <<>>
    /\ r.outcome \in {"PASS", "WARNED"} => r.text = data
    /\ Settled(all, data) => Cleaned(r, data, all, hunts)
    /\ (\A s \in hunts : Cleans(s) => FoundIn(data, s.pattern) = {}) => r.outcome \in {"PASS", "WARNED"}

LEMMA OneScan ==
  ASSUME NEW data \in Seq(Fragments), NEW all \in SUBSET ScanType, NEW hunts \in SUBSET all, NEW r,
         ScannedBy(r, data, all, hunts), NEW s \in all
  PROVE  ScannedBy(ApplyScan(r, s), data, all, hunts \cup {s})
<1> DEFINE found == FoundIn(r.text, s.pattern)
           marked == Marked(r.text, s)
<1>1. /\ r.outcome \in {"PASS", "WARNED", "REDACTED", "DENIED"} /\ r.text \in Seq(Fragments)
      /\ s.pattern \in DOMAIN FoundBy /\ s.action \in Actions
  BY DEF ScannedBy, ScanResults, ScanType
<1>2. \A p : FoundIn(<<>>, p) = {}
  BY DEF FoundIn
<1>3. CASE r.outcome = "DENIED"
  <2>1. ApplyScan(r, s) = r
    BY <1>3 DEF ApplyScan
  <2>2. FoundIn(r.text, s.pattern) = {}
    BY <1>1, <1>2, <1>3 DEF ScannedBy
  <2>. QED BY <2>1, <2>2 DEF ScannedBy, Cleaned
<1>4. CASE r.outcome # "DENIED" /\ found = {}
  <2>1. ApplyScan(r, s) = r
    BY <1>4 DEF ApplyScan
  <2>. QED BY <2>1, <1>4 DEF ScannedBy, Cleaned
<1>5. CASE r.outcome # "DENIED" /\ found # {}
  <2>0. (s.action = "deny" \/ s.action = "redact") <=> Cleans(s)
    BY DEF Cleans
  <2>a. ASSUME Cleans(s) PROVE ~(\A t \in hunts \cup {s} : Cleans(t) => FoundIn(data, t.pattern) = {})
    <3>1. SUFFICES ASSUME \A t \in hunts \cup {s} : Cleans(t) => FoundIn(data, t.pattern) = {} PROVE FALSE
      OBVIOUS
    <3>2. FoundIn(data, s.pattern) = {} /\ r.outcome \in {"PASS", "WARNED"} /\ r.text = data
      BY <3>1, <2>a DEF ScannedBy
    <3>. QED BY <3>2, <1>5
  <2>1. CASE s.action = "deny"
    <3>1. ApplyScan(r, s) = Result("DENIED", <<>>)
      BY <1>5, <2>1 DEF ApplyScan
    <3> DEFINE q == Result("DENIED", <<>>)
    <3>2. q \in ScanResults /\ q.outcome = "DENIED" /\ q.text = <<>>
      BY DEF Result, ScanResults
    <3> HIDE DEF q
    <3>3. Cleaned(q, data, all, hunts \cup {s})
      BY <3>2, <1>2 DEF Cleaned
    <3>4. ScannedBy(q, data, all, hunts \cup {s})
      BY <3>2, <3>3, <2>0, <2>1, <2>a DEF ScannedBy
    <3>. QED BY <3>1, <3>4 DEF q
  <2>2. CASE s.action = "redact"
    <3>1. ApplyScan(r, s) = Result("REDACTED", marked)
      BY <1>5, <2>2 DEF ApplyScan, Marked
    <3>2. marked \in Seq(Fragments)
      <4>1. \A f \in Fragments : Replacement(s, f) \in Fragments
        BY PostScanAssumption DEF Replacement, ScanType, Replacements
      <4> DEFINE text == r.text
      <4>2. \A i \in 1 .. Len(text) : marked[i] \in Fragments
        BY <1>1, <4>1 DEF Marked
      <4>3. marked = [i \in 1 .. Len(text) |-> marked[i]] /\ Len(text) \in Nat
        BY <1>1 DEF Marked
      <4> DEFINE n == Len(text)
                 new == marked
      <4> HIDE DEF new, n
      <4>4. n \in Nat /\ new = [i \in 1 .. n |-> new[i]] /\ \A i \in 1 .. n : new[i] \in Fragments
        BY <4>2, <4>3 DEF new, n
      <4>5. new \in Seq(Fragments)
        BY <4>4
      <4>. QED BY <4>5 DEF new
    <3> DEFINE q == Result("REDACTED", marked)
    <3>3. q \in ScanResults /\ q.outcome = "REDACTED" /\ q.text = marked
      BY <3>2 DEF Result, ScanResults
    <3> HIDE DEF q
    <3>4. ASSUME Settled(all, data) PROVE Cleaned(q, data, all, hunts \cup {s})
      <4>1. Stays(all, r.text, data) /\ \A t \in hunts : Cleans(t) => FoundIn(r.text, t.pattern) = {}
        BY <3>4, <1>5 DEF ScannedBy, Cleaned
      <4>2. /\ Stays(all, marked, data)
            /\ \A u \in all : Cleans(u) /\ (u = s \/ FoundIn(r.text, u.pattern) = {}) => FoundIn(marked, u.pattern) = {}
        BY <1>1, <2>0, <2>2, <3>4, <4>1, MarksAndKeeps
      <4> HIDE DEF marked
      <4>. QED BY <3>3, <4>1, <4>2 DEF Cleaned
    <3>5. ScannedBy(q, data, all, hunts \cup {s})
      BY <3>3, <3>4, <2>0, <2>2, <2>a DEF ScannedBy
    <3>. QED BY <3>1, <3>5 DEF q
  <2>3. CASE ~Cleans(s)
    <3>1. s.action # "deny" /\ s.action # "redact"
      BY <2>3, <2>0
    <3>2. CASE s.action = "warn" /\ r.outcome = "PASS"
      <4>1. ApplyScan(r, s) = Result("WARNED", r.text)
        BY <1>5, <3>1, <3>2 DEF ApplyScan
      <4> DEFINE q == Result("WARNED", r.text)
      <4>2. q \in ScanResults /\ q.outcome = "WARNED" /\ q.text = r.text
        BY <1>1 DEF Result, ScanResults
      <4> HIDE DEF q
      <4>3. ScannedBy(q, data, all, hunts \cup {s})
        BY <4>2, <2>3, <3>2 DEF ScannedBy, Cleaned
      <4>. QED BY <4>1, <4>3 DEF q
    <3>3. CASE ~(s.action = "warn" /\ r.outcome = "PASS")
      <4>1. ApplyScan(r, s) = r
        BY <1>5, <3>1, <3>3 DEF ApplyScan
      <4>. QED BY <4>1, <2>3 DEF ScannedBy, Cleaned
    <3>. QED BY <3>2, <3>3
  <2>. QED BY <2>0, <2>1, <2>2, <2>3
<1>. QED BY <1>3, <1>4, <1>5

LEMMA ScansInTurn ==
  ASSUME NEW data \in Seq(Fragments), NEW l \in Seq(ScanType)
  PROVE  ScannedBy(FoldLeft(ApplyScan, Result("PASS", data), l), data, ToSet(l), ToSet(l))
<1> DEFINE n == Len(l)
           base == Result("PASS", data)
           all == ToSet(l)
           Upto(k) == {l[j] : j \in 1 .. k}
           V == {r \in ScanResults : \E hunts \in SUBSET all : ScannedBy(r, data, all, hunts)}
           step == [p \in (1 .. n) \X V |-> ApplyScan(p[2], l[p[1]])]
           Folds(g) == g = [s \in SUBSET (1 .. n) |->
                               IF s = {} THEN base ELSE ApplyScan(g[s \ {Max(s)}], l[Max(s)])]
<1>0. n \in Nat /\ l \in [1 .. n -> ScanType] /\ DOMAIN l = 1 .. n /\ all \in SUBSET ScanType
      /\ \A i \in 1 .. n : l[i] \in all
  BY DEF ToSet
<1>1. base \in V /\ ScannedBy(base, data, all, {})
  <2>1. base \in ScanResults
    BY DEF Result, ScanResults
  <2>2. ScannedBy(base, data, all, {})
    <3>1. base.outcome = "PASS" /\ base.text = data
      BY DEF Result
    <3> HIDE DEF base, all
    <3>. QED BY <2>1, <3>1 DEF ScannedBy, Cleaned, Stays
  <2>. QED BY <2>1, <2>2
<1>2. ASSUME NEW i \in 1 .. n, NEW r \in V PROVE ApplyScan(r, l[i]) \in V
  <2>1. PICK hunts \in SUBSET all : ScannedBy(r, data, all, hunts)
    OBVIOUS
  <2>2. ScannedBy(ApplyScan(r, l[i]), data, all, hunts \cup {l[i]})
    <3> HIDE DEF all
    <3>. QED BY <2>1, <1>0, OneScan
  <2>3. hunts \cup {l[i]} \in SUBSET all
    BY <1>0
  <2>. QED BY <2>2, <2>3 DEF ScannedBy
<1>3. step \in [(1 .. n) \X V -> V] /\ \A i \in 1 .. n, r \in V : step[<<i, r>>] = ApplyScan(r, l[i])
  <2> HIDE DEF V, n
  <2>. QED BY <1>2
<1> HIDE DEF V, step, base, n, all
<1>4. PICK g \in [SUBSET (1 .. n) -> V] : FoldsLast(g, n, base, step)
  BY <1>0, <1>1, <1>3, LeftFold
<1>5. \A s \in SUBSET (1 .. n) : s # {} => Max(s) \in 1 .. n /\ s \ {Max(s)} \in SUBSET (1 .. n)
  BY <1>0, LastOfSome
<1>6. Folds(g)
  <2>1. ASSUME NEW s \in SUBSET (1 .. n), s # {}
        PROVE  step[<<Max(s), g[s \ {Max(s)}]>>] = ApplyScan(g[s \ {Max(s)}], l[Max(s)])
    BY <1>3, <1>5, <2>1
  <2>. QED BY <2>1, <1>4 DEF FoldsLast
<1> DEFINE c == CHOOSE h : Folds(h)
<1>7. Folds(c)
  <2> HIDE DEF Folds
  <2>. QED BY <1>6
<1>8. FoldLeft(ApplyScan, base, l) = c[1 .. n]
  BY <1>0, Zenon DEF FoldLeft, MapThenFoldSet
<1> HIDE DEF c
<1>9. c[{}] = base /\ \A s \in SUBSET (1 .. n) : s # {} => c[s] = ApplyScan(c[s \ {Max(s)}], l[Max(s)])
  BY <1>7
<1>10. FoldsIn(c, n, V, base, step)
  BY <1>3, <1>5, <1>9 DEF FoldsIn
<1>11. PICK F \in [0 .. n -> V] : Recurs(F, n, base, step)
  BY <1>0, <1>1, <1>3, NumberRecursion
<1>17. F[n] = c[1 .. n]
  <2>1. n \in Nat /\ base \in V /\ step \in [(1 .. n) \X V -> V] /\ F \in [0 .. n -> V]
    BY <1>0, <1>1, <1>3
  <2>2. FoldsIn(c, n, V, base, step) /\ Recurs(F, n, base, step)
    BY <1>10, <1>11
  <2>3. Folding(c, F, n, V, base, step)
    BY <2>1, <2>2 DEF Folding
  <2>. QED BY <2>3, FoldSteps
<1> DEFINE A == {k \in 0 .. n : ScannedBy(F[k], data, all, Upto(k))}
<1>12. 0 \in A
  <2>1. Upto(0) = {} /\ F[0] = base /\ 0 \in 0 .. n
    BY <1>0, <1>11 DEF Recurs
  <2> HIDE DEF Upto
  <2>. QED BY <2>1, <1>1
<1>13. ASSUME NEW k \in 0 .. n - 1, k \in A PROVE k + 1 \in A
  <2>1. k + 1 \in 1 .. n /\ (k + 1) - 1 = k /\ k + 1 \in 0 .. n /\ F[k] \in V
    BY <1>0
  <2>2. F[k + 1] = ApplyScan(F[k], l[k + 1])
    BY <2>1, <1>3, <1>11 DEF Recurs
  <2>3. Upto(k) \in SUBSET all /\ l[k + 1] \in all
    BY <1>0, <2>1
  <2>4. Upto(k + 1) = Upto(k) \cup {l[k + 1]}
    <3>1. k \in Nat
      BY <1>0
    <3>2. 1 .. k + 1 = (1 .. k) \cup {k + 1}
      BY <3>1
    <3>. QED BY <3>2
  <2>5. ScannedBy(F[k], data, all, Upto(k))
    BY <1>13
  <2>6. ScannedBy(ApplyScan(F[k], l[k + 1]), data, all, Upto(k) \cup {l[k + 1]})
    <3> HIDE DEF Upto
    <3>. QED BY <1>0, <2>3, <2>5, OneScan
  <2>. QED BY <2>1, <2>2, <2>4, <2>6
<1>14. \A k \in 0 .. n : k \in A
  <2> HIDE DEF A
  <2>. QED BY <1>0, <1>12, <1>13, IntervalInduction
<1>15. all = Upto(n)
  BY <1>0 DEF ToSet, all
<1>16. ScannedBy(F[n], data, all, Upto(n))
  BY <1>0, <1>14
<1>. QED BY <1>8, <1>17, <1>15, <1>16 DEF base, all

LEMMA ScanOnce ==
  ASSUME NEW doc \in PostDocs, PatternsCompile(doc.rules), NEW tool, NEW l \in ApplyingTo(NewScanner(doc), tool)
  PROVE  l \in Seq(ScanType) /\ ToSet(l) = ScansFor(doc, tool)
<1> DEFINE rules == doc.rules
           n == Len(rules)
           tools == {rules[i].tool : i \in DOMAIN rules}
           group(t) == [i \in 1 .. n |-> IF rules[i].tool = t THEN rules[i].scan ELSE <<>>]
           groups == {t \in tools : tool \in ToolPatterns[t]}
<1>1. n \in Nat /\ DOMAIN rules = 1 .. n /\ \A i \in 1 .. n : rules[i].scan \in Seq(ScanType)
  <2>1. rules \in Seq([tool : DOMAIN ToolPatterns, scan : Seq([pattern : STRING, action : Actions, replacement : Replacements])])
    BY PostScanAssumption DEF PostDocs
  <2>2. n \in Nat /\ DOMAIN rules = 1 .. n
        /\ \A i \in 1 .. n : rules[i].scan \in Seq([pattern : STRING, action : Actions, replacement : Replacements])
    <3> HIDE DEF rules
    <3>1. n \in Nat /\ DOMAIN rules = 1 .. n
      BY <2>1
    <3>2. ASSUME NEW i \in 1 .. n
          PROVE  rules[i] \in [tool : DOMAIN ToolPatterns, scan : Seq([pattern : STRING, action : Actions, replacement : Replacements])]
      BY <3>1, <2>1, ElementOfSeq DEF n
    <3>3. \A i \in 1 .. n : rules[i].scan \in Seq([pattern : STRING, action : Actions, replacement : Replacements])
      <4> HIDE DEF n
      <4>. QED BY <3>2
    <3>. QED BY <3>1, <3>3
  <2>3. ASSUME NEW i \in 1 .. n PROVE rules[i].scan \in Seq(ScanType)
    <3> DEFINE sc == rules[i].scan
    <3>1. sc \in Seq([pattern : STRING, action : Actions, replacement : Replacements])
      BY <2>2
    <3>2. \A j \in DOMAIN sc : sc[j] \in [pattern : STRING, action : Actions, replacement : Replacements] /\ sc[j].pattern \in DOMAIN FoundBy
      <4>1. \A j \in DOMAIN sc : sc[j].pattern \in DOMAIN FoundBy
        BY <2>2 DEF PatternsCompile
      <4>2. \A j \in DOMAIN sc : sc[j] \in [pattern : STRING, action : Actions, replacement : Replacements]
        <5> HIDE DEF sc
        <5>. QED BY <3>1, ElementOfSeq, LenProperties
      <4>. QED BY <4>1, <4>2
    <3>3. \A j \in 1 .. Len(sc) : sc[j] \in ScanType
      <4> HIDE DEF sc
      <4>. QED BY <3>1, <3>2 DEF ScanType
    <3> HIDE DEF sc
    <3>4. sc \in Seq(ScanType)
      BY <3>1, <3>3
    <3>. QED BY <3>4 DEF sc
  <2>. QED BY <2>2, <2>3
<1> HIDE DEF n
<1>2. ASSUME NEW t
      PROVE  /\ FlattenSeq(group(t)) \in Seq(ScanType)
             /\ ToSet(FlattenSeq(group(t)))
                  = {s \in ScanType : \E i \in 1 .. n : rules[i].tool = t /\ s \in ToSet(rules[i].scan)}
  <2> DEFINE G == group(t)
  <2>1. G \in [1 .. n -> Seq(ScanType)]
    BY <1>1
  <2>2. \A i \in 1 .. n : ToSet(G[i]) = IF rules[i].tool = t THEN ToSet(rules[i].scan) ELSE {}
    BY DEF ToSet
  <2>3. \A i \in 1 .. n : ToSet(rules[i].scan) \in SUBSET ScanType
    BY <1>1 DEF ToSet
  <2> HIDE DEF G
  <2>4. FlattenSeq(G) \in Seq(ScanType) /\ ToSet(FlattenSeq(G)) = UNION {ToSet(G[i]) : i \in 1 .. n}
    BY <1>1, <2>1, FlattenElements
  <2>5. UNION {ToSet(G[i]) : i \in 1 .. n}
          = {s \in ScanType : \E i \in 1 .. n : rules[i].tool = t /\ s \in ToSet(rules[i].scan)}
    BY <2>2, <2>3
  <2>. QED BY <2>4, <2>5 DEF G
<1>3. IsFiniteSet(groups)
  <2> DEFINE T == [i \in 1 .. n |-> rules[i].tool]
  <2>1. T \in Seq({rules[i].tool : i \in 1 .. n})
    BY <1>1
  <2>2. ToSet(T) = tools
    BY <1>1 DEF ToSet
  <2> HIDE DEF T
  <2>3. IsFiniteSet(tools)
    BY <2>1, <2>2, FiniteElements
  <2>. QED BY <2>3, FS_Subset
<1>4. \A t \in tools : Grouped(rules)[t] = FlattenSeq(group(t)) 
  BY <1>1 DEF Grouped
<1>5. PICK o \in SetToSeqs(groups) : l = FlattenSeq([i \in DOMAIN o |-> Grouped(rules)[o[i]]])
  <2>1. NewScanner(doc).compiled = Grouped(rules) /\ DOMAIN Grouped(rules) = tools
    BY DEF NewScanner, Grouped
  <2> HIDE DEF tools
  <2>. QED BY <2>1 DEF ApplyingTo
<1> DEFINE m == Cardinality(groups)
           L == [i \in 1 .. m |-> FlattenSeq(group(o[i]))]
<1>6. o \in [1 .. m -> groups] /\ m \in Nat /\ ToSet(o) = groups
  <2> HIDE DEF groups
  <2>. QED BY <1>3, OrderOfSet
<1>7. \A i \in 1 .. m : o[i] \in groups
  BY <1>6
<1>8. l = FlattenSeq(L)
  <2>1. DOMAIN o = 1 .. m
    BY <1>6
  <2>2. \A i \in 1 .. m : o[i] \in tools
    BY <1>7
  <2> HIDE DEF m, group, tools
  <2>3. [i \in DOMAIN o |-> Grouped(rules)[o[i]]] = L
    BY <2>1, <2>2, <1>4
  <2>. QED BY <1>5, <2>3
<1>9. L \in [1 .. m -> Seq(ScanType)] /\ \A i \in 1 .. m : ToSet(L[i])
         = {s \in ScanType : \E j \in 1 .. n : rules[j].tool = o[i] /\ s \in ToSet(rules[j].scan)}
  <2> HIDE DEF m, group
  <2>. QED BY <1>2
<1> HIDE DEF L
<1>10. FlattenSeq(L) \in Seq(ScanType) /\ ToSet(FlattenSeq(L)) = UNION {ToSet(L[i]) : i \in 1 .. m}
  <2> HIDE DEF m
  <2>. QED BY <1>6, <1>9, FlattenElements
<1>11. UNION {ToSet(L[i]) : i \in 1 .. m} = ScansFor(doc, tool)
  <2>1. ASSUME NEW s \in ScansFor(doc, tool) PROVE s \in UNION {ToSet(L[i]) : i \in 1 .. m}
    <3>1. PICK j \in 1 .. n : tool \in ToolPatterns[rules[j].tool] /\ s \in ToSet(rules[j].scan)
      BY <1>1 DEF ScansFor
    <3>2. rules[j].tool \in groups
      BY <1>1, <3>1
    <3>3. PICK i \in 1 .. m : o[i] = rules[j].tool
      <4> HIDE DEF groups, m
      <4>. QED BY <3>2, <1>6 DEF ToSet
    <3>4. s \in ToSet(L[i])
      <4> HIDE DEF groups, m
      <4>. QED BY <3>1, <3>3, <1>9 DEF ScansFor
    <3>. QED BY <3>4
  <2>2. ASSUME NEW i \in 1 .. m, NEW s \in ToSet(L[i]) PROVE s \in ScansFor(doc, tool)
    <3>1. s \in ScanType /\ \E j \in 1 .. n : rules[j].tool = o[i] /\ s \in ToSet(rules[j].scan)
      BY <1>9
    <3>. QED BY <3>1, <1>1, <1>7 DEF ScansFor
  <2>3. ScansFor(doc, tool) \in SUBSET UNION {ToSet(L[i]) : i \in 1 .. m}
    BY <2>1
  <2>. QED BY <2>2, <2>3
<1>. QED BY <1>8, <1>10, <1>11

(* What the properties ask of a tool's scans, of the set of them.          *)
LEMMA SettledScans ==
  ASSUME NEW doc, NEW tool, NEW data
  PROVE  /\ Inert(doc, tool) /\ StandApart(data) => Settled(ScansFor(doc, tool), data)
         /\ ~Finds(doc, tool, data) <=> \A t \in ScansFor(doc, tool) : Cleans(t) => FoundIn(data, t.pattern) = {}
<1>1. ~Finds(doc, tool, data) <=> \A t \in ScansFor(doc, tool) : Cleans(t) => FoundIn(data, t.pattern) = {}
  BY DEF Finds
<1>2. ASSUME Inert(doc, tool) PROVE InertScans(ScansFor(doc, tool))
  BY <1>2 DEF Inert, InertScans, Sought
<1>. QED BY <1>1, <1>2 DEF Settled

Made(r, doc, tool, data) ==
    /\ r \in ScanResults
    /\ r.outcome = "DENIED" => r.text = <<>>
    /\ r.outcome \in {"PASS", "WARNED"} => r.text = data
    /\ ScannerOf(doc).on /\ Inert(doc, tool) /\ StandApart(data) => ~Finds(doc, tool, r.text)
    /\ (doc.max = 0 \/ Len(data) <= doc.max) /\ ~Finds(doc, tool, data)
       => r.outcome \in {"PASS", "WARNED"}

LEMMA ScanMakes ==
  ASSUME NEW doc \in PostDocs, NEW tool, NEW data \in Seq(Fragments), NEW r \in Scan(ScannerOf(doc), tool, data)
  PROVE  Made(r, doc, tool, data)
<1>1. CASE ~ScannerOf(doc).on
  <2>1. r = Result("PASS", data)
    BY <1>1 DEF Scan
  <2>2. r \in ScanResults /\ r.outcome = "PASS" /\ r.text = data
    BY <2>1 DEF ScanResults, Result
  <2>. QED BY <1>1, <2>2 DEF Made
<1>2. CASE ScannerOf(doc).on
  <2>1. ScannerOf(doc) = NewScanner(doc) /\ PatternsCompile(doc.rules) /\ NewScanner(doc).max = doc.max /\ NewScanner(doc).on
    BY <1>2 DEF ScannerOf, NoScanner, NewScanner
  <2>2. CASE doc.max > 0 /\ Len(data) > doc.max
    <3>1. r = Result("DENIED", <<>>)
      BY <2>1, <2>2 DEF Scan
    <3>2. r \in ScanResults /\ r.outcome = "DENIED" /\ r.text = <<>>
      BY <3>1 DEF ScanResults, Result
    <3>3. ~Finds(doc, tool, r.text)
      BY <3>2 DEF FoundIn, Finds
    <3>4. doc.max \in Nat /\ Len(data) \in Nat
      <4>1. doc.max \in MaxOutputs
        BY DEF PostDocs
      <4>2. MaxOutputs \in SUBSET Nat
        BY PostScanAssumption
      <4>3. Len(data) \in Nat
        BY LenProperties
      <4>. QED BY <4>1, <4>2, <4>3
    <3>5. ~(doc.max = 0 \/ Len(data) <= doc.max)
      BY <2>2, <3>4
    <3>. QED BY <3>2, <3>3, <3>5 DEF Made
  <2>3. CASE ~(doc.max > 0 /\ Len(data) > doc.max)
    <3>1. PICK l \in ApplyingTo(NewScanner(doc), tool) : r = FoldLeft(ApplyScan, Result("PASS", data), l)
      BY <2>1, <2>3 DEF Scan
    <3>2. l \in Seq(ScanType) /\ ToSet(l) = ScansFor(doc, tool)
      BY <2>1, ScanOnce
    <3>3. ScannedBy(r, data, ScansFor(doc, tool), ScansFor(doc, tool))
      BY <3>1, <3>2, ScansInTurn
    <3>4. Inert(doc, tool) /\ StandApart(data) => ~Finds(doc, tool, r.text)
      BY <3>3, SettledScans DEF ScannedBy, Cleaned
    <3>5. ~Finds(doc, tool, data) => r.outcome \in {"PASS", "WARNED"}
      BY <3>3, SettledScans DEF ScannedBy
    <3>. QED BY <3>3, <3>4, <3>5 DEF ScannedBy, Made
  <2>. QED BY <2>2, <2>3
<1>. QED BY <1>1, <1>2

ItemType(S) == [text : Seq(S), embedded : Seq(S)]

LEMMA AllTextOf == ASSUME NEW S, NEW items \in Seq(ItemType(S)) PROVE AllText(items) \in Seq(S) /\ ContentText(items) \in Seq(S)
<1> DEFINE n == Len(items)
           T == [i \in 1 .. n |-> items[i].text]
           A == [i \in 1 .. n |-> items[i].text \o items[i].embedded]
<1>1. n \in Nat /\ DOMAIN items = 1 .. n
  BY LenProperties
<1>2. ASSUME NEW i \in 1 .. n PROVE items[i].text \in Seq(S) /\ items[i].embedded \in Seq(S)
  <2>1. items[i] \in ItemType(S)
    BY <1>1, ElementOfSeq
  <2>. QED BY <2>1 DEF ItemType
<1>3. \A i \in 1 .. n : items[i].text \o items[i].embedded \in Seq(S)
  BY <1>2, ConcatProperties
<1> HIDE DEF n
<1>4. T \in [1 .. n -> Seq(S)] /\ A \in [1 .. n -> Seq(S)]
  BY <1>2, <1>3
<1> HIDE DEF T, A
<1>5. FlattenSeq(T) \in Seq(S) /\ FlattenSeq(A) \in Seq(S)
  BY <1>1, <1>4, FlattenElements
<1>6. ContentText(items) = FlattenSeq(T) /\ AllText(items) = FlattenSeq(A)
  BY <1>1 DEF ContentText, AllText, ItemText, T, A
<1>. QED BY <1>5, <1>6

LEMMA TextsOf ==
  ASSUME NEW items \in ToolResults
  PROVE  /\ AllText(items) \in Seq(Fragments)
         /\ ExtractToolResultText(items) \in Seq(Fragments)
<1>1. items \in Seq(ItemType(Fragments))
  BY PostScanAssumption DEF ItemType
<1>. QED BY <1>1, AllTextOf DEF ExtractToolResultText

LEMMA AnswerType ==
  ASSUME NEW items \in ToolResults, NEW r \in ScanResults
  PROVE  AllText(PostScanned(items, r)) \in Seq(Fragments)
<1> DEFINE M == Fragments
           new == [items EXCEPT ![1].text = r.text]
<1>0. ItemType(Fragments) \in SUBSET ItemType(M)
  <2>1. Seq(Fragments) \in SUBSET Seq(M)
    OBVIOUS
  <2>. QED BY <2>1 DEF ItemType
<1>1. items \in Seq(ItemType(M)) /\ r.text \in Seq(M) /\ <<>> \in Seq(M)
  <2>1. items \in Seq(ItemType(Fragments))
    BY PostScanAssumption DEF ItemType
  <2>2. r.text \in Seq(M)
    BY DEF ScanResults
  <2> HIDE DEF M
  <2>. QED BY <2>1, <2>2, <1>0
<1> HIDE DEF M
<1>2. <<[text |-> r.text, embedded |-> <<>>]>> \in Seq(ItemType(M))
  BY <1>1 DEF ItemType
<1>5. <<>> \in Seq(ItemType(M))
  <2> DEFINE I == ItemType(M)
  <2> HIDE DEF I
  <2>1. <<>> \in Seq(I)
    OBVIOUS
  <2>. QED BY <2>1 DEF I
<1>3. CASE items # <<>>
  <2>1. DOMAIN items = 1 .. Len(items) /\ Len(items) \in Nat /\ items \in [1 .. Len(items) -> ItemType(M)]
    BY <1>1, LenProperties
  <2>2. 1 \in DOMAIN items /\ items[1] \in ItemType(M)
    BY <1>1, <1>3, <2>1, ElementOfSeq
  <2>3. [items[1] EXCEPT !.text = r.text] \in ItemType(M)
    BY <2>2, <1>1 DEF ItemType
  <2>4. new = [items EXCEPT ![1] = [items[1] EXCEPT !.text = r.text]]
    BY <2>2
  <2>5. new \in Seq(ItemType(M))
    <3> DEFINE one == [items[1] EXCEPT !.text = r.text]
    <3> HIDE DEF one
    <3>1. [items EXCEPT ![1] = one] \in Seq(ItemType(M))
      <4>1. one \in ItemType(M) /\ 1 \in 1 .. Len(items)
        BY <2>1, <2>2, <2>3 DEF one
      <4>. QED BY <4>1, <1>1, ExceptSeq
    <3>. QED BY <3>1, <2>4 DEF one
  <2>6. PostScanned(items, r) \in {<<>>, items, new}
    <3> HIDE DEF new
    <3>1. RebuildMCPResultWithText(items, r.text) = new
      BY <1>3 DEF RebuildMCPResultWithText, new
    <3>. QED BY <3>1 DEF PostScanned
  <2>7. \A x \in {<<>>, items, new} : x \in Seq(ItemType(M))
    <3> HIDE DEF new
    <3>. QED BY <1>1, <1>5, <2>5
  <2> HIDE DEF new
  <2>. QED BY <2>6, <2>7, AllTextOf DEF M
<1>4. CASE items = <<>>
  <2>1. PostScanned(items, r) \in {<<>>, items, <<[text |-> r.text, embedded |-> <<>>]>>}
    BY <1>4 DEF PostScanned, RebuildMCPResultWithText
  <2>2. \A x \in {<<>>, items, <<[text |-> r.text, embedded |-> <<>>]>>} : x \in Seq(ItemType(M))
    BY <1>1, <1>2, <1>5
  <2>. QED BY <2>1, <2>2, AllTextOf DEF M
<1>. QED BY <1>3, <1>4

LEMMA OneItem ==
  ASSUME NEW S, NEW data \in Seq(S), NEW new \in Seq(S)
  PROVE  LET items == <<[text |-> data, embedded |-> <<>>]>> IN
         /\ AllText(items) = data /\ ContentText(items) = data /\ ExtractToolResultText(items) = data
         /\ AllText(RebuildMCPResultWithText(items, new)) = new
<1> DEFINE items == <<[text |-> data, embedded |-> <<>>]>>
           wrap == <<[text |-> new, embedded |-> <<>>]>>
<1>1. RebuildMCPResultWithText(items, new) = wrap
  <2>1. items # <<>> /\ [items EXCEPT ![1].text = new] = wrap
    OBVIOUS
  <2>. QED BY <2>1 DEF RebuildMCPResultWithText
<1>2. ASSUME NEW t \in Seq(S)
      PROVE  AllText(<<[text |-> t, embedded |-> <<>>]>>) = t /\ ContentText(<<[text |-> t, embedded |-> <<>>]>>) = t
  <2> DEFINE one == <<[text |-> t, embedded |-> <<>>]>>
  <2>0. t \o <<>> = t
    BY ConcatEmptySeq
  <2>1. /\ [i \in DOMAIN one |-> one[i].text \o one[i].embedded] = <<t \o <<>>>>
        /\ [i \in DOMAIN one |-> one[i].text] = <<t>>
    <3>1. DOMAIN one = 1 .. 1 /\ one[1].text = t /\ one[1].embedded = <<>>
      OBVIOUS
    <3> HIDE DEF one
    <3>2. \A u : [i \in 1 .. 1 |-> u] = <<u>>
      OBVIOUS
    <3>3. \A i \in 1 .. 1 : i = 1
      OBVIOUS
    <3>4. /\ [i \in DOMAIN one |-> one[i].text \o one[i].embedded] = [i \in 1 .. 1 |-> t \o <<>>]
          /\ [i \in DOMAIN one |-> one[i].text] = [i \in 1 .. 1 |-> t]
      BY <3>1, <3>3
    <3>. QED BY <3>2, <3>4
  <2>2. FlattenSeq(<<t>>) = t
    BY FlattenOne
  <2>. QED BY <2>0, <2>1, <2>2 DEF AllText, ContentText, ItemText
<1>. QED BY <1>1, <1>2 DEF ExtractToolResultText

(* What the properties say of one scanning.                                *)
CleanIn(s) ==
    s.scanner /\ OneText(s) /\ Inert(s.doc, s.tool) /\ StandApart(s.sent) => ~Finds(s.doc, s.tool, s.got)
WholeIn(s) ==
    (s.doc.max = 0 \/ Len(s.sent) <= s.doc.max) /\ ~Finds(s.doc, s.tool, s.sent) => s.got = AllText(s.items)
Scanning(s) ==
    /\ s.doc \in PostDocs /\ s.items \in ToolResults /\ s.scanner = ScannerOf(s.doc).on
    /\ s.sent = IF s.via = "text" THEN AllText(s.items) ELSE ExtractToolResultText(s.items)

LEMMA OfText ==
  ASSUME NEW s, Scanning(s), s.via = "text", NEW r \in Scan(ScannerOf(s.doc), s.tool, s.sent), s.got = r.text
  PROVE  CleanIn(s) /\ WholeIn(s)
<1>1. s.doc \in PostDocs /\ s.items \in ToolResults /\ s.scanner = ScannerOf(s.doc).on /\ s.sent = AllText(s.items)
  BY DEF Scanning
<1>2. s.sent \in Seq(Fragments)
  BY <1>1, TextsOf
<1>3. /\ r.outcome \in {"PASS", "WARNED"} => r.text = s.sent
      /\ s.scanner /\ Inert(s.doc, s.tool) /\ StandApart(s.sent) => ~Finds(s.doc, s.tool, s.got)
      /\ (s.doc.max = 0 \/ Len(s.sent) <= s.doc.max) /\ ~Finds(s.doc, s.tool, s.sent)
         => r.outcome \in {"PASS", "WARNED"}
  <2>1. Made(r, s.doc, s.tool, s.sent)
    BY <1>1, <1>2, ScanMakes
  <2>. QED BY <1>1, <2>1 DEF Made
<1>4. CleanIn(s)
  BY <1>3 DEF CleanIn
<1>5. WholeIn(s)
  BY <1>1, <1>3 DEF WholeIn
<1>. QED BY <1>4, <1>5

LEMMA OfAnswer ==
  ASSUME NEW s, Scanning(s), s.via = "mcp", s.sent # <<>>, NEW r \in Scan(ScannerOf(s.doc), s.tool, s.sent),
         s.got = AllText(PostScanned(s.items, r))
  PROVE  CleanIn(s) /\ WholeIn(s)
<1>1. /\ s.doc \in PostDocs /\ s.items \in ToolResults /\ s.scanner = ScannerOf(s.doc).on
      /\ s.sent = ExtractToolResultText(s.items)
  BY DEF Scanning
<1>2. s.sent \in Seq(Fragments)
  BY <1>1, TextsOf
<1>3. /\ r \in ScanResults
      /\ r.outcome = "DENIED" => r.text = <<>>
      /\ r.outcome \in {"PASS", "WARNED"} => r.text = s.sent
      /\ s.scanner /\ Inert(s.doc, s.tool) /\ StandApart(s.sent) => ~Finds(s.doc, s.tool, r.text)
      /\ (s.doc.max = 0 \/ Len(s.sent) <= s.doc.max) /\ ~Finds(s.doc, s.tool, s.sent)
         => r.outcome \in {"PASS", "WARNED"}
  <2>1. Made(r, s.doc, s.tool, s.sent)
    BY <1>1, <1>2, ScanMakes
  <2>. QED BY <1>1, <2>1 DEF Made
<1>4. CleanIn(s)
  <2>1. SUFFICES ASSUME s.scanner, Len(s.items) = 1, s.items[1].embedded = <<>>, Inert(s.doc, s.tool), StandApart(s.sent)
                 PROVE  ~Finds(s.doc, s.tool, s.got)
    BY DEF CleanIn, OneText
  <2>2. s.got = r.text
    <3> DEFINE data == s.items[1].text
    <3>1. data \in Seq(Fragments) /\ s.items = <<[text |-> data, embedded |-> <<>>]>>
      <4>1. s.items \in Seq(ItemType(Fragments))
        BY <1>1, PostScanAssumption DEF ItemType
      <4>2. s.items[1] \in ItemType(Fragments)
        BY <4>1, <2>1, ElementOfSeq
      <4>3. s.items[1] = [text |-> data, embedded |-> <<>>] /\ data \in Seq(Fragments)
        BY <4>2, <2>1 DEF ItemType
      <4>4. s.items = <<s.items[1]>>
        BY <4>1, <2>1
      <4>. QED BY <4>3, <4>4
    <3> HIDE DEF data
    <3> DEFINE M == Fragments
    <3>2. data \in Seq(M) /\ r.text \in Seq(M) /\ <<>> \in Seq(M)
      BY <3>1, <1>3 DEF ScanResults
    <3> HIDE DEF M
    <3>3. /\ AllText(s.items) = data /\ ExtractToolResultText(s.items) = data
          /\ AllText(RebuildMCPResultWithText(s.items, r.text)) = r.text
      BY <3>1, <3>2, OneItem
    <3>4. s.sent = data
      BY <1>1, <3>3
    <3>5. CASE r.outcome = "DENIED"
      <4>1. PostScanned(s.items, r) = <<>>
        BY <3>5 DEF PostScanned
      <4>2. AllText(<<>>) = <<>>
        <5>1. [i \in DOMAIN <<>> |-> <<>>[i].text \o <<>>[i].embedded] = <<>>
          OBVIOUS
        <5>2. FlattenSeq(<<>>) = <<>>
          <6>1. Len(<<>>) = 0
            OBVIOUS
          <6>. QED BY <6>1, Zenon DEF FlattenSeq
        <5>. QED BY <5>1, <5>2 DEF AllText
      <4>. QED BY <4>1, <4>2, <3>5, <1>3
    <3>6. CASE r.outcome # "DENIED" /\ r.text # data
      <4>1. r.outcome \in {"REDACTED", "WARNED"}
        BY <3>4, <3>6, <1>3 DEF ScanResults
      <4>2. PostScanned(s.items, r) = RebuildMCPResultWithText(s.items, r.text)
        BY <4>1, <3>3, <3>6 DEF PostScanned
      <4>. QED BY <4>2, <3>3
    <3>7. CASE r.outcome # "DENIED" /\ r.text = data
      <4>1. PostScanned(s.items, r) = s.items
        BY <3>3, <3>7 DEF PostScanned
      <4>. QED BY <4>1, <3>3, <3>7
    <3>. QED BY <3>5, <3>6, <3>7
  <2>. QED BY <1>3, <2>1, <2>2
<1>5. WholeIn(s)
  <2>1. SUFFICES ASSUME s.doc.max = 0 \/ Len(s.sent) <= s.doc.max, ~Finds(s.doc, s.tool, s.sent)
                 PROVE  s.got = AllText(s.items)
    BY DEF WholeIn
  <2>2. r.outcome \in {"PASS", "WARNED"}
    BY <1>3, <2>1
  <2>3. PostScanned(s.items, r) = s.items
    BY <2>2, <1>1, <1>3 DEF PostScanned
  <2>. QED BY <2>3
<1>. QED BY <1>4, <1>5

(* A result without a text anywhere is handed on.                          *)
LEMMA OfNothing ==
  ASSUME NEW s, Scanning(s), s.via = "mcp", s.sent = <<>>, s.got = AllText(s.items)
  PROVE  CleanIn(s) /\ WholeIn(s)
<1>1. AllText(s.items) = <<>>
  <2>1. s.items \in ToolResults /\ ExtractToolResultText(s.items) = <<>>
    BY DEF Scanning
  <2>. QED BY <2>1 DEF ExtractToolResultText
<1>2. \A p : FoundIn(<<>>, p) = {}
  BY DEF FoundIn
<1>. QED BY <1>1, <1>2 DEF CleanIn, WholeIn, Finds


Scannings == {s \in [via : {"text", "mcp"}, tool : OutputTools, doc : PostDocs, scanner : BOOLEAN,
                     items : ToolResults, sent : Seq(Fragments), outcome : {"PASS", "WARNED", "REDACTED", "DENIED"},
                     got : Seq(Fragments)] : Scanning(s)}
KeptScannings == {s \in Scannings : CleanIn(s) /\ WholeIn(s)}
OutputsInv ==
    /\ postDoc \in PostDocs /\ firstDoc \in PostDocs
    /\ postScanner = ScannerOf(postDoc)
    /\ RulesAreCompiled
    /\ scanned \in Seq(KeptScannings)

LEMMA OutputsBegin == PostInit => OutputsInv
<1>. SUFFICES ASSUME PostInit PROVE OutputsInv
  OBVIOUS
<1>1. postDoc \in PostDocs /\ firstDoc = postDoc /\ postScanner = ScannerOf(postDoc) /\ scanned = <<>>
  BY DEF PostInit
<1>2. scanned \in Seq(KeptScannings)
  BY <1>1
<1>. QED BY <1>1, <1>2 DEF OutputsInv, RulesAreCompiled

(* A scanning that ScanOutput or AnswerToolCall records is one that keeps  *)
(* the promise.                                                            *)
LEMMA Recorded ==
  ASSUME OutputsInv, NEW via \in {"text", "mcp"}, NEW tool \in OutputTools, NEW items \in ToolResults,
         NEW data, NEW r \in ScanResults, NEW got \in Seq(Fragments),
         Scanned(via, tool, items, data, r, got),
         data = IF via = "text" THEN AllText(items) ELSE ExtractToolResultText(items),
         \/ r \in Scan(postScanner, tool, data) /\ via = "text" /\ got = r.text
         \/ r \in Scan(postScanner, tool, data) /\ via = "mcp" /\ data # <<>> /\ got = AllText(PostScanned(items, r))
         \/ via = "mcp" /\ data = <<>> /\ got = AllText(items)
  PROVE  scanned' \in Seq(KeptScannings)
<1> DEFINE s == [via |-> via, tool |-> tool, doc |-> postDoc, scanner |-> postScanner.on,
                 items |-> items, sent |-> data, outcome |-> r.outcome, got |-> got]
<1>1. postDoc \in PostDocs /\ postScanner = ScannerOf(postDoc) /\ scanned \in Seq(KeptScannings)
  BY DEF OutputsInv
<1>2. postScanner.on \in BOOLEAN /\ data \in Seq(Fragments)
  <2>1. postScanner.on \in BOOLEAN
    BY <1>1 DEF ScannerOf, NoScanner, NewScanner
  <2>. QED BY <2>1, TextsOf
<1>3. s \in [via : {"text", "mcp"}, tool : OutputTools, doc : PostDocs, scanner : BOOLEAN, items : ToolResults,
             sent : Seq(Fragments), outcome : {"PASS", "WARNED", "REDACTED", "DENIED"},
             got : Seq(Fragments)]
  <2>1. r.outcome \in {"PASS", "WARNED", "REDACTED", "DENIED"}
    BY DEF ScanResults
  <2>. QED BY <2>1, <1>1, <1>2
<1>4. /\ s.via = via /\ s.tool = tool /\ s.doc = postDoc /\ s.scanner = ScannerOf(postDoc).on
      /\ s.items = items /\ s.sent = data /\ s.got = got
  BY <1>1
<1>5. scanned' = Append(scanned, s)
  BY DEF Scanned
<1> HIDE DEF s
<1>6. Scanning(s)
  BY <1>1, <1>4 DEF Scanning
<1>7. CleanIn(s) /\ WholeIn(s)
  <2>1. CASE r \in Scan(postScanner, tool, data) /\ via = "text" /\ got = r.text
    BY <2>1, <1>1, <1>4, <1>6, OfText
  <2>2. CASE r \in Scan(postScanner, tool, data) /\ via = "mcp" /\ data # <<>> /\ got = AllText(PostScanned(items, r))
    BY <2>2, <1>1, <1>4, <1>6, OfAnswer
  <2>3. CASE via = "mcp" /\ data = <<>> /\ got = AllText(items)
    BY <2>3, <1>4, <1>6, OfNothing
  <2>. QED BY <2>1, <2>2, <2>3
<1>8. s \in KeptScannings
  BY <1>3, <1>6, <1>7 DEF KeptScannings, Scannings
<1>. QED BY <1>1, <1>5, <1>8, AppendProperties

LEMMA OutputsStep == OutputsInv /\ [PostNext]_scanVars => OutputsInv'
<1>. SUFFICES ASSUME OutputsInv, [PostNext]_scanVars PROVE OutputsInv'
  OBVIOUS
<1>0. /\ postDoc \in PostDocs /\ firstDoc \in PostDocs /\ postScanner = ScannerOf(postDoc)
      /\ RulesAreCompiled /\ scanned \in Seq(KeptScannings)
  BY DEF OutputsInv
<1>1. ASSUME NEW tool \in OutputTools, NEW items \in ToolResults, ScanOutput(tool, items) PROVE OutputsInv'
  <2> DEFINE data == AllText(items)
  <2>1. UNCHANGED <<postDoc, firstDoc, postScanner>>
    BY <1>1 DEF ScanOutput
  <2>2. PICK r \in Scan(postScanner, tool, data) : Scanned("text", tool, items, data, r, r.text)
    BY <1>1 DEF ScanOutput
  <2> HIDE DEF data
  <2>3. r \in ScanResults /\ r.text \in Seq(Fragments)
    <3>1. data \in Seq(Fragments)
      BY TextsOf DEF data
    <3>2. Made(r, postDoc, tool, data)
      BY <1>0, <3>1, ScanMakes
    <3>. QED BY <3>2 DEF Made, ScanResults
  <2>4. scanned' \in Seq(KeptScannings)
    BY <2>2, <2>3, Recorded DEF data
  <2>. QED BY <1>0, <2>1, <2>4 DEF OutputsInv, RulesAreCompiled
<1>2. ASSUME NEW tool \in OutputTools, NEW items \in ToolResults, AnswerToolCall(tool, items) PROVE OutputsInv'
  <2> DEFINE data == ExtractToolResultText(items)
  <2>1. UNCHANGED <<postDoc, firstDoc, postScanner>>
    BY <1>2 DEF AnswerToolCall
  <2>2. data \in Seq(Fragments) /\ AllText(items) \in Seq(Fragments)
    <3>1. data \in Seq(Fragments) /\ AllText(items) \in Seq(Fragments)
      BY TextsOf
    <3>2. Seq(Fragments) \in SUBSET Seq(Fragments)
      OBVIOUS
    <3>. QED BY <3>1, <3>2
  <2>3. CASE data = <<>>
    <3> DEFINE r == Result("PASS", data)
    <3>1. Scanned("mcp", tool, items, data, r, AllText(items))
      BY <1>2, <2>3 DEF AnswerToolCall
    <3>2. r \in ScanResults
      <4>1. data \in Seq(Fragments)
        BY <2>2
      <4> HIDE DEF data
      <4>. QED BY <4>1 DEF Result, ScanResults
    <3> HIDE DEF r
    <3>3. scanned' \in Seq(KeptScannings)
      BY <2>2, <2>3, <3>1, <3>2, Recorded
    <3>. QED BY <1>0, <2>1, <3>3 DEF OutputsInv, RulesAreCompiled
  <2>4. CASE data # <<>>
    <3>1. PICK r \in Scan(postScanner, tool, data) : Scanned("mcp", tool, items, data, r, AllText(PostScanned(items, r)))
      BY <1>2, <2>4 DEF AnswerToolCall
    <3>2. r \in ScanResults
      <4> HIDE DEF data
      <4>1. Made(r, postDoc, tool, data)
        BY <1>0, <2>2, ScanMakes
      <4>. QED BY <4>1 DEF Made
    <3>3. AllText(PostScanned(items, r)) \in Seq(Fragments)
      BY <3>2, AnswerType
    <3>4. scanned' \in Seq(KeptScannings)
      BY <2>2, <2>4, <3>1, <3>2, <3>3, Recorded
    <3>. QED BY <1>0, <2>1, <3>4 DEF OutputsInv, RulesAreCompiled
  <2>. QED BY <2>3, <2>4
<1>3. ASSUME NEW doc \in PostDocs, ApplyPostRules(doc) PROVE OutputsInv'
  <2>1. scanned' = scanned /\ firstDoc' = firstDoc
    BY <1>3 DEF ApplyPostRules
  <2>2. CASE doc.rules # <<>> /\ ~ScannerOf(doc).on
    BY <1>0, <1>3, <2>1, <2>2 DEF ApplyPostRules, OutputsInv, RulesAreCompiled
  <2>3. CASE ~(doc.rules # <<>> /\ ~ScannerOf(doc).on)
    <3>1. postDoc' = doc /\ postScanner' = ScannerOf(doc)
      BY <1>3, <2>3 DEF ApplyPostRules
    <3>2. ~(doc.rules # <<>> /\ ~postScanner'.on)
      BY <2>3, <3>1
    <3>. QED BY <1>0, <2>1, <3>1, <3>2 DEF OutputsInv, RulesAreCompiled
  <2>. QED BY <2>2, <2>3
<1>4. CASE UNCHANGED scanVars
  BY <1>0, <1>4 DEF scanVars, OutputsInv, RulesAreCompiled
<1>. QED BY <1>1, <1>2, <1>3, <1>4 DEF PostNext

LEMMA OutputsInvHolds == OutputsInv => OutputsHold
<1>. SUFFICES ASSUME OutputsInv PROVE OutputsHold
  OBVIOUS
<1>1. RulesAreCompiled /\ scanned \in Seq(KeptScannings)
  BY DEF OutputsInv
<1>2. \A n \in DOMAIN scanned : scanned[n] \in KeptScannings
  BY <1>1, LenProperties, ElementOfSeq
<1>3. \A n \in DOMAIN scanned : CleanIn(scanned[n]) /\ WholeIn(scanned[n])
  BY <1>2 DEF KeptScannings
<1>4. OneTextIsClean
  BY <1>3 DEF OneTextIsClean, CleanIn
<1>5. CleanIsUntouched
  BY <1>3 DEF CleanIsUntouched, WholeIn
<1>. QED BY <1>1, <1>4, <1>5 DEF OutputsHold

THEOREM OutputsAreScanned == PostSpec => []OutputsHold
<1>1. PostInit => OutputsInv
  BY OutputsBegin
<1>2. OutputsInv /\ [PostNext]_scanVars => OutputsInv'
  BY OutputsStep
<1>3. OutputsInv => OutputsHold
  BY OutputsInvHolds
<1>. QED BY <1>1, <1>2, <1>3, PTL DEF PostSpec

-------------------------------------------------------------------------------
(* Canonical texts *)

(* A part of a sequence, and a character that is found in it.              *)
LEMMA PartOf ==
  ASSUME NEW S, NEW s \in Seq(S), NEW a \in Nat, a >= 1, a <= Len(s) + 1
  PROVE  LET u == SubSeq(s, a, Len(s)) IN
         /\ u \in Seq(S) /\ Len(u) = Len(s) - a + 1
         /\ \A i \in 1 .. Len(u) : u[i] = s[a + i - 1]
<1>1. a \in 1 .. Len(s) + 1 /\ Len(s) \in a - 1 .. Len(s)
  BY LenProperties
<1>. QED BY <1>1, SubSeqProperties

LEMMA TrimType == ASSUME NEW S, NEW s \in Seq(S) PROVE Trim(s) \in Seq(S)
<1> DEFINE ink == {n \in DOMAIN s : s[n] # " "}
           first == CHOOSE n \in ink : \A k \in ink : n <= k
           last == CHOOSE n \in ink : \A k \in ink : k <= n
<1>1. Len(s) \in Nat /\ DOMAIN s = 1 .. Len(s)
  BY LenProperties
<1>2. CASE ink = {}
  <2>1. Trim(s) = <<>>
    BY <1>2 DEF Trim
  <2>. QED BY <2>1
<1>3. CASE ink # {}
  <2>1. Trim(s) = SubSeq(s, first, last)
    BY <1>3 DEF Trim
  <2>2. ink \in SUBSET (0 .. Len(s)) /\ ink \in SUBSET Nat
    <3>1. ink \in SUBSET (1 .. Len(s))
      BY <1>1
    <3>2. \A x \in 1 .. Len(s) : x \in 0 .. Len(s) /\ x \in Nat
      BY <1>1
    <3> HIDE DEF ink
    <3>. QED BY <3>1, <3>2
  <2>3. \E n \in ink : \A k \in ink : n <= k
    <3> HIDE DEF ink
    <3>. QED BY <1>3, <2>2, LeastNumber
  <2>4. \E n \in ink : \A k \in ink : k <= n
    <3> HIDE DEF ink
    <3>. QED BY <1>1, <1>3, <2>2, MaxOfNumbers
  <2>5. first \in ink /\ last \in ink
    <3> HIDE DEF ink
    <3>. QED BY <2>3, <2>4
  <2>6. first \in 1 .. Len(s) /\ last \in 1 .. Len(s)
    BY <2>5, <1>1
  <2> HIDE DEF first, last
  <2>. QED BY <2>1, <2>6, <1>1
<1>. QED BY <1>2, <1>3

(* What a table makes of a text, character by character.                   *)
LEMMA ReplacedBy ==
  ASSUME NEW S, NEW s \in Seq(S), NEW table, \A c \in DOMAIN table : table[c] \in Seq(S)
  PROVE  /\ Replaced(s, table) \in Seq(S)
         /\ \A c \in ToSet(Replaced(s, table)) :
              \/ c \in ToSet(s) /\ c \notin DOMAIN table
              \/ \E d \in DOMAIN table : d \in ToSet(s) /\ c \in ToSet(table[d])
<1> DEFINE n == Len(s)
           L == [i \in 1 .. n |-> IF s[i] \in DOMAIN table THEN table[s[i]] ELSE <<s[i]>>]
<1>1. n \in Nat /\ DOMAIN s = 1 .. n /\ \A i \in 1 .. n : s[i] \in S
  BY LenProperties, ElementOfSeq
<1> HIDE DEF n
<1>2. L \in [1 .. n -> Seq(S)]
  <2>1. \A i \in 1 .. n : <<s[i]>> \in Seq(S)
    BY <1>1
  <2>. QED BY <2>1
<1>3. \A i \in 1 .. n : ToSet(L[i]) = IF s[i] \in DOMAIN table THEN ToSet(table[s[i]]) ELSE {s[i]}
  <2>1. \A c : ToSet(<<c>>) = {c}
    BY DEF ToSet
  <2>. QED BY <2>1
<1>4. Replaced(s, table) = FlattenSeq(L)
  BY <1>1 DEF Replaced
<1> HIDE DEF L
<1>5. FlattenSeq(L) \in Seq(S) /\ ToSet(FlattenSeq(L)) = UNION {ToSet(L[i]) : i \in 1 .. n}
  BY <1>1, <1>2, FlattenElements
<1>6. ASSUME NEW c \in ToSet(FlattenSeq(L))
      PROVE  \/ c \in ToSet(s) /\ c \notin DOMAIN table
             \/ \E d \in DOMAIN table : d \in ToSet(s) /\ c \in ToSet(table[d])
  <2>1. PICK i \in 1 .. n : c \in ToSet(L[i])
    BY <1>5
  <2>2. s[i] \in ToSet(s)
    BY <1>1 DEF ToSet
  <2>. QED BY <1>3, <2>1, <2>2
<1>. QED BY <1>4, <1>5, <1>6


LEMMA ShortTexts ==
  ASSUME NEW S, NEW a \in S, NEW b \in S
  PROVE  /\ <<a>> \in Seq(S) /\ <<a, b>> \in Seq(S)
         /\ ToSet(<<a>>) = {a} /\ ToSet(<<a, b>>) = {a, b}
<1>1. <<a>> \in Seq(S) /\ <<a, b>> \in Seq(S)
  OBVIOUS
<1>2. DOMAIN <<a>> = {1} /\ <<a>>[1] = a
  OBVIOUS
<1>3. DOMAIN <<a, b>> = {1, 2} /\ <<a, b>>[1] = a /\ <<a, b>>[2] = b
  OBVIOUS
<1>. QED BY <1>1, <1>2, <1>3 DEF ToSet

(* No lookalike and no cedilla of its own is left in a canonical text.     *)
LEMMA NFKCHides ==
  ASSUME NEW s \in Seq(Characters)
  PROVE  NFKC(s) \in Seq(Characters) /\ "cedilla" \notin ToSet(NFKC(s))
<1> DEFINE apart == Replaced(s, Decomposed)
           n == Len(apart)
           Composed(i) == apart[i] = "c" /\ i < Len(apart) /\ apart[i + 1] = "mark"
           L == [i \in 1 .. n |-> IF Composed(i) THEN <<"c-mark">>
                                  ELSE IF i > 1 /\ Composed(i - 1) THEN <<>> ELSE <<apart[i]>>]
<1>1. /\ \A c \in DOMAIN Decomposed : Decomposed[c] \in Seq(Characters)
      /\ "cedilla" \in DOMAIN Decomposed /\ \A c \in DOMAIN Decomposed : "cedilla" \notin ToSet(Decomposed[c])
  <2>1. <<"c", "mark">> \in Seq(Characters) /\ <<" ", "mark">> \in Seq(Characters)
    <3>1. "c" \in Characters /\ "mark" \in Characters /\ " " \in Characters
      BY DEF Characters
    <3>. QED BY <3>1, ShortTexts
  <2>2. "cedilla" \notin ToSet(<<"c", "mark">>) /\ "cedilla" \notin ToSet(<<" ", "mark">>)
    <3>1. ToSet(<<"c", "mark">>) = {"c", "mark"} /\ ToSet(<<" ", "mark">>) = {" ", "mark"}
      <4>1. "c" \in Characters /\ "mark" \in Characters /\ " " \in Characters
        BY DEF Characters
      <4>. QED BY <4>1, ShortTexts
    <3>. QED BY <3>1
  <2>. QED BY <2>1, <2>2 DEF Decomposed
<1>2. apart \in Seq(Characters) /\ "cedilla" \notin ToSet(apart)
  BY <1>1, ReplacedBy
<1>3. n \in Nat /\ DOMAIN apart = 1 .. n /\ \A i \in 1 .. n : apart[i] \in Characters /\ apart[i] # "cedilla"
  <2> HIDE DEF apart
  <2>1. n \in Nat /\ DOMAIN apart = 1 .. n /\ \A i \in 1 .. n : apart[i] \in Characters
    BY <1>2, LenProperties, ElementOfSeq
  <2>2. \A i \in 1 .. n : apart[i] \in ToSet(apart)
    BY <2>1 DEF ToSet
  <2>. QED BY <1>2, <2>1, <2>2
<1>4. NFKC(s) = FlattenSeq(L)
  BY <1>3 DEF NFKC
<1> HIDE DEF n, apart, Composed
<1>5. \A i \in 1 .. n : L[i] \in {<<"c-mark">>, <<>>, <<apart[i]>>}
  OBVIOUS
<1>6. ASSUME NEW i \in 1 .. n, NEW x \in {<<"c-mark">>, <<>>, <<apart[i]>>}
      PROVE  x \in Seq(Characters) /\ "cedilla" \notin ToSet(x)
  <2>1. \A c \in Characters : <<c>> \in Seq(Characters)
    OBVIOUS
  <2>2. "c-mark" \in Characters
    BY DEF Characters
  <2>3. <<>> \in Seq(Characters)
    OBVIOUS
  <2>4. ToSet(<<>>) = {} /\ \A c : ToSet(<<c>>) = {c}
    BY DEF ToSet
  <2>. QED BY <1>3, <2>1, <2>2, <2>3, <2>4
<1>7. L \in [1 .. n -> Seq(Characters)] /\ \A i \in 1 .. n : "cedilla" \notin ToSet(L[i])
  <2>1. \A i \in 1 .. n : L[i] \in Seq(Characters) /\ "cedilla" \notin ToSet(L[i])
    <3> HIDE DEF L
    <3>. QED BY <1>5, <1>6
  <2>. QED BY <2>1
<1> HIDE DEF L
<1>8. FlattenSeq(L) \in Seq(Characters) /\ ToSet(FlattenSeq(L)) = UNION {ToSet(L[i]) : i \in 1 .. n}
  BY <1>3, <1>7, FlattenElements
<1>. QED BY <1>4, <1>7, <1>8

LEMMA CanonicalHides ==
  ASSUME NEW s \in Seq(Characters)
  PROVE  /\ CanonicalText(s) \in Seq(Characters)
         /\ "es" \notin ToSet(CanonicalText(s)) /\ "cedilla" \notin ToSet(CanonicalText(s))
<1> DEFINE t == NFKC(Trim(s))
<1>1. t \in Seq(Characters) /\ "cedilla" \notin ToSet(t)
  BY TrimType, NFKCHides
<1>2. /\ \A c \in DOMAIN Lookalikes : Lookalikes[c] \in Seq(Characters)
      /\ "es" \in DOMAIN Lookalikes
      /\ \A c \in DOMAIN Lookalikes : "es" \notin ToSet(Lookalikes[c]) /\ "cedilla" \notin ToSet(Lookalikes[c])
  <2>1. <<"c">> \in Seq(Characters)
    <3>1. "c" \in Characters
      BY DEF Characters
    <3>. QED BY <3>1, ShortTexts
  <2>2. "es" \notin ToSet(<<"c">>) /\ "cedilla" \notin ToSet(<<"c">>)
    BY DEF ToSet
  <2>. QED BY <2>1, <2>2 DEF Lookalikes
<1> HIDE DEF t
<1>3. /\ Replaced(t, Lookalikes) \in Seq(Characters)
      /\ "es" \notin ToSet(Replaced(t, Lookalikes)) /\ "cedilla" \notin ToSet(Replaced(t, Lookalikes))
  BY <1>1, <1>2, ReplacedBy
<1>. QED BY <1>3 DEF CanonicalText, MapConfusables, t

(* What is nowhere in a text is no part of it.                             *)
LEMMA HasOne ==
  ASSUME NEW S, NEW s \in Seq(S), NEW c, c \notin ToSet(s)
  PROVE  ~Has(s, <<c>>)
<1>1. Len(s) \in Nat /\ DOMAIN s = 1 .. Len(s)
  BY LenProperties
<1>2. ASSUME NEW n \in 0 .. Len(s) - 1, SubSeq(s, n + 1, n + 1) = <<c>> PROVE FALSE
  <2>1. n + 1 \in 1 .. Len(s)
    BY <1>1
  <2>2. SubSeq(s, n + 1, n + 1)[1] = s[n + 1]
    BY <1>1, <2>1
  <2>3. <<c>>[1] = c
    OBVIOUS
  <2>. QED BY <1>1, <1>2, <2>1, <2>2, <2>3 DEF ToSet
<1>3. Len(<<c>>) = 1
  OBVIOUS
<1>. QED BY <1>2, <1>3 DEF Has

-------------------------------------------------------------------------------
(* Canonical tool names *)

(* No empty part.                                                          *)
NoDoubles(s) == \A i \in 1 .. Len(s) - 1 : ~(s[i] = "/" /\ s[i + 1] = "/")

LEMMA HasDouble == ASSUME NEW S, NEW s \in Seq(S), NoDoubles(s) PROVE ~Has(s, <<"/", "/">>)
<1>1. Len(s) \in Nat /\ DOMAIN s = 1 .. Len(s)
  BY LenProperties
<1>2. ASSUME NEW n \in 0 .. Len(s) - 2, SubSeq(s, n + 1, n + 2) = <<"/", "/">> PROVE FALSE
  <2>1. n + 1 \in 1 .. Len(s) - 1 /\ n + 1 \in 1 .. Len(s) /\ n + 2 \in 1 .. Len(s) /\ (n + 1) + 1 = n + 2
    BY <1>1
  <2>2. SubSeq(s, n + 1, n + 2)[1] = s[n + 1] /\ SubSeq(s, n + 1, n + 2)[2] = s[n + 2]
    BY <1>1, <2>1
  <2>3. <<"/", "/">>[1] = "/" /\ <<"/", "/">>[2] = "/"
    OBVIOUS
  <2>4. s[n + 1] = "/" /\ s[(n + 1) + 1] = "/"
    BY <1>2, <2>1, <2>2, <2>3
  <2>. QED BY <2>1, <2>4 DEF NoDoubles
<1>3. Len(<<"/", "/">>) = 2
  OBVIOUS
<1>. QED BY <1>2, <1>3 DEF Has

(* Joined texts have no empty part if each has none and they do not meet   *)
(* in one.                                                                 *)
LEMMA OneMorePart ==
  ASSUME NEW S, NEW s \in Seq(S), NEW c \in S, NoDoubles(s), s # <<>> /\ s[Len(s)] = "/" => c # "/"
  PROVE  /\ NoDoubles(s \o <<c>>) /\ s \o <<c>> # <<>>
         /\ (s \o <<c>>)[Len(s \o <<c>>)] = c
<1> DEFINE t == s \o <<c>>
<1>1. /\ Len(s) \in Nat /\ Len(t) = Len(s) + 1
      /\ \A i \in 1 .. Len(t) : t[i] = IF i <= Len(s) THEN s[i] ELSE c
  <2>1. <<c>> \in Seq(S) /\ Len(<<c>>) = 1 /\ <<c>>[1] = c
    OBVIOUS
  <2>2. /\ Len(t) = Len(s) + Len(<<c>>)
        /\ \A i \in 1 .. Len(s) + Len(<<c>>) : t[i] = IF i <= Len(s) THEN s[i] ELSE <<c>>[i - Len(s)]
    BY <2>1, ConcatProperties
  <2>. QED BY <2>1, <2>2, LenProperties
<1>2. ASSUME NEW i \in 1 .. Len(t) - 1, t[i] = "/", t[i + 1] = "/" PROVE FALSE
  <2>1. CASE i + 1 <= Len(s)
    <3>1. t[i] = s[i] /\ t[i + 1] = s[i + 1] /\ i \in 1 .. Len(s) - 1
      BY <1>1, <2>1
    <3>. QED BY <1>2, <3>1 DEF NoDoubles
  <2>2. CASE ~(i + 1 <= Len(s))
    <3>1. i = Len(s) /\ t[i] = s[i] /\ t[i + 1] = c
      BY <1>1, <2>2
    <3>2. s # <<>>
      BY <3>1
    <3>. QED BY <1>2, <3>1, <3>2
  <2>. QED BY <2>1, <2>2
<1>3. t # <<>> /\ t[Len(t)] = c
  BY <1>1
<1>. QED BY <1>2, <1>3 DEF NoDoubles

LEMMA CollapseLeaves ==
  ASSUME NEW S, NEW s \in Seq(S)
  PROVE  /\ CollapseSlashes(s) \in Seq(S) /\ ToSet(CollapseSlashes(s)) \subseteq ToSet(s)
         /\ NoDoubles(CollapseSlashes(s))
<1> DEFINE n == Len(s)
           Dropped(i) == s[i] = "/" /\ i > 1 /\ s[i - 1] = "/"
           L == [i \in 1 .. n |-> IF Dropped(i) THEN <<>> ELSE <<s[i]>>]
<1>1. n \in Nat /\ DOMAIN s = 1 .. n /\ \A i \in 1 .. n : s[i] \in S /\ <<s[i]>> \in Seq(S)
  BY LenProperties, ElementOfSeq
<1>2. CollapseSlashes(s) = FlattenSeq(L)
  BY <1>1 DEF CollapseSlashes
<1> HIDE DEF n
<1>3. L \in [1 .. n -> Seq(S)] /\ Len(L) = n
  <2>1. \A i \in 1 .. n : L[i] \in Seq(S)
    BY <1>1
  <2>2. L \in [1 .. n -> Seq(S)]
    BY <2>1
  <2> HIDE DEF L
  <2>. QED BY <1>1, <2>2
<1>4. \A i \in 1 .. n : L[i] = IF Dropped(i) THEN <<>> ELSE <<s[i]>>
  OBVIOUS
<1> HIDE DEF L
<1>5. FlattenSeq(L) \in Seq(S) /\ ToSet(FlattenSeq(L)) \subseteq ToSet(s)
  <2>1. FlattenSeq(L) \in Seq(S) /\ ToSet(FlattenSeq(L)) = UNION {ToSet(L[i]) : i \in 1 .. n}
    BY <1>1, <1>3, FlattenElements
  <2>2. \A i \in 1 .. n : ToSet(L[i]) \subseteq ToSet(s)
    <3>1. ToSet(<<>>) = {} /\ \A i \in 1 .. n : ToSet(<<s[i]>>) = {s[i]} /\ s[i] \in ToSet(s)
      BY <1>1 DEF ToSet
    <3>. QED BY <1>4, <3>1
  <2>. QED BY <2>1, <2>2
<1>6. PICK F \in [0 .. n -> Seq(S)] : Flattens(F, L)
  BY <1>1, <1>3, FlattenSteps
<1>7. F[0] = <<>> /\ (\A i \in 1 .. n : F[i] = F[i - 1] \o L[i]) /\ F[n] = FlattenSeq(L)
  BY <1>3, <1>6 DEF Flattens
<1> DEFINE Ends(k) == NoDoubles(F[k]) /\ (k = 0 => F[k] = <<>>) /\ (k > 0 => F[k] # <<>> /\ F[k][Len(F[k])] = s[k])
           A == {k \in 0 .. n : Ends(k)}
<1>8. 0 \in A
  <2>1. NoDoubles(<<>>)
    BY DEF NoDoubles
  <2>. QED BY <1>1, <1>7, <2>1
<1>9. ASSUME NEW k \in 0 .. n - 1, k \in A PROVE k + 1 \in A
  <2>1. k + 1 \in 1 .. n /\ (k + 1) - 1 = k /\ k + 1 \in 0 .. n /\ F[k] \in Seq(S) /\ k \in 0 .. n
    BY <1>1
  <2>2. F[k + 1] = F[k] \o L[k + 1]
    BY <1>7, <2>1
  <2>3. Ends(k)
    BY <1>9
  <2>4. CASE Dropped(k + 1)
    <3>1. L[k + 1] = <<>> /\ F[k + 1] = F[k]
      BY <1>4, <2>1, <2>2, <2>4, ConcatEmptySeq
    <3>2. s[k + 1] = s[k] /\ k > 0
      BY <2>1, <2>4
    <3>3. Ends(k + 1)
      BY <2>1, <2>3, <3>1, <3>2
    <3>. QED BY <2>1, <3>3
  <2>5. CASE ~Dropped(k + 1)
    <3>1. L[k + 1] = <<s[k + 1]>> /\ F[k + 1] = F[k] \o <<s[k + 1]>>
      BY <1>4, <2>1, <2>2, <2>5
    <3>2. F[k] # <<>> /\ F[k][Len(F[k])] = "/" => s[k + 1] # "/"
      BY <2>1, <2>3, <2>5
    <3>3. s[k + 1] \in S /\ NoDoubles(F[k])
      BY <1>1, <2>1, <2>3
    <3>4. /\ NoDoubles(F[k] \o <<s[k + 1]>>) /\ F[k] \o <<s[k + 1]>> # <<>>
          /\ (F[k] \o <<s[k + 1]>>)[Len(F[k] \o <<s[k + 1]>>)] = s[k + 1]
      BY <2>1, <3>2, <3>3, OneMorePart
    <3>5. Ends(k + 1)
      <4>1. NoDoubles(F[k + 1])
        BY ONLY <3>1, <3>4
      <4>2. F[k + 1] # <<>> /\ F[k + 1][Len(F[k + 1])] = s[k + 1]
        BY ONLY <3>1, <3>4
      <4>3. k + 1 # 0
        BY <2>1
      <4>. QED BY <4>1, <4>2, <4>3
    <3>. QED BY <2>1, <3>5
  <2>. QED BY <2>4, <2>5
<1>10. \A k \in 0 .. n : k \in A
  <2> HIDE DEF A
  <2>. QED BY <1>1, <1>8, <1>9, IntervalInduction
<1>11. NoDoubles(F[n])
  BY <1>1, <1>10
<1>. QED BY <1>2, <1>5, <1>7, <1>11

(* A prefix is found so often, and no oftener.                             *)
Doubled(prefix, s, n) ==
    n * Len(prefix) <= Len(s)
    /\ \A i \in 0 .. n - 1 : SubSeq(s, i * Len(prefix) + 1, i * Len(prefix) + Len(prefix)) = prefix

LEMMA WithoutLeaves ==
  ASSUME NEW S, NEW s \in Seq(S), NEW prefix \in Seq(S), Len(prefix) \in {2, 3}, NoDoubles(s)
  PROVE  /\ Without(prefix, s) \in Seq(S) /\ ToSet(Without(prefix, s)) \subseteq ToSet(s)
         /\ NoDoubles(Without(prefix, s)) /\ ~IsPrefix(prefix, Without(prefix, s))
<1> DEFINE k == Len(prefix)
           most == CHOOSE n \in 0 .. Len(s) : Doubled(prefix, s, n) /\ ~Doubled(prefix, s, n + 1)
           t == SubSeq(s, most * k + 1, Len(s))
<1>1. Len(s) \in Nat /\ DOMAIN s = 1 .. Len(s)
  BY LenProperties
<1>2. Without(prefix, s) = t
  BY DEF Without, Doubled
<1>3. \E n \in 0 .. Len(s) : Doubled(prefix, s, n) /\ ~Doubled(prefix, s, n + 1)
  <2>1. SUFFICES ASSUME \A n \in 0 .. Len(s) : Doubled(prefix, s, n) => Doubled(prefix, s, n + 1) PROVE FALSE
    OBVIOUS
  <2> DEFINE A == {n \in 0 .. Len(s) : Doubled(prefix, s, n)}
             m == Len(s)
  <2>2. 0 \in A
    <3>1. 0 * k <= Len(s)
      <4>1. k \in Nat
        OBVIOUS
      <4>. QED BY <1>1, <4>1
    <3>2. 0 \in 0 .. Len(s) /\ \A i \in 0 .. 0 - 1 : FALSE
      BY <1>1
    <3>. QED BY <3>1, <3>2 DEF Doubled
  <2>3. ASSUME NEW n \in 0 .. m - 1, n \in A PROVE n + 1 \in A
    <3>1. n \in 0 .. Len(s) /\ n + 1 \in 0 .. Len(s)
      BY <1>1
    <3>. QED BY <2>1, <2>3, <3>1
  <2>4. \A n \in 0 .. m : n \in A
    <3>1. m \in Nat
      BY <1>1
    <3> HIDE DEF A, m
    <3>. QED BY <2>2, <2>3, <3>1, IntervalInduction
  <2>5. Doubled(prefix, s, m + 1)
    <3>1. m \in 0 .. Len(s)
      BY <1>1
    <3>. QED BY <2>1, <2>4, <3>1
  <2>6. (m + 1) * k <= m
    BY <2>5 DEF Doubled
  <2>7. CASE k = 2
    <3>1. (m + 1) * 2 <= m /\ m \in Nat
      BY <1>1, <2>6, <2>7
    <3> HIDE DEF m
    <3>. QED BY <3>1
  <2>8. CASE k = 3
    <3>1. (m + 1) * 3 <= m /\ m \in Nat
      BY <1>1, <2>6, <2>8
    <3> HIDE DEF m
    <3>. QED BY <3>1
  <2>. QED BY <2>7, <2>8
<1>4. most \in 0 .. Len(s) /\ Doubled(prefix, s, most) /\ ~Doubled(prefix, s, most + 1)
  BY <1>3
<1> HIDE DEF most
<1> DEFINE a == most * k
<1>5. a \in Nat /\ a <= Len(s) /\ k \in {2, 3} /\ (most + 1) * k = a + k /\ most \in Nat
  <2>1. most \in Nat /\ a <= Len(s)
    BY <1>1, <1>4 DEF Doubled
  <2>2. CASE k = 2
    BY <2>1, <2>2
  <2>3. CASE k = 3
    BY <2>1, <2>3
  <2>. QED BY <2>1, <2>2, <2>3
<1> HIDE DEF a, k
<1>6. /\ t \in Seq(S) /\ Len(t) = Len(s) - a
      /\ \A i \in 1 .. Len(t) : t[i] = s[a + i]
  <2>1. a + 1 \in Nat /\ a + 1 >= 1 /\ a + 1 <= Len(s) + 1
    BY <1>1, <1>5
  <2> DEFINE u == SubSeq(s, a + 1, Len(s))
  <2>2. u \in Seq(S) /\ Len(u) = Len(s) - (a + 1) + 1 /\ \A i \in 1 .. Len(u) : u[i] = s[(a + 1) + i - 1]
    BY <2>1, PartOf
  <2>3. t = u
    BY DEF a
  <2> HIDE DEF u, t
  <2>4. Len(t) = Len(s) - a /\ \A i \in 1 .. Len(t) : (a + 1) + i - 1 = a + i
    <3>1. Len(t) = Len(s) - (a + 1) + 1
      BY <2>2, <2>3
    <3>2. Len(s) \in Nat /\ a \in Nat
      BY <1>1, <1>5
    <3>3. Len(t) = Len(s) - a
      BY ONLY <3>1, <3>2
    <3>4. \A i \in 1 .. Len(t) : (a + 1) + i - 1 = a + i
      BY ONLY <3>2, <3>3
    <3>. QED BY <3>3, <3>4
  <2>. QED BY <2>2, <2>3, <2>4
<1> HIDE DEF t
<1>7. ToSet(t) \subseteq ToSet(s)
  <2>1. ASSUME NEW i \in 1 .. Len(t) PROVE t[i] \in ToSet(s)
    <3>1. a + i \in DOMAIN s
      BY <1>1, <1>5, <1>6
    <3>. QED BY <3>1, <1>6 DEF ToSet
  <2>. QED BY <2>1, <1>6, LenProperties DEF ToSet
<1>8. NoDoubles(t)
  <2>1. ASSUME NEW i \in 1 .. Len(t) - 1 PROVE ~(t[i] = "/" /\ t[i + 1] = "/")
    <3>1. a + i \in 1 .. Len(s) - 1 /\ (a + i) + 1 = a + (i + 1) /\ i \in 1 .. Len(t) /\ i + 1 \in 1 .. Len(t)
      BY <1>1, <1>5, <1>6
    <3>2. t[i] = s[a + i] /\ t[i + 1] = s[(a + i) + 1]
      BY <1>6, <3>1
    <3>. QED BY <3>1, <3>2 DEF NoDoubles
  <2>. QED BY <2>1 DEF NoDoubles
<1>9. ASSUME IsPrefix(prefix, t) PROVE FALSE
  <2>1. k <= Len(t) /\ SubSeq(t, 1, k) = prefix
    <3>1. SubSeq(prefix, 1, Len(prefix)) = prefix
      OBVIOUS
    <3>. QED BY <1>9, <3>1 DEF IsPrefix, k
  <2>2. a + k <= Len(s)
    BY <1>1, <1>5, <1>6, <2>1
  <2>3. SubSeq(s, a + 1, a + k) = SubSeq(t, 1, k)
    <3>1. /\ SubSeq(s, a + 1, a + k) = [i \in 1 .. k |-> s[a + i]]
          /\ SubSeq(t, 1, k) = [i \in 1 .. k |-> t[i]]
      <4>1. /\ a + 1 \in 1 .. Len(s) + 1 /\ a + k \in (a + 1) - 1 .. Len(s)
            /\ 1 \in 1 .. Len(t) + 1 /\ k \in 1 - 1 .. Len(t)
        BY <1>1, <1>5, <1>6, <2>1, <2>2
      <4>2. /\ SubSeq(s, a + 1, a + k) = [i \in 1 .. (a + k) - (a + 1) + 1 |-> s[(a + 1) + i - 1]]
            /\ SubSeq(t, 1, k) = [i \in 1 .. k - 1 + 1 |-> t[1 + i - 1]]
        <5>1. SubSeq(s, a + 1, a + k) = [i \in 1 .. (a + k) - (a + 1) + 1 |-> s[(a + 1) + i - 1]]
          <6>1. a + 1 \in 1 .. Len(s) + 1 /\ a + k \in (a + 1) - 1 .. Len(s)
            BY <4>1
          <6>. QED BY <1>6, <6>1, SubSeqProperties
        <5>2. SubSeq(t, 1, k) = [i \in 1 .. k - 1 + 1 |-> t[1 + i - 1]]
          <6>1. 1 \in 1 .. Len(t) + 1 /\ k \in 1 - 1 .. Len(t)
            BY <4>1
          <6>. QED BY <1>6, <6>1, SubSeqProperties
        <5>. QED BY <5>1, <5>2
      <4>3. (a + k) - (a + 1) + 1 = k /\ k - 1 + 1 = k /\ \A i \in 1 .. k : (a + 1) + i - 1 = a + i /\ 1 + i - 1 = i
        BY <1>5
      <4>. QED BY <4>2, <4>3
    <3>2. \A i \in 1 .. k : t[i] = s[a + i]
      BY <1>5, <1>6, <2>1
    <3>. QED BY <3>1, <3>2
  <2>4. \A i \in 0 .. (most + 1) - 1 : i \in 0 .. most - 1 \/ i = most
    BY <1>5
  <2>5. \A i \in 0 .. most - 1 : SubSeq(s, i * k + 1, i * k + k) = prefix
    BY <1>4 DEF Doubled, k
  <2>6. SubSeq(s, most * k + 1, most * k + k) = prefix
    BY <2>1, <2>3 DEF a
  <2>7. \A i \in 0 .. (most + 1) - 1 : SubSeq(s, i * k + 1, i * k + k) = prefix
    BY <2>4, <2>5, <2>6
  <2>8. (most + 1) * k <= Len(s)
    BY <1>5, <2>2
  <2>9. Doubled(prefix, s, most + 1)
    BY <2>7, <2>8 DEF Doubled, k
  <2>. QED BY <1>4, <2>9
<1>. QED BY <1>2, <1>6, <1>7, <1>8, <1>9

LEMMA ToolHides ==
  ASSUME NEW s \in Seq(Characters)
  PROVE  /\ \A bits \in {<<"es">>, <<"shy">>, <<"/", "/">>} : ~Has(CanonicalTool(s), bits)
         /\ ~IsPrefix(<<".", ".", "/">>, CanonicalTool(s))
<1> DEFINE once == CanonicalText(s)
           trim == Replaced(once, Invisible)
           shorn == CollapseSlashes(trim)
           here == <<".", "/">>
           up == <<".", ".", "/">>
           bare == Without(here, shorn)
           tool == Without(up, bare)
<1>1. once \in Seq(Characters) /\ "es" \notin ToSet(once)
  BY CanonicalHides
<1>2. /\ \A c \in DOMAIN Invisible : Invisible[c] \in Seq(Characters) /\ ToSet(Invisible[c]) = {}
      /\ "shy" \in DOMAIN Invisible
  <2>1. <<>> \in Seq(Characters) /\ ToSet(<<>>) = {}
    BY DEF ToSet
  <2>. QED BY <2>1 DEF Invisible
<1> HIDE DEF once
<1>3. trim \in Seq(Characters) /\ "es" \notin ToSet(trim) /\ "shy" \notin ToSet(trim)
  BY <1>1, <1>2, ReplacedBy
<1> HIDE DEF trim
<1>4. shorn \in Seq(Characters) /\ ToSet(shorn) \subseteq ToSet(trim) /\ NoDoubles(shorn)
  BY <1>3, CollapseLeaves
<1> HIDE DEF shorn
<1>5. here \in Seq(Characters) /\ Len(here) = 2 /\ up \in Seq(Characters) /\ Len(up) = 3
  <2>1. "." \in Characters /\ "/" \in Characters
    BY DEF Characters
  <2>2. Len(here) = 2 /\ Len(up) = 3
    OBVIOUS
  <2>3. \A S : \A a, b \in S : <<a, b>> \in Seq(S) /\ <<a, a, b>> \in Seq(S)
    OBVIOUS
  <2>. QED BY <2>1, <2>2, <2>3
<1> HIDE DEF here, up
<1>6. bare \in Seq(Characters) /\ ToSet(bare) \subseteq ToSet(shorn) /\ NoDoubles(bare)
  BY <1>4, <1>5, WithoutLeaves
<1> HIDE DEF bare
<1>7. tool \in Seq(Characters) /\ ToSet(tool) \subseteq ToSet(bare) /\ NoDoubles(tool) /\ ~IsPrefix(up, tool)
  BY <1>5, <1>6, WithoutLeaves
<1>8. CanonicalTool(s) = tool
  BY DEF CanonicalTool, tool, up, bare, here, shorn, trim, once
<1> HIDE DEF tool
<1>9. "es" \notin ToSet(tool) /\ "shy" \notin ToSet(tool)
  BY <1>3, <1>4, <1>6, <1>7
<1>10. ~Has(tool, <<"es">>) /\ ~Has(tool, <<"shy">>) /\ ~Has(tool, <<"/", "/">>)
  BY <1>7, <1>9, HasOne, HasDouble
<1>. QED BY <1>7, <1>8, <1>10 DEF up

LEMMA NormalizedHides == NothingHides /\ Normalize => NothingHides'
<1>. SUFFICES ASSUME Normalize PROVE NothingHides'
  OBVIOUS
<1>1. CASE \E s \in Spellings :
             normalized' = [kind |-> "text", of |-> s, once |-> CanonicalText(s),
                            twice |-> CanonicalText(CanonicalText(s)), tool |-> CanonicalTool(s),
                            toolTwice |-> CanonicalTool(CanonicalTool(s))]
  <2>1. PICK s \in Spellings :
             normalized' = [kind |-> "text", of |-> s, once |-> CanonicalText(s),
                            twice |-> CanonicalText(CanonicalText(s)), tool |-> CanonicalTool(s),
                            toolTwice |-> CanonicalTool(CanonicalTool(s))]
    BY <1>1
  <2>2. normalized'.once = CanonicalText(s) /\ normalized'.tool = CanonicalTool(s)
    BY <2>1
  <2>3. s \in Seq(Characters)
    BY CallArgumentsAssumption
  <2>4. ~Has(CanonicalText(s), <<"es">>) /\ ~Has(CanonicalText(s), <<"cedilla">>)
    BY <2>3, CanonicalHides, HasOne
  <2>5. /\ \A bits \in {<<"es">>, <<"shy">>, <<"/", "/">>} : ~Has(CanonicalTool(s), bits)
        /\ ~IsPrefix(<<".", ".", "/">>, CanonicalTool(s))
    BY <2>3, ToolHides
  <2>. QED BY <2>2, <2>4, <2>5 DEF NothingHides
<1>2. CASE \E f \in Floats :
             normalized' = [kind |-> "float", of |-> f, once |-> CanonicalFloat(f),
                            twice |-> CanonicalFloat(CanonicalFloat(f))]
  BY <1>2 DEF NothingHides
<1>. QED BY <1>1, <1>2 DEF Normalize

-------------------------------------------------------------------------------
(* Canonical numbers *)

LEMMA FloatOnce ==
  ASSUME NEW f \in Floats, CanonicalFloat(f) # NotANumber
  PROVE  LET g == CanonicalFloat(f)
             value == IF g.mag = f.mag THEN g.digits ELSE 10 * g.digits
         IN CanonicalFloat(g) = g /\ (f.digits > 0 => value - f.digits \in -4 .. 5)
<1> DEFINE g == CanonicalFloat(f)
           one == 10 ^ (KeptFigures - 1)
           kept == (f.digits + 5) \div 10
<1>1. f \in [digits : Nat \cup {-1}, mag : Int] /\ (f.digits = -1 => f.mag = 0)
  BY CallArgumentsAssumption
<1>2. one \in Nat \ {0} /\ KeptFigures \in Nat /\ LargestPower \in Nat
  BY CallArgumentsAssumption
<1>3. /\ NotANumber.digits = -1 /\ NotANumber.mag = 0 /\ Zero.digits = 0 /\ Zero.mag = 0
      /\ \A d, m : [digits |-> d, mag |-> m].digits = d /\ [digits |-> d, mag |-> m].mag = m
  BY DEF NotANumber, Zero
<1>4. CanonicalFloat(Zero) = Zero
  BY DEF CanonicalFloat
<1>5. CASE f \in {NotANumber, Zero}
  <2>1. g = Zero
    BY <1>5 DEF CanonicalFloat
  <2>2. ~(f.digits > 0)
    BY <1>3, <1>5
  <2>. QED BY <1>4, <2>1, <2>2
<1>6. CASE f \notin {NotANumber, Zero}
  <2>1. f.digits \in Nat /\ f.mag \in Int
    <3>1. f = [digits |-> f.digits, mag |-> f.mag]
      BY <1>1
    <3>2. f.digits # -1
      <4>1. f.digits = -1 => f = NotANumber
        BY <1>1, <3>1 DEF NotANumber
      <4>. QED BY <4>1, <1>6
    <3>. QED BY <1>1, <3>2
  <2>2. kept \in Nat /\ 10 * kept - f.digits \in -4 .. 5
    BY <2>1
  <2>3. ~(KeptFigures - 1 - f.mag > LargestPower)
    BY <1>6 DEF CanonicalFloat
  <2>4. g = IF kept = 10 * one THEN [digits |-> 10 * one, mag |-> f.mag + 1]
            ELSE [digits |-> 10 * kept, mag |-> f.mag]
    BY <1>6, <2>3 DEF CanonicalFloat
  <2>5. CASE kept = 10 * one
    <3>1. g.digits = 10 * one /\ g.mag = f.mag + 1 /\ g = [digits |-> 10 * one, mag |-> f.mag + 1]
      BY <1>3, <2>4, <2>5
    <3>2. g \notin {NotANumber, Zero}
      <4> HIDE DEF g, one
      <4>. QED BY <1>2, <1>3, <3>1
    <3>3. (g.digits + 5) \div 10 = one
      <4> HIDE DEF g, one
      <4>. QED BY <1>2, <3>1
    <3>4. ~(KeptFigures - 1 - g.mag > LargestPower)
      <4> HIDE DEF g
      <4>. QED BY <1>2, <2>1, <2>3, <3>1
    <3>5. CanonicalFloat(g) = [digits |-> 10 * one, mag |-> g.mag]
      <4>1. one # 10 * one
        <5> HIDE DEF one
        <5>. QED BY <1>2
      <4> HIDE DEF g
      <4>. QED BY <3>2, <3>3, <3>4, <4>1 DEF CanonicalFloat
    <3>6. g.mag # f.mag /\ 10 * g.digits - f.digits \in -4 .. 5
      <4> HIDE DEF g, one
      <4>. QED BY <2>1, <2>2, <2>5, <3>1
    <3>. QED BY <3>1, <3>5, <3>6
  <2>6. CASE kept # 10 * one
    <3>1. g.digits = 10 * kept /\ g.mag = f.mag /\ g = [digits |-> 10 * kept, mag |-> f.mag]
      BY <1>3, <2>4, <2>6
    <3>2. (g.digits + 5) \div 10 = kept
      <4> HIDE DEF g, kept
      <4>. QED BY <2>2, <3>1
    <3>3. CASE g \in {NotANumber, Zero}
      <4>1. g # NotANumber
        OBVIOUS
      <4>. QED BY <1>4, <2>2, <3>1, <3>3, <4>1
    <3>4. CASE g \notin {NotANumber, Zero}
      <4>1. CanonicalFloat(g) = [digits |-> 10 * kept, mag |-> g.mag]
        <5> HIDE DEF g, kept
        <5>. QED BY <2>3, <2>6, <3>1, <3>2, <3>4 DEF CanonicalFloat
      <4>. QED BY <2>2, <3>1, <4>1
    <3>. QED BY <3>3, <3>4
  <2>. QED BY <2>5, <2>6
<1>. QED BY <1>5, <1>6

LEMMA NormalizedKeeps == Normalize => FiguresAreKept'
<1>. SUFFICES ASSUME Normalize PROVE FiguresAreKept'
  OBVIOUS
<1>1. CASE \E s \in Spellings :
             normalized' = [kind |-> "text", of |-> s, once |-> CanonicalText(s),
                            twice |-> CanonicalText(CanonicalText(s)), tool |-> CanonicalTool(s),
                            toolTwice |-> CanonicalTool(CanonicalTool(s))]
  BY <1>1 DEF FiguresAreKept
<1>2. CASE \E f \in Floats :
             normalized' = [kind |-> "float", of |-> f, once |-> CanonicalFloat(f),
                            twice |-> CanonicalFloat(CanonicalFloat(f))]
  <2>1. PICK f \in Floats :
             normalized' = [kind |-> "float", of |-> f, once |-> CanonicalFloat(f),
                            twice |-> CanonicalFloat(CanonicalFloat(f))]
    BY <1>2
  <2>2. normalized'.of = f /\ normalized'.once = CanonicalFloat(f) /\ normalized'.twice = CanonicalFloat(CanonicalFloat(f))
    BY <2>1
  <2>. QED BY <2>2, FloatOnce DEF FiguresAreKept
<1>. QED BY <1>1, <1>2 DEF Normalize

-------------------------------------------------------------------------------
(* Context guards *)

Guard == [endpoint : BOOLEAN, required : SUBSET STRING, maxAge : Nat, onMissing : STRING, onStale : STRING]
Reported == [answer : GuardAnswers, at : Nat]
Checking == [guards : Seq(Guard), answers : Seq(Reported), effect : {"", "deny", "defer"} \cup STRING, done : BOOLEAN]

(* Whether the k-th source satisfied its guard.                            *)
Satisfied(c, k) ==
    c.guards[k].endpoint =>
        /\ ~c.answers[k].answer.fails /\ c.guards[k].required \subseteq c.answers[k].answer.fields
        /\ ~Stale(c.guards[k], c.answers[k].answer, c.answers[k].at)

(* Check has an answer to each guard it came to; it goes on while they are  *)
(* good, and is done with the last, or with the first that is not.         *)
SoFar(c) ==
    /\ c \in Checking /\ Len(c.answers) <= Len(c.guards)
    /\ \A k \in 1 .. Len(c.answers) - 1 : Satisfied(c, k)
    /\ ~c.done => /\ Len(c.answers) < Len(c.guards)
                  /\ \A k \in 1 .. Len(c.answers) : Satisfied(c, k)
    /\ c.done => /\ c.effect = "" => /\ Len(c.answers) = Len(c.guards)
                                     /\ \A k \in 1 .. Len(c.answers) : Satisfied(c, k)
                 /\ c.effect # "" => Len(c.answers) >= 1 /\ ~Satisfied(c, Len(c.answers))
GuardInv == argNow \in Nat /\ (guarding # <<>> => SoFar(guarding))

LEMMA CheckedIs ==
  ASSUME NEW g, NEW report, NEW at
  PROVE  LET result == Checked(g, report, at)
             good == g.endpoint => /\ ~report.fails /\ g.required \subseteq report.fields
                                   /\ ~Stale(g, report, at)
         IN /\ good => result.passed = TRUE /\ result.effect = ""
            /\ ~good => result.passed = FALSE /\ result.effect # ""
BY DEF Checked, EffectOrDefault

LEMMA CheckGuardKeeps == ASSUME GuardInv, CheckGuard PROVE GuardInv'
<1> DEFINE c == guarding
           n == Len(c.answers) + 1
<1>1. SoFar(c) /\ ~c.done /\ argNow \in Nat /\ argNow' = argNow
  BY DEF CheckGuard, GuardInv
<1>2. PICK report \in GuardAnswers :
        LET result == Checked(c.guards[n], report, argNow) IN
        guarding' = [c EXCEPT !.answers = Append(@, [answer |-> report, at |-> argNow]),
                              !.effect = result.effect, !.done = ~result.passed \/ n = Len(c.guards)]
  BY DEF CheckGuard
<1> DEFINE result == Checked(c.guards[n], report, argNow)
           new == [answer |-> report, at |-> argNow]
           as == Append(c.answers, new)
           d == guarding'
<1>3. /\ c \in Checking /\ c.guards \in Seq(Guard) /\ c.answers \in Seq(Reported)
      /\ Len(c.answers) \in Nat /\ Len(c.guards) \in Nat /\ n \in 1 .. Len(c.guards)
  <2>1. c \in Checking /\ Len(c.answers) < Len(c.guards)
    BY <1>1 DEF SoFar
  <2>2. c.guards \in Seq(Guard) /\ c.answers \in Seq(Reported)
    BY <2>1 DEF Checking
  <2>3. Len(c.answers) \in Nat /\ Len(c.guards) \in Nat
    BY <2>2, LenProperties
  <2>. QED BY <2>1, <2>2, <2>3
<1>4. /\ as \in Seq(Reported) /\ Len(as) = n /\ as[n] = new
      /\ \A k \in 1 .. n - 1 : as[k] = c.answers[k]
  <2>1. new \in Reported
    BY <1>1 DEF Reported
  <2> HIDE DEF new
  <2>. QED BY <2>1, <1>3, AppendProperties
<1>5. /\ d.guards = c.guards /\ d.answers = as /\ d.effect = result.effect
      /\ d.done = (~result.passed \/ n = Len(c.guards))
  <2> HIDE DEF result, new
  <2>. QED BY <1>2, <1>3 DEF Checking, result, new
<1>6. new.answer = report /\ new.at = argNow
  OBVIOUS
<1>7. (Satisfied(d, n) => result.passed = TRUE /\ result.effect = "")
      /\ (~Satisfied(d, n) => result.passed = FALSE /\ result.effect # "")
  <2> DEFINE g == c.guards[n]
             good == g.endpoint => /\ ~report.fails /\ g.required \subseteq report.fields /\ ~Stale(g, report, argNow)
  <2>1. Satisfied(d, n) <=> good
    <3> HIDE DEF as, new, n, d
    <3>1. d.guards[n] = g /\ d.answers[n].answer = report /\ d.answers[n].at = argNow
      BY <1>4, <1>5, <1>6
    <3>. QED BY <3>1 DEF Satisfied
  <2> HIDE DEF d, as, new, n
  <2>2. (good => result.passed = TRUE /\ result.effect = "") /\ (~good => result.passed = FALSE /\ result.effect # "")
    BY CheckedIs
  <2>. QED BY <2>1, <2>2
<1>8. \A k \in 1 .. n - 1 : Satisfied(d, k)
  <2>1. \A k \in 1 .. n - 1 : Satisfied(c, k)
    <3>1. n - 1 = Len(c.answers)
      BY <1>3
    <3>2. ~c.done => \A k \in 1 .. Len(c.answers) : Satisfied(c, k)
      BY <1>1 DEF SoFar
    <3> HIDE DEF n, c
    <3>. QED BY <1>1, <3>1, <3>2
  <2>2. \A k \in 1 .. n - 1 : d.guards[k] = c.guards[k] /\ d.answers[k] = c.answers[k]
    <3> HIDE DEF as, d
    <3>. QED BY <1>4, <1>5
  <2> HIDE DEF n, d
  <2>. QED BY <2>1, <2>2 DEF Satisfied
<1>9. d \in Checking
  <2>1. result.effect \in {"", "deny", "defer"} \cup STRING /\ result.passed \in BOOLEAN
    <3>1. c.guards[n] \in Guard
      BY <1>3, ElementOfSeq
    <3>2. c.guards[n].onMissing \in STRING /\ c.guards[n].onStale \in STRING
      BY <3>1 DEF Guard
    <3> HIDE DEF n
    <3>. QED BY <3>2 DEF Checked, EffectOrDefault
  <2> HIDE DEF result
  <2>2. d = [guards |-> c.guards, answers |-> as, effect |-> result.effect, done |-> ~result.passed \/ n = Len(c.guards)]
    <3> HIDE DEF new, n
    <3>. QED BY <1>2, <1>3 DEF Checking, result, new, n
  <2> HIDE DEF as, n, d
  <2>. QED BY <1>3, <1>4, <2>1, <2>2 DEF Checking
<1> HIDE DEF d, as, new, result
<1>10. Len(d.answers) = n /\ Len(d.guards) = Len(c.guards) /\ n \in Nat /\ n <= Len(c.guards) /\ n >= 1
  <2>1. Len(d.answers) = n
    BY <1>4, <1>5
  <2>2. d.guards = c.guards
    BY <1>5
  <2>3. n \in 1 .. Len(c.guards) /\ Len(c.guards) \in Nat
    BY <1>3
  <2> HIDE DEF n, c
  <2>. QED BY <2>1, <2>2, <2>3
<1> HIDE DEF n
<1>11. SoFar(d)
  <2>1. ~d.done => n < Len(c.guards) /\ Satisfied(d, n)
    <3>1. ~d.done => result.passed # FALSE /\ n # Len(c.guards)
      BY <1>5
    <3>2. Len(c.guards) \in Nat
      BY <1>3
    <3>3. ~d.done => Satisfied(d, n)
      BY <1>7, <3>1, Zenon
    <3>4. ~d.done => n < Len(c.guards)
      <4> DEFINE l == Len(c.guards)
      <4>1. n \in Nat /\ n <= l /\ l \in Nat /\ (~d.done => n # l)
        BY <1>10, <3>1, <3>2
      <4> HIDE DEF l
      <4>2. ~d.done => n < l
        BY ONLY <4>1
      <4>. QED BY <4>2 DEF l
    <3>. QED BY <3>3, <3>4, Zenon
  <2>2. d.done => (d.effect = "" => n = Len(c.guards) /\ Satisfied(d, n)) /\ (d.effect # "" => ~Satisfied(d, n))
    BY <1>5, <1>7
  <2>3. Satisfied(d, n) => \A k \in 1 .. n : Satisfied(d, k)
    <3>1. \A k \in 1 .. n : k \in 1 .. n - 1 \/ k = n
      BY <1>10
    <3>. QED BY <3>1, <1>8
  <2>. QED BY <1>8, <1>9, <1>10, <2>1, <2>2, <2>3 DEF SoFar
<1>. QED BY <1>1, <1>11 DEF GuardInv, d

LEMMA BeginGuardsKeeps == ASSUME GuardInv, BeginGuards PROVE GuardInv'
<1>1. argNow \in Nat /\ argNow' = argNow
  BY DEF BeginGuards, GuardInv
<1>2. PICK gs \in GuardLists : guarding' = [guards |-> gs, answers |-> <<>>, effect |-> "", done |-> gs = <<>>]
  BY DEF BeginGuards
<1> DEFINE d == guarding'
<1>3. gs \in Seq(Guard) /\ Len(gs) \in Nat /\ (gs = <<>> <=> Len(gs) = 0)
  <2>1. gs \in Seq(Guard)
    BY CallArgumentsAssumption DEF Guard
  <2>. QED BY <2>1, LenProperties, EmptySeq
<1>4. /\ d.guards = gs /\ d.answers = <<>> /\ d.effect = "" /\ d.done = (gs = <<>>)
      /\ d = [guards |-> gs, answers |-> <<>>, effect |-> "", done |-> gs = <<>>]
  BY <1>2
<1> HIDE DEF d
<1>5. d \in Checking
  <2>1. <<>> \in Seq(Reported)
    OBVIOUS
  <2>. QED BY <1>3, <1>4, <2>1 DEF Checking
<1>6. Len(d.answers) = 0
  <2>1. Len(<<>>) = 0
    OBVIOUS
  <2>. QED BY <1>4, <2>1
<1>7. SoFar(d)
  <2>1. d.done <=> Len(gs) = 0
    BY <1>3, <1>4
  <2>2. \A k \in 1 .. 0 : FALSE
    OBVIOUS
  <2>3. \A k \in 1 .. 0 - 1 : FALSE
    OBVIOUS
  <2>4. Len(d.guards) = Len(gs) /\ d.effect = "" /\ Len(d.answers) <= Len(gs)
    <3> DEFINE l == Len(gs)
    <3>1. d.guards = gs /\ d.effect = ""
      BY <1>3, <1>4
    <3>2. l \in Nat
      BY <1>3
    <3> HIDE DEF l
    <3>3. 0 <= l
      BY ONLY <3>2
    <3>. QED BY <1>6, <3>1, <3>3, Zenon DEF l
  <2>5. \A k \in 1 .. Len(d.answers) - 1 : Satisfied(d, k)
    BY <1>6, <2>3
  <2>6. \A k \in 1 .. Len(d.answers) : Satisfied(d, k)
    BY <1>6, <2>2
  <2>7. ~d.done => Len(d.answers) < Len(d.guards)
    <3> DEFINE l == Len(gs)
    <3>1. l \in Nat /\ (~d.done => l # 0)
      BY <1>3, <2>1
    <3> HIDE DEF l
    <3>2. ~d.done => 0 < l
      BY ONLY <3>1
    <3>. QED BY <1>6, <2>4, <3>2, Zenon DEF l
  <2>8. d.done => Len(d.answers) = Len(d.guards)
    BY <1>6, <2>1, <2>4
  <2>. QED BY <1>5, <2>4, <2>5, <2>6, <2>7, <2>8 DEF SoFar
<1>. QED BY <1>1, <1>7 DEF GuardInv, d

LEMMA GuardStep == GuardInv /\ GuardNext => GuardInv'
<1>1. ASSUME GuardInv, ArgTick PROVE GuardInv'
  BY <1>1 DEF ArgTick, GuardInv
<1>. QED BY <1>1, BeginGuardsKeeps, CheckGuardKeeps DEF GuardNext

LEMMA GuardsSafe == GuardInv => GuardsAreHeld
<1>. SUFFICES ASSUME GuardInv, guarding # <<>>, guarding.done
              PROVE  LET gs == guarding.guards as == guarding.answers n == Len(as)
                         Good(k) == gs[k].endpoint =>
                                        /\ ~as[k].answer.fails /\ gs[k].required \subseteq as[k].answer.fields
                                        /\ ~Stale(gs[k], as[k].answer, as[k].at)
                     IN /\ \A k \in 1 .. n - 1 : Good(k)
                        /\ GuardEffect(guarding.effect) = "" <=> n = Len(gs) /\ \A k \in 1 .. n : Good(k)
  BY DEF GuardsAreHeld
<1> DEFINE c == guarding
           n == Len(c.answers)
<1>1. SoFar(c)
  BY DEF GuardInv
<1>2. \A k \in 1 .. n - 1 : Satisfied(c, k)
  BY <1>1 DEF SoFar
<1>3. n \in Nat
  <2>1. c.answers \in Seq(Reported)
    BY <1>1 DEF SoFar, Checking
  <2>. QED BY <2>1, LenProperties
<1>4. GuardEffect(c.effect) = "" <=> c.effect = ""
  BY DEF GuardEffect
<1>5. c.effect = "" <=> n = Len(c.guards) /\ \A k \in 1 .. n : Satisfied(c, k)
  <2>1. c.effect # "" => n >= 1 /\ ~Satisfied(c, n)
    BY <1>1 DEF SoFar
  <2>2. c.effect = "" => n = Len(c.guards) /\ \A k \in 1 .. n : Satisfied(c, k)
    BY <1>1 DEF SoFar
  <2> HIDE DEF n, c
  <2>3. n >= 1 => n \in 1 .. n
    BY <1>3
  <2>. QED BY <2>1, <2>2, <2>3
<1>. QED BY <1>2, <1>4, <1>5 DEF Satisfied

-------------------------------------------------------------------------------
(* Compensation *)

LEMMA SplitType == ASSUME NEW path \in Seq(STRING) PROVE SplitPath(path) \in Seq(STRING)
<1> DEFINE table == [bits \in {""} |-> <<>>]
<1>1. \A c \in DOMAIN table : table[c] \in Seq(STRING)
  <2>1. \A S : <<>> \in Seq(S)
    OBVIOUS
  <2>2. \A c \in DOMAIN table : table[c] = <<>>
    OBVIOUS
  <2> HIDE DEF table
  <2>. QED BY <2>1, <2>2
<1>2. SplitPath(path) = Replaced(path, table)
  BY DEF SplitPath
<1> HIDE DEF table
<1>. QED BY <1>1, <1>2, ReplacedBy

(* What is below a path is, behind it, an argument.                        *)
LEMMA BelowPath ==
  ASSUME NEW path \in Seq(STRING), NEW args \in SUBSET Seq(STRING), NEW rest \in Resolved(args, path)
  PROVE  SplitPath(path) \o rest \in args
<1> DEFINE p == SplitPath(path)
           k == Len(p)
<1>1. p \in Seq(STRING) /\ k \in Nat
  BY SplitType, LenProperties
<1>2. PICK leaf \in args : IsPrefix(p, leaf) /\ rest = SubSeq(leaf, k + 1, Len(leaf))
  BY DEF Resolved
<1> HIDE DEF p
<1>3. leaf \in Seq(STRING) /\ Len(leaf) \in Nat /\ k <= Len(leaf) /\ SubSeq(p, 1, k) = SubSeq(leaf, 1, k)
  BY <1>1, <1>2, LenProperties DEF IsPrefix
<1>4. \A i \in 1 .. k : p[i] = leaf[i]
  <2>1. \A i \in 1 .. k : SubSeq(p, 1, k)[i] = p[i] /\ SubSeq(leaf, 1, k)[i] = leaf[i]
    BY <1>1, <1>3
  <2>. QED BY <1>3, <2>1
<1>5. rest \in Seq(STRING) /\ Len(rest) = Len(leaf) - k /\ \A i \in 1 .. Len(rest) : rest[i] = leaf[k + i]
  <2>1. k + 1 \in Nat /\ k + 1 >= 1 /\ k + 1 <= Len(leaf) + 1
    BY <1>1, <1>3
  <2>2. /\ rest \in Seq(STRING) /\ Len(rest) = Len(leaf) - (k + 1) + 1
        /\ \A i \in 1 .. Len(rest) : rest[i] = leaf[(k + 1) + i - 1]
    BY <1>2, <1>3, <2>1, PartOf
  <2>3. Len(rest) = Len(leaf) - k
    BY <1>1, <1>3, <2>2
  <2>4. \A i \in 1 .. Len(rest) : (k + 1) + i - 1 = k + i
    BY <1>1, <1>3, <2>3
  <2>. QED BY <2>2, <2>3, <2>4
<1> HIDE DEF k
<1> DEFINE whole == p \o rest
<1>6. /\ whole \in Seq(STRING) /\ Len(whole) = k + Len(rest)
      /\ \A i \in 1 .. k + Len(rest) : whole[i] = IF i <= k THEN p[i] ELSE rest[i - k]
  BY <1>1, <1>5, ConcatProperties DEF k
<1> HIDE DEF whole
<1>7. Len(whole) = Len(leaf)
  BY <1>1, <1>3, <1>5, <1>6
<1>8. ASSUME NEW i \in 1 .. Len(leaf) PROVE whole[i] = leaf[i]
  <2>1. CASE i <= k
    <3>1. i \in 1 .. k /\ i \in 1 .. k + Len(rest)
      BY <1>1, <1>3, <1>5, <2>1
    <3>. QED BY <1>4, <1>6, <2>1, <3>1
  <2>2. CASE ~(i <= k)
    <3>1. i - k \in 1 .. Len(rest) /\ k + (i - k) = i /\ i \in 1 .. k + Len(rest)
      BY <1>1, <1>3, <1>5, <2>2
    <3>. QED BY <1>5, <1>6, <2>2, <3>1
  <2>. QED BY <2>1, <2>2
<1>9. whole = leaf
  BY <1>3, <1>6, <1>7, <1>8, SeqEqual
<1>. QED BY <1>2, <1>9 DEF whole, p

LEMMA ProposedIs ==
  ASSUME NEW u \in Undoings, Proposed(u).status = "proposed"
  PROVE  LET map == u.mapping[1] args == Proposed(u).args IN
         /\ u.kind \notin {"reversible", "irreversible"} /\ u.mapping # <<>>
         /\ DOMAIN args = DOMAIN map
         /\ \A a \in DOMAIN args : args[a] # {} /\ \A rest \in args[a] : SplitPath(map[a]) \o rest \in u.args
<1> DEFINE map == u.mapping[1]
           c == Compensation(u)
<1>1. Classified(u) = "compensatable" /\ c.status = "executed" /\ Proposed(u).args = c.args
  BY DEF Proposed
<1>2. u.kind \notin {"reversible", "irreversible"}
  BY <1>1 DEF Classified
<1>3. u.mapping # <<>>
  BY <1>1 DEF Compensation
<1>4. /\ ~(\E a \in DOMAIN map : Resolved(u.args, map[a]) = {})
      /\ c.args = [a \in DOMAIN map |-> Resolved(u.args, map[a])]
  BY <1>1, <1>3 DEF Compensation
<1>5. u.args \in SUBSET Seq(STRING) /\ \A a \in DOMAIN map : map[a] \in Seq(STRING)
  BY <1>3, CallArgumentsAssumption
<1> HIDE DEF map
<1>6. \A a \in DOMAIN map : \A rest \in Resolved(u.args, map[a]) : SplitPath(map[a]) \o rest \in u.args
  BY <1>5, BelowPath
<1>7. DOMAIN Proposed(u).args = DOMAIN map /\ \A a \in DOMAIN map : Proposed(u).args[a] = Resolved(u.args, map[a])
  BY <1>1, <1>4
<1>8. /\ DOMAIN Proposed(u).args = DOMAIN map
      /\ \A a \in DOMAIN Proposed(u).args : /\ Proposed(u).args[a] # {}
                                            /\ \A rest \in Proposed(u).args[a] : SplitPath(map[a]) \o rest \in u.args
  BY <1>4, <1>6, <1>7
<1>. QED BY <1>2, <1>3, <1>8 DEF map

LEMMA BuildUndoingKeeps == BuildUndoing => UndoingIsComplete'
<1>. SUFFICES ASSUME BuildUndoing PROVE UndoingIsComplete'
  OBVIOUS
<1>1. PICK u \in Undoings : undone' = [of |-> u, output |-> Proposed(u)]
  BY DEF BuildUndoing
<1>2. undone'.of = u /\ undone'.output = Proposed(u)
  BY <1>1
<1>. QED BY <1>2, ProposedIs DEF UndoingIsComplete

-------------------------------------------------------------------------------
(* What is made of a call's arguments *)

ArgInv == NothingHides /\ FiguresAreKept /\ GuardInv /\ UndoingIsComplete

LEMMA ArgBegins == ArgInit => ArgInv
BY DEF ArgInit, ArgInv, NothingHides, FiguresAreKept, GuardInv, UndoingIsComplete

LEMMA ArgStep == ArgInv /\ [ArgNext]_argVars => ArgInv'
<1>. SUFFICES ASSUME ArgInv, [ArgNext]_argVars PROVE ArgInv'
  OBVIOUS
<1>1. CASE Normalize
  <2>1. UNCHANGED <<argNow, guarding, undone>>
    BY <1>1 DEF Normalize
  <2>2. GuardInv' /\ UndoingIsComplete'
    BY <2>1 DEF ArgInv, GuardInv, UndoingIsComplete
  <2>. QED BY <1>1, <2>2, NormalizedHides, NormalizedKeeps DEF ArgInv
<1>2. CASE GuardNext
  <2>1. UNCHANGED <<normalized, undone>>
    BY <1>2 DEF GuardNext, BeginGuards, CheckGuard, ArgTick
  <2>2. NothingHides' /\ FiguresAreKept' /\ UndoingIsComplete'
    BY <2>1 DEF ArgInv, NothingHides, FiguresAreKept, UndoingIsComplete
  <2>. QED BY <1>2, <2>2, GuardStep DEF ArgInv
<1>3. CASE BuildUndoing
  <2>1. UNCHANGED <<argNow, normalized, guarding>>
    BY <1>3 DEF BuildUndoing
  <2>2. NothingHides' /\ FiguresAreKept' /\ GuardInv'
    BY <2>1 DEF ArgInv, NothingHides, FiguresAreKept, GuardInv
  <2>. QED BY <1>3, <2>2, BuildUndoingKeeps DEF ArgInv
<1>4. CASE UNCHANGED argVars
  BY <1>4 DEF argVars, ArgInv, NothingHides, FiguresAreKept, GuardInv, UndoingIsComplete
<1>. QED BY <1>1, <1>2, <1>3, <1>4 DEF ArgNext

LEMMA ArgSafe == ArgInv => ArgumentsHold
BY GuardsSafe DEF ArgInv, ArgumentsHold

THEOREM ArgumentsAreKept == ArgSpec => []ArgumentsHold
BY ArgBegins, ArgStep, ArgSafe, PTL DEF ArgSpec

-------------------------------------------------------------------------------
(* What an aggregated answer shows *)

BlockedSpans == {e \in Spans : e.type \in Blocked}

(* There is one way to find a text from the left: up to any place, what is  *)
(* found before it decides.                                                *)
FoundTo(n, left, v) ==
    \E places \in SUBSET Whole :
       \A i \in 1 .. n : i \in places <=> StandsAt(left, v, i) /\ \A j \in places : j < i => j + Len(v) <= i

LEMMA PlacesAreFound ==
  ASSUME NEW left, NEW v, Len(v) \in Nat
  PROVE  FromTheLeft(Places(left, v), left, v) /\ Places(left, v) \in SUBSET Whole
<1> DEFINE n == Len(AnswerText)
           A == {k \in 0 .. n : FoundTo(k, left, v)}
           Stands(i) == StandsAt(left, v, i)
           m == Len(v)
<1>0. n \in Nat /\ m \in Nat
  BY AgentRulesAssumption DEF AgentRulesAssumption
<1>1. 0 \in A
  BY <1>0 DEF FoundTo
<1>2. ASSUME NEW k \in 0 .. n - 1, k \in A PROVE k + 1 \in A
  <2>1. PICK ps \in SUBSET Whole :
          \A i \in 1 .. k : i \in ps <=> Stands(i) /\ \A j \in ps : j < i => j + m <= i
    BY <1>2 DEF FoundTo
  <2>2. k \in Nat /\ k + 1 \in 1 .. n /\ k + 1 \in Whole
    BY <1>0 DEF Whole
  <2> DEFINE old == {j \in ps : j <= k}
             new == IF Stands(k + 1) /\ \A j \in old : j + m <= k + 1 THEN old \cup {k + 1} ELSE old
  <2>3. new \in SUBSET Whole /\ Whole \subseteq Int
    <3>1. old \in SUBSET Whole /\ old \cup {k + 1} \in SUBSET Whole
      BY <2>2
    <3>2. new \in {old, old \cup {k + 1}}
      OBVIOUS
    <3>. QED BY <3>1, <3>2 DEF Whole
  <2> HIDE DEF Stands, m
  <2>4. /\ \A j \in new : j <= k => j \in old
        /\ \A j \in old : j \in new /\ j \in ps /\ j <= k /\ j \in Int
        /\ \A j \in new : j \in Int /\ (j <= k \/ j = k + 1)
        /\ k + 1 \in new <=> Stands(k + 1) /\ \A j \in old : j + m <= k + 1
    BY <2>2, <2>3
  <2>5. \A j \in ps : j \in Int /\ (j <= k => j \in old)
    BY <2>3
  <2> HIDE DEF old, new
  <2>6. ASSUME NEW i \in 1 .. k + 1
        PROVE  i \in new <=> Stands(i) /\ \A j \in new : j < i => j + m <= i
    <3>1. CASE i = k + 1
      <4>1. \A j \in new : j < i => j \in old
        BY <3>1, <2>2, <2>4
      <4>2. \A j \in old : j \in new /\ j < i
        BY <3>1, <2>2, <2>4
      <4>3. (\A j \in old : j + m <= k + 1) <=> \A j \in new : j < i => j + m <= i
        BY <3>1, <4>1, <4>2
      <4>. QED BY <3>1, <4>3, <2>4
    <3>2. CASE i # k + 1
      <4>1. i \in 1 .. k /\ i \in Int /\ i <= k
        BY <3>2, <2>2
      <4>2. i \in new <=> i \in ps
        BY <4>1, <2>4, <2>5
      <4>3. \A j \in new : j < i => j \in ps
        BY <4>1, <2>2, <2>4
      <4>4. \A j \in ps : j < i => j \in new
        BY <4>1, <2>2, <2>4, <2>5
      <4>. QED BY <4>1, <4>2, <4>3, <4>4, <2>1
    <3>. QED BY <3>1, <3>2
  <2>7. FoundTo(k + 1, left, v)
    BY <2>3, <2>6 DEF FoundTo, Stands, m
  <2>. QED BY <2>2, <2>7
<1>3. n \in A
  <2>1. \A k \in 0 .. n : k \in A
    <3> HIDE DEF A, n
    <3>. QED BY <1>0, <1>1, <1>2, IntervalInduction
  <2>. QED BY <2>1, <1>0
<1>4. \E places \in SUBSET Whole : FromTheLeft(places, left, v)
  BY <1>3 DEF FoundTo, FromTheLeft, Whole
<1>. QED BY <1>4 DEF Places

(* What was taken out stands nowhere in what it leaves, nor in less.       *)
LEMMA TakenOut ==
  ASSUME NEW left, NEW v, Len(v) \in Nat \ {0}, NEW i \in Whole
  PROVE  ~StandsAt(TakeOut(left, Places(left, v), v), v, i)
<1> SUFFICES ASSUME StandsAt(TakeOut(left, Places(left, v), v), v, i) PROVE FALSE
  OBVIOUS
<1> DEFINE ps == Places(left, v)
           m == Len(v)
           gone == UNION {j .. j + Len(v) - 1 : j \in ps}
<1>1. FromTheLeft(ps, left, v) /\ ps \in SUBSET Whole /\ Whole \subseteq Int
  BY PlacesAreFound DEF Whole
<1>2. i .. i + m - 1 \subseteq left \ gone /\ \A k \in 1 .. m : AnswerText[i + k - 1] = v[k]
  BY DEF StandsAt, TakeOut
<1>3. StandsAt(left, v, i)
  BY <1>2 DEF StandsAt
<1> HIDE DEF ps, m
<1>4. i \in Int /\ m \in Nat \ {0} /\ i \in i .. i + m - 1
  BY <1>1 DEF m
<1>5. i \notin gone
  BY <1>2, <1>4
<1>6. \A j \in ps : i \notin j .. j + m - 1
  BY <1>5 DEF m
<1>7. i \notin ps
  BY <1>6, <1>4
<1>8. PICK j \in ps : j < i /\ ~(j + m <= i)
  BY <1>1, <1>3, <1>7 DEF FromTheLeft, m
<1>9. j \in Int
  BY <1>1
<1>. QED BY <1>4, <1>6, <1>8, <1>9

LEMMA StandsInLess ==
  ASSUME NEW left, NEW less \in SUBSET left, NEW v, NEW i, StandsAt(less, v, i)
  PROVE  StandsAt(left, v, i)
BY DEF StandsAt

LEMMA ValueHasLength == ASSUME NEW e \in Spans PROVE Len(Value(e)) \in Nat \ {0}
<1>1. /\ AnswerText \in Seq(STRING) /\ Len(AnswerText) \in Nat
      /\ e.from \in 1 .. e.to /\ e.to \in 1 .. Len(AnswerText)
  BY AgentRulesAssumption DEF AgentRulesAssumption
<1>2. e.from \in Int /\ e.to \in Int /\ e.from <= e.to /\ 1 <= e.from
  BY <1>1
<1>3. Len(Value(e)) = e.to - e.from + 1
  <2> DEFINE a == e.from  b == e.to
  <2>1. a \in 1 .. Len(AnswerText) + 1 /\ b \in a - 1 .. Len(AnswerText)
    BY <1>1, <1>2
  <2> HIDE DEF a, b
  <2>2. Len(SubSeq(AnswerText, a, b)) = b - a + 1
    BY <1>1, <2>1, SubSeqProperties
  <2>. QED BY <2>2 DEF Value, a, b
<1>. QED BY <1>2, <1>3

(* What the first k of the entities have left: none of them stands in it.  *)
LeftBy(left, order, k) ==
    /\ left \in SUBSET Whole
    /\ \A j \in 1 .. k : \A i \in Whole : ~StandsAt(left, Value(order[j]), i)

LEMMA RedactsInTurn ==
  ASSUME NEW order \in SetToSeqs(BlockedSpans)
  PROVE  LeftBy(FoldLeft(Redact, Whole, order), order, Len(order))
<1> DEFINE n == Len(order)
           V == SUBSET Whole
           step == [p \in (1 .. n) \X V |-> Redact(p[2], order[p[1]])]
           Folds(g) == g = [s \in SUBSET (1 .. n) |->
                               IF s = {} THEN Whole ELSE Redact(g[s \ {Max(s)}], order[Max(s)])]
<1>0. /\ n \in Nat /\ DOMAIN order = 1 .. n /\ \A i \in 1 .. n : order[i] \in BlockedSpans
      /\ \A i, j \in 1 .. n : i # j => order[i] # order[j]
  <2>1. IsFiniteSet(BlockedSpans)
    BY AgentRulesAssumption, FS_Subset DEF BlockedSpans
  <2> DEFINE m == Cardinality(BlockedSpans)
  <2>2. order \in [1 .. m -> BlockedSpans] /\ m \in Nat /\ \A i, j \in 1 .. m : i # j => order[i] # order[j]
    BY <2>1, OrderOfSet
  <2> HIDE DEF m
  <2>. QED BY <2>2
<1>1. Whole \in V
  OBVIOUS
<1>2. ASSUME NEW i \in 1 .. n, NEW r \in V PROVE Redact(r, order[i]) \in V
  BY DEF Redact, TakeOut
<1>3. step \in [(1 .. n) \X V -> V] /\ \A i \in 1 .. n, r \in V : step[<<i, r>>] = Redact(r, order[i])
  <2> HIDE DEF V, n
  <2>. QED BY <1>2
<1> HIDE DEF V, step, n
<1> DEFINE base == Whole
<1>b. base \in V /\ base = Whole
  BY <1>1
<1> HIDE DEF base
<1>4. PICK g \in [SUBSET (1 .. n) -> V] : FoldsLast(g, n, base, step)
  BY <1>0, <1>b, <1>3, LeftFold
<1>5. \A s \in SUBSET (1 .. n) : s # {} => Max(s) \in 1 .. n /\ s \ {Max(s)} \in SUBSET (1 .. n)
  BY <1>0, LastOfSome
<1>6. Folds(g)
  <2>1. ASSUME NEW s \in SUBSET (1 .. n), s # {}
        PROVE  step[<<Max(s), g[s \ {Max(s)}]>>] = Redact(g[s \ {Max(s)}], order[Max(s)])
    BY <1>3, <1>5, <2>1
  <2>. QED BY <2>1, <1>4, <1>b DEF FoldsLast
<1> DEFINE c == CHOOSE h : Folds(h)
<1>7. Folds(c)
  <2> HIDE DEF Folds
  <2>. QED BY <1>6
<1>8. FoldLeft(Redact, Whole, order) = c[1 .. n]
  BY <1>0, Zenon DEF FoldLeft, MapThenFoldSet
<1> HIDE DEF c
<1>9. c[{}] = base /\ \A s \in SUBSET (1 .. n) : s # {} => c[s] = Redact(c[s \ {Max(s)}], order[Max(s)])
  BY <1>7, <1>b
<1>10. FoldsIn(c, n, V, base, step)
  BY <1>3, <1>5, <1>9 DEF FoldsIn
<1>11. PICK F \in [0 .. n -> V] : Recurs(F, n, base, step)
  BY <1>0, <1>b, <1>3, NumberRecursion
<1>12. F[n] = c[1 .. n]
  <2>1. Folding(c, F, n, V, base, step)
    BY <1>0, <1>b, <1>3, <1>10, <1>11 DEF Folding
  <2>. QED BY <2>1, FoldSteps
<1> DEFINE A == {k \in 0 .. n : LeftBy(F[k], order, k)}
<1>13. 0 \in A
  <2>1. F[0] = Whole /\ 0 \in 0 .. n /\ 1 .. 0 = {}
    BY <1>0, <1>b, <1>11 DEF Recurs
  <2>. QED BY <2>1 DEF LeftBy
<1>14. ASSUME NEW k \in 0 .. n - 1, k \in A PROVE k + 1 \in A
  <2>1. k + 1 \in 1 .. n /\ (k + 1) - 1 = k /\ k + 1 \in 0 .. n /\ F[k] \in V
    BY <1>0
  <2> DEFINE e == order[k + 1]
             left == F[k]
             new == F[k + 1]
  <2>2. new = Redact(left, e) /\ e \in BlockedSpans
    BY <2>1, <1>0, <1>3, <1>11 DEF Recurs
  <2>3. LeftBy(left, order, k)
    BY <1>14
  <2>4. new \in SUBSET Whole /\ left \in SUBSET Whole /\ new \in SUBSET left
    BY <2>2, <2>3 DEF LeftBy, Redact, TakeOut
  <2>5. Len(Value(e)) \in Nat \ {0}
    BY <2>2, ValueHasLength DEF BlockedSpans
  <2>6. new = TakeOut(left, Places(left, Value(e)), Value(e))
    BY <2>2 DEF Redact
  <2> HIDE DEF left, new
  <2>7. ASSUME NEW j \in 1 .. k + 1, NEW i \in Whole PROVE ~StandsAt(new, Value(order[j]), i)
    <3>1. CASE j = k + 1
      <4> DEFINE v == Value(e)
      <4>1. v = Value(order[j]) /\ Len(v) \in Nat \ {0} /\ new = TakeOut(left, Places(left, v), v)
        BY <3>1, <2>5, <2>6
      <4> HIDE DEF v, e
      <4>2. ~StandsAt(new, v, i)
        BY <4>1, TakenOut
      <4>. QED BY <4>1, <4>2
    <3>2. CASE j # k + 1
      <4>1. j \in 1 .. k
        BY <3>2, <1>0, <2>1
      <4>2. ~StandsAt(left, Value(order[j]), i)
        BY <4>1, <2>3 DEF LeftBy
      <4>. QED BY <4>2, <2>4, StandsInLess
    <3>. QED BY <3>1, <3>2
  <2>8. LeftBy(new, order, k + 1)
    BY <2>4, <2>7 DEF LeftBy
  <2>. QED BY <2>1, <2>8 DEF new
<1>15. \A k \in 0 .. n : k \in A
  <2> HIDE DEF A
  <2>. QED BY <1>0, <1>13, <1>14, IntervalInduction
<1>16. LeftBy(F[n], order, n)
  BY <1>0, <1>15
<1>. QED BY <1>8, <1>12, <1>16 DEF n

LEMMA GovernOutputKeeps == ASSUME GovernOutput PROVE BlockedIsGone'
<1>1. PICK order \in SetToSeqs(BlockedSpans) : answer' \in SUBSET FoldLeft(Redact, Whole, order)
  BY DEF GovernOutput, BlockedSpans
<1> DEFINE left == FoldLeft(Redact, Whole, order)
<1>2. LeftBy(left, order, Len(order)) /\ answer' \in SUBSET left
  BY <1>1, RedactsInTurn
<1> HIDE DEF left
<1>3. ASSUME NEW e \in BlockedSpans, NEW i \in Whole PROVE ~StandsAt(answer', Value(e), i)
  <2>0. IsFiniteSet(BlockedSpans)
    BY AgentRulesAssumption, FS_Subset DEF BlockedSpans, AgentRulesAssumption
  <2> DEFINE m == Cardinality(BlockedSpans)
  <2>1. order \in [1 .. m -> BlockedSpans] /\ m \in Nat /\ ToSet(order) = BlockedSpans
    BY <2>0, OrderOfSet
  <2> HIDE DEF m
  <2>2. PICK j \in DOMAIN order : order[j] = e
    BY <2>1 DEF ToSet
  <2>3. j \in 1 .. Len(order)
    BY <2>1
  <2>4. ~StandsAt(left, Value(e), i)
    BY <1>2, <2>2, <2>3 DEF LeftBy
  <2>. QED BY <1>2, <2>4, StandsInLess
<1>. QED BY <1>3 DEF BlockedIsGone, BlockedSpans, StandsAt

-------------------------------------------------------------------------------
(* A session whose seals follow each other                                 *)

(* Numbers each one more than the one before are as far apart as their     *)
(* places.                                                                 *)
LEMMA StepsFollow ==
  ASSUME NEW f \in Seq(Int), VerifyChain(f), NEW i \in DOMAIN f, NEW j \in DOMAIN f
  PROVE  f[j] - f[i] = j - i
<1> DEFINE n == Len(f)
           A == {k \in 0 .. n : k = 0 \/ f[k] = f[1] + k - 1}
<1>1. n \in Nat /\ DOMAIN f = 1 .. n /\ \A k \in 1 .. n : f[k] \in Int
  <2>1. n \in Nat /\ DOMAIN f = 1 .. n
    OBVIOUS
  <2>. QED BY <2>1, ElementOfSeq
<1>2. \A k \in 2 .. n : f[k] = f[k - 1] + 1
  BY DEF VerifyChain
<1> HIDE DEF n
<1>3. 0 \in A
  BY <1>1
<1>4. ASSUME NEW k \in 0 .. n - 1, k \in A PROVE k + 1 \in A
  <2>1. k + 1 \in 1 .. n /\ k + 1 \in 0 .. n /\ k \in Nat
    BY <1>1
  <2>2. CASE k = 0
    <3>1. f[k + 1] = f[1] /\ f[1] \in Int
      BY <2>1, <2>2, <1>1
    <3>. QED BY <2>1, <2>2, <3>1
  <2>3. CASE k # 0
    <3>1. k \in 1 .. n /\ 1 \in 1 .. n /\ k + 1 \in 2 .. n /\ (k + 1) - 1 = k
      BY <2>1, <2>3, <1>1
    <3>2. f[k + 1] = f[k] + 1 /\ f[k] = f[1] + k - 1 /\ f[1] \in Int
      BY <3>1, <2>3, <1>1, <1>2, <1>4
    <3>3. f[k + 1] = f[1] + (k + 1) - 1
      BY <3>2, <2>1
    <3>. QED BY <2>1, <3>3
  <2>. QED BY <2>2, <2>3
<1>5. \A k \in 0 .. n : k \in A
  <2> HIDE DEF A
  <2>. QED BY <1>1, <1>3, <1>4, IntervalInduction
<1>6. i \in 1 .. n /\ j \in 1 .. n /\ 1 \in 1 .. n
  BY <1>1
<1>7. f[i] = f[1] + i - 1 /\ f[j] = f[1] + j - 1 /\ f[1] \in Int
  BY <1>1, <1>5, <1>6
<1>. QED BY <1>6, <1>7

-------------------------------------------------------------------------------
(* The last of a sequence, and some of its elements *)

LEMMA LastOnes ==
  ASSUME NEW S, NEW s \in Seq(S), NEW room \in Nat \ {0}
  PROVE  /\ LastOf(s, room) \in Seq(S)
         /\ Len(LastOf(s, room)) = (IF Len(s) > room THEN room ELSE Len(s))
         /\ \A r \in 0 .. Len(LastOf(s, room)) - 1 : LastOf(s, room)[Len(LastOf(s, room)) - r] = s[Len(s) - r]
         /\ ToSet(LastOf(s, room)) \subseteq ToSet(s)
<1> DEFINE d == IF Len(s) > room THEN Len(s) - room ELSE 0
           u == SubSeq(s, 1 + d, Len(s))
<1>1. Len(s) \in Nat /\ d \in Nat /\ d <= Len(s) /\ 1 + d \in Int /\ DOMAIN s = 1 .. Len(s)
  <2>1. Len(s) \in Nat /\ DOMAIN s = 1 .. Len(s)
    BY LenProperties
  <2>. QED BY <2>1
<1>2. LastOf(s, room) = u
  BY DEF LastOf
<1> HIDE DEF d
<1>3. \A i \in 1 + d .. Len(s) : s[i] \in S
  BY <1>1, ElementOfSeq
<1>4. /\ u \in Seq(S) /\ Len(u) = (IF 1 + d <= Len(s) THEN Len(s) - (1 + d) + 1 ELSE 0)
      /\ \A i \in 1 .. Len(s) - (1 + d) + 1 : u[i] = s[1 + d + i - 1]
  BY <1>1, <1>3, SubSeqProperties
<1> HIDE DEF u
<1>5. Len(u) = Len(s) - d /\ \A i \in 1 .. Len(u) : i + d \in 1 .. Len(s) /\ u[i] = s[i + d]
  <2>1. Len(u) = Len(s) - d
    <3>1. \A n, k \in Nat : k <= n => (IF 1 + k <= n THEN n - (1 + k) + 1 ELSE 0) = n - k
      OBVIOUS
    <3>. QED BY <1>1, <1>4, <3>1
  <2>2. ASSUME NEW i \in 1 .. Len(u) PROVE i + d \in 1 .. Len(s) /\ u[i] = s[i + d]
    <3>1. i \in 1 .. Len(s) - (1 + d) + 1 /\ 1 + d + i - 1 = i + d /\ i + d \in 1 .. Len(s)
      BY <1>1, <2>1
    <3>. QED BY <1>4, <3>1
  <2>. QED BY <2>1, <2>2
<1>6. Len(s) - d = IF Len(s) > room THEN room ELSE Len(s)
  BY <1>1 DEF d
<1>7. ASSUME NEW r \in 0 .. Len(u) - 1 PROVE u[Len(u) - r] = s[Len(s) - r]
  <2>1. Len(u) - r \in 1 .. Len(u) /\ Len(u) - r + d = Len(s) - r
    BY <1>1, <1>5
  <2>. QED BY <1>5, <2>1
<1>8. DOMAIN u = 1 .. Len(u)
  BY <1>4
<1>9. ToSet(u) \subseteq ToSet(s)
  BY <1>1, <1>5, <1>8 DEF ToSet
<1>. QED BY <1>2, <1>4, <1>5, <1>6, <1>7, <1>9

LEMMA ThoseElements ==
  ASSUME NEW S, NEW s \in Seq(S), NEW ns
  PROVE  /\ Those(s, ns) \in Seq(S)
         /\ \A x : x \in ToSet(Those(s, ns)) <=> \E n \in DOMAIN s : n \in ns /\ x = s[n]
<1> DEFINE seqs == [n \in DOMAIN s |-> IF n \in ns THEN <<s[n]>> ELSE <<>>]
<1>1. Len(s) \in Nat /\ DOMAIN s = 1 .. Len(s) /\ \A n \in 1 .. Len(s) : s[n] \in S
  BY LenProperties, ElementOfSeq
<1>2. seqs \in [1 .. Len(s) -> Seq(S)]
  BY <1>1
<1>3. ASSUME NEW n \in DOMAIN s, NEW x PROVE x \in ToSet(seqs[n]) <=> n \in ns /\ x = s[n]
  <2>1. seqs[n] = IF n \in ns THEN <<s[n]>> ELSE <<>>
    OBVIOUS
  <2>2. ToSet(<<>>) = {} /\ ToSet(<<s[n]>>) = {s[n]}
    BY DEF ToSet
  <2>. QED BY <2>1, <2>2
<1>4. Those(s, ns) = FlattenSeq(seqs)
  BY DEF Those
<1> HIDE DEF seqs
<1>5. FlattenSeq(seqs) \in Seq(S) /\ ToSet(FlattenSeq(seqs)) = UNION {ToSet(seqs[i]) : i \in 1 .. Len(s)}
  BY <1>1, <1>2, FlattenElements
<1>6. ASSUME NEW x PROVE x \in ToSet(FlattenSeq(seqs)) <=> \E n \in DOMAIN s : n \in ns /\ x = s[n]
  <2>1. x \in ToSet(FlattenSeq(seqs)) <=> \E n \in DOMAIN s : x \in ToSet(seqs[n])
    BY <1>1, <1>5
  <2>. QED BY <1>3, <2>1
<1>. QED BY <1>4, <1>5, <1>6

(* The elements after the first few.                                       *)
LEMMA ThoseAtTheEnd ==
  ASSUME NEW S, NEW s \in Seq(S), NEW ns, NEW cut \in 0 .. Len(s),
         \A n \in 1 .. Len(s) : n \in ns <=> n > cut
  PROVE  /\ Len(Those(s, ns)) = Len(s) - cut
         /\ \A n \in 1 .. Len(s) - cut : Those(s, ns)[n] = s[n + cut]
<1> DEFINE seqs == [n \in DOMAIN s |-> IF n \in ns THEN <<s[n]>> ELSE <<>>]
           m == Len(s)
<1>1. m \in Nat /\ DOMAIN s = 1 .. m /\ (\A n \in 1 .. m : s[n] \in S) /\ cut \in Nat /\ cut <= m
  BY LenProperties, ElementOfSeq
<1>2. seqs \in [1 .. m -> Seq(S)] /\ Len(seqs) = m
  BY <1>1
<1>3. \A n \in 1 .. m : seqs[n] = IF n > cut THEN <<s[n]>> ELSE <<>>
  BY <1>1
<1>4. Those(s, ns) = FlattenSeq(seqs)
  BY DEF Those
<1> HIDE DEF seqs, m
<1>5. PICK F \in [0 .. m -> Seq(S)] : Flattens(F, seqs)
  BY <1>1, <1>2, FlattenSteps
<1>6. F[0] = <<>> /\ FlattenSeq(seqs) = F[m] /\ \A i \in 1 .. m : F[i] = F[i - 1] \o seqs[i]
  BY <1>2, <1>5 DEF Flattens
<1> DEFINE Ends(k) == IF k <= cut THEN F[k] = <<>>
                      ELSE Len(F[k]) = k - cut /\ \A n \in 1 .. k - cut : F[k][n] = s[n + cut]
           A == {k \in 0 .. m : Ends(k)}
<1>7. 0 \in A
  BY <1>1, <1>6
<1>8. ASSUME NEW k \in 0 .. m - 1, k \in A PROVE k + 1 \in A
  <2>1. k + 1 \in 1 .. m /\ (k + 1) - 1 = k /\ k + 1 \in 0 .. m /\ k \in 0 .. m /\ k \in Nat
    BY <1>1
  <2>2. F[k + 1] = F[k] \o seqs[k + 1] /\ F[k] \in Seq(S) /\ s[k + 1] \in S
    BY <1>1, <1>6, <2>1
  <2>3. CASE k + 1 <= cut
    <3>1. F[k] = <<>> /\ seqs[k + 1] = <<>>
      <4>1. k <= cut /\ ~(k + 1 > cut)
        BY <1>1, <2>1, <2>3
      <4>. QED BY <1>3, <1>8, <2>1, <4>1
    <3>2. <<>> \o <<>> = <<>>
      OBVIOUS
    <3>. QED BY <2>1, <2>2, <2>3, <3>1, <3>2
  <2>4. CASE k + 1 > cut
    <3>1. seqs[k + 1] = <<s[k + 1]>> /\ F[k + 1] = F[k] \o <<s[k + 1]>>
      BY <1>3, <2>1, <2>2, <2>4
    <3>2. /\ Len(F[k + 1]) = Len(F[k]) + 1 /\ F[k + 1][Len(F[k]) + 1] = s[k + 1] /\ Len(F[k]) \in Nat
          /\ \A n \in 1 .. Len(F[k]) : F[k + 1][n] = F[k][n]
      <4>1. F[k] \o <<s[k + 1]>> = Append(F[k], s[k + 1])
        BY <2>2
      <4>. QED BY <2>2, <3>1, <4>1, AppendedTo
    <3>3. Len(F[k]) = k - cut /\ \A n \in 1 .. k - cut : F[k][n] = s[n + cut]
      <4>1. CASE k <= cut
        <5>1. F[k] = <<>> /\ Len(<<>>) = 0
          BY <1>8, <4>1
        <5>. QED BY <1>1, <2>1, <2>4, <4>1, <5>1
      <4>2. CASE ~(k <= cut)
        BY <1>8, <4>2
      <4>. QED BY <4>1, <4>2
    <3>4. Len(F[k + 1]) = k + 1 - cut /\ k - cut \in Nat
      BY <1>1, <2>1, <2>4, <3>2, <3>3
    <3>5. ASSUME NEW n \in 1 .. k + 1 - cut PROVE F[k + 1][n] = s[n + cut]
      <4>1. n \in 1 .. k - cut \/ (n = k - cut + 1 /\ n + cut = k + 1)
        BY <1>1, <2>1, <3>4
      <4>. QED BY <3>2, <3>3, <4>1
    <3>6. ~(k + 1 <= cut)
      BY <1>1, <2>1, <2>4
    <3>. QED BY <2>1, <3>4, <3>5, <3>6
  <2>. QED BY <1>1, <2>1, <2>3, <2>4
<1>9. m \in A
  <2> HIDE DEF A
  <2>1. \A k \in 0 .. m : k \in A
    BY <1>1, <1>7, <1>8, IntervalInduction
  <2>. QED BY <1>1, <2>1
<1>10. Ends(m)
  BY <1>9
<1>11. CASE m <= cut
  <2>1. F[m] = <<>> /\ Len(<<>>) = 0
    BY <1>10, <1>11
  <2>2. m - cut = 0
    BY <1>1, <1>11
  <2>. QED BY <1>4, <1>6, <2>1, <2>2 DEF m
<1>12. CASE ~(m <= cut)
  BY <1>4, <1>6, <1>10, <1>12 DEF m
<1>. QED BY <1>11, <1>12

-------------------------------------------------------------------------------
(* Observations *)

OutputTexts == DOMAIN TextSize
SeenType == [call : SeenCalls, time : Nat, from : Nat, logged : BOOLEAN]
EvaluatingType == [at : {"idle"}] \cup [at : {"evaluating"}, call : SeenCalls, time : Nat, from : Nat]
JobType == [does : {"output", "access", "rule"}, of : Nat, text : {""} \cup OutputTexts]
FlowType == [session : SeenSessions, kind : {"exfil", "read", "other"}, time : Nat]
SampleType == [record : Nat, text : OutputTexts]
Figures == Effects4 \ {"SHADOW"}

TelTypes ==
    /\ telNow \in Nat
    /\ evaluating \in [Evaluations -> EvaluatingType]
    /\ seen \in Seq(SeenType)
    /\ jobs \in SUBSET JobType
    /\ flows \in [PrincipalKeys -> Seq(FlowType)]
    /\ tracked \in Seq(Nat)
    /\ ruleStats \in [RuleIDs -> [Figures -> Int]]
    /\ samples \in [SeenSessions \cup {"global"} -> Seq(SampleType)]

(* A job is about a decision that was logged, or about an output of none.  *)
JobInv(j) ==
    /\ j.of = 0 => j.does = "output"
    /\ j.of # 0 => j.of \in 1 .. Len(seen) /\ seen[j.of].logged /\ j.text = seen[j.of].call.leaves
    /\ j.does = "access" => seen[j.of].call.effect = "PERMIT"
    /\ j.does = "rule" => seen[j.of].call.rule # ""
    /\ j.does = "output" => j.text \in OutputTexts
JobsInv == \A j \in jobs : JobInv(j)

(* A record is of a decision that was logged and left the text.            *)
IsLeft(record, text) ==
    record # 0 => record \in 1 .. Len(seen) /\ seen[record].logged /\ seen[record].call.leaves = text
SamplesInv == \A s \in DOMAIN samples : \A o \in ToSet(samples[s]) : IsLeft(o.record, o.text)

IsSource(from, c) ==
    from # 0 => from \in 1 .. Len(seen) /\ seen[from].logged /\ seen[from].call.leaves \in TextsIn[c.takes]
SourcesInv ==
    \A e \in Evaluations : evaluating[e].at = "evaluating" => IsSource(evaluating[e].from, evaluating[e].call)

(* The flows are those of tracked calls, and what was flagged is tracked.  *)
IsFlow(f, n, p) ==
    /\ seen[n].call.principal = p /\ seen[n].call.session = f.session /\ Kind(seen[n].call) = f.kind
    /\ seen[n].time = f.time
FlowsInv ==
    \A p \in PrincipalKeys : \A f \in ToSet(flows[p]) : \E m \in ToSet(tracked) : IsFlow(f, m, p)
TrackedInv ==
    /\ \A i \in 1 .. Len(tracked) : tracked[i] \in 1 .. Len(seen)
    /\ \A i, n \in 1 .. Len(tracked) : tracked[i] = tracked[n] => i = n
    /\ \A j \in jobs : j.does = "access" => j.of \notin ToSet(tracked)
    /\ flagged \subseteq ToSet(tracked)

ParticularsInv == JobsInv /\ SamplesInv /\ SourcesInv /\ FlowsInv /\ TrackedInv

LEMMA Sampled == \A c \in SeenCalls : c.session \in SeenSessions /\ c.principal \in PrincipalKeys
                                     /\ (c.rule # "" => c.rule \in RuleIDs)
                                     /\ Kind(c) \in {"exfil", "read", "other"}
  BY DEF SeenSessions, PrincipalKeys, RuleIDs, Kind

(* What an argument is traced to left a text it contains.                  *)
LEMMA InferredIsSource ==
  ASSUME TelTypes, SamplesInv, NEW c \in SeenCalls
  PROVE  Inferred(c) \in Nat /\ IsSource(Inferred(c), c)
<1> DEFINE kept == samples["global"] \o samples[c.session]
           Size(n) == TextSize[kept[n].text]
           candidates == {n \in DOMAIN kept : kept[n].record # 0 /\ Size(n) > 0 /\ kept[n].text \in TextsIn[c.takes]}
           longest == {n \in candidates : \A m \in candidates : Size(m) <= Size(n)}
<1>1. samples["global"] \in Seq(SampleType) /\ samples[c.session] \in Seq(SampleType)
  BY Sampled DEF TelTypes
<1>2. /\ kept \in Seq(SampleType) /\ ToSet(kept) = ToSet(samples["global"]) \cup ToSet(samples[c.session])
      /\ DOMAIN kept = 1 .. Len(kept) /\ Len(kept) \in Nat
  <2>1. kept \in Seq(SampleType)
    BY <1>1, ConcatProperties
  <2>2. ToSet(kept) = ToSet(samples["global"]) \cup ToSet(samples[c.session])
    BY <1>1, ToSetOfJoin
  <2> HIDE DEF kept
  <2>. QED BY <2>1, <2>2, LenProperties
<1>3. ASSUME NEW n \in DOMAIN kept PROVE kept[n] \in SampleType /\ IsLeft(kept[n].record, kept[n].text)
  <2>1. kept[n] \in SampleType
    BY <1>2, ElementOfSeq
  <2>2. kept[n] \in ToSet(kept)
    BY DEF ToSet
  <2> HIDE DEF kept
  <2>3. kept[n] \in ToSet(samples["global"]) \/ kept[n] \in ToSet(samples[c.session])
    BY <1>2, <2>2
  <2>4. "global" \in DOMAIN samples /\ c.session \in DOMAIN samples
    BY Sampled DEF TelTypes
  <2>. QED BY <2>1, <2>3, <2>4 DEF SamplesInv
<1>4. Inferred(c) = IF candidates = {} THEN 0 ELSE kept[Min(longest)].record
  BY DEF Inferred
<1> HIDE DEF kept
<1>5. CASE candidates = {}
  <2>1. Inferred(c) = 0
    BY <1>4, <1>5
  <2>. QED BY <2>1 DEF IsSource
<1>6. CASE candidates # {}
  <2> DEFINE size == [n \in candidates |-> Size(n)]
  <2>1. \A n \in candidates : n \in 1 .. Len(kept) /\ Size(n) \in Nat
    BY <1>2, <1>3, TelemetryAssumption DEF SampleType, OutputTexts
  <2>2. IsFiniteSet(candidates)
    <3>1. candidates \subseteq 1 .. Len(kept) /\ IsFiniteSet(1 .. Len(kept))
      BY <1>2, <2>1, FS_Interval
    <3>. QED BY <3>1, FS_Subset
  <2>3. PICK m \in candidates : \A n \in candidates : Size(n) <= Size(m)
    <3>1. size \in [candidates -> Nat]
      BY <2>1
    <3> HIDE DEF candidates, size, Size
    <3>2. \E m \in candidates : \A n \in candidates : size[n] <= size[m]
      BY <1>6, <2>2, <3>1, LargestOf
    <3>. QED BY <3>2 DEF size
  <2>4. longest \in SUBSET Nat /\ longest # {}
    BY <1>2, <2>1, <2>3
  <2>5. Min(longest) \in longest
    <3> HIDE DEF longest
    <3>1. \E n \in longest : \A k \in longest : n <= k
      BY <2>4, LeastNumber
    <3>. QED BY <3>1 DEF Min
  <2> DEFINE n == Min(longest)
  <2>6. n \in candidates /\ Inferred(c) = kept[n].record
    BY <1>4, <1>6, <2>5
  <2> HIDE DEF n
  <2>7. n \in DOMAIN kept /\ kept[n].text \in TextsIn[c.takes]
    BY <2>6
  <2> HIDE DEF candidates, longest, Size, size
  <2>. QED BY <1>3, <2>6, <2>7 DEF IsLeft, IsSource, SampleType
<1>. QED BY <1>5, <1>6

(* What is known of decided calls stays known when others follow.          *)
SeenGrows ==
    /\ Len(seen) \in Nat /\ Len(seen') \in Nat /\ Len(seen) <= Len(seen')
    /\ \A n \in 1 .. Len(seen) : seen'[n] = seen[n]

LEMMA SeenStays == ASSUME TelTypes, seen' = seen PROVE SeenGrows
  BY LenProperties DEF TelTypes, SeenGrows

LEMMA KnownStays ==
  ASSUME SeenGrows
  PROVE  /\ \A record, text : IsLeft(record, text) => IsLeft(record, text)'
         /\ \A from, c : IsSource(from, c) => IsSource(from, c)'
         /\ \A j : JobInv(j) => JobInv(j)'
         /\ \A f, p : \A n \in 1 .. Len(seen) : IsFlow(f, n, p) <=> IsFlow(f, n, p)'
<1>1. \A n \in 1 .. Len(seen) : n \in 1 .. Len(seen') /\ seen'[n] = seen[n]
  BY DEF SeenGrows
<1>2. ASSUME NEW record, NEW text, IsLeft(record, text) PROVE IsLeft(record, text)'
  BY <1>1, <1>2 DEF IsLeft
<1>3. ASSUME NEW from, NEW c, IsSource(from, c) PROVE IsSource(from, c)'
  BY <1>1, <1>3 DEF IsSource
<1>4. ASSUME NEW j, JobInv(j) PROVE JobInv(j)'
  <2>1. CASE j.of = 0
    <3>1. j.does = "output" /\ j.does # "access" /\ j.does # "rule"
      BY <1>4, <2>1 DEF JobInv
    <3>. QED BY <1>4, <2>1, <3>1 DEF JobInv
  <2>2. CASE j.of # 0
    BY <1>1, <1>4, <2>2 DEF JobInv
  <2>. QED BY <2>1, <2>2
<1>5. ASSUME NEW f, NEW p, NEW n \in 1 .. Len(seen) PROVE IsFlow(f, n, p) <=> IsFlow(f, n, p)'
  BY <1>1, <1>5 DEF IsFlow
<1>. QED BY <1>2, <1>3, <1>4, <1>5

LEMMA FlowsStay ==
  ASSUME TelTypes, SeenGrows, FlowsInv, TrackedInv, UNCHANGED <<flows, tracked>>
  PROVE  FlowsInv'
<1> SUFFICES ASSUME NEW p \in PrincipalKeys, NEW f \in ToSet(flows[p])
             PROVE  \E m \in ToSet(tracked) : IsFlow(f, m, p)'
  BY DEF FlowsInv
<1>1. PICK m \in ToSet(tracked) : IsFlow(f, m, p)
  BY DEF FlowsInv
<1>2. m \in 1 .. Len(seen)
  <2>1. DOMAIN tracked = 1 .. Len(tracked)
    BY LenProperties DEF TelTypes
  <2>. QED BY <2>1 DEF TrackedInv, ToSet
<1>. QED BY <1>1, <1>2, KnownStays

LEMMA SamplesStay == ASSUME SeenGrows, SamplesInv, samples' = samples PROVE SamplesInv'
  BY KnownStays DEF SamplesInv

LEMMA SourcesStay == ASSUME SeenGrows, SourcesInv, evaluating' = evaluating PROVE SourcesInv'
  BY KnownStays DEF SourcesInv

(* No call is tracked twice, whatever new jobs there are.                  *)
LEMMA TrackedStays ==
  ASSUME TelTypes, SeenGrows, TrackedInv, UNCHANGED <<tracked, flagged>>,
         \A j \in jobs' : j \in jobs \/ j.does # "access" \/ j.of \notin 1 .. Len(seen)
  PROVE  TrackedInv'
<1>1. DOMAIN tracked = 1 .. Len(tracked)
  BY LenProperties DEF TelTypes
<1>2. \A i \in 1 .. Len(tracked) : tracked[i] \in 1 .. Len(seen')
  BY DEF SeenGrows, TrackedInv
<1>3. ASSUME NEW j \in jobs', j.does = "access" PROVE j.of \notin ToSet(tracked)
  BY <1>1, <1>3 DEF TrackedInv, ToSet
<1>. QED BY <1>2, <1>3 DEF TrackedInv

LEMMA BeginSeenKeeps ==
  ASSUME TelTypes, ParticularsInv, NEW e \in Evaluations, NEW c \in SeenCalls, BeginSeen(e, c)
  PROVE  TelTypes' /\ ParticularsInv'
<1>1. UNCHANGED <<telNow, seen, jobs, flows, flagged, tracked, ruleStats, samples>>
  BY DEF BeginSeen
<1>2. SeenGrows
  BY <1>1, SeenStays
<1> DEFINE v == [at |-> "evaluating", call |-> c, time |-> telNow, from |-> Inferred(c)]
<1>3. evaluating' = [evaluating EXCEPT ![e] = v]
  BY DEF BeginSeen
<1>4. Inferred(c) \in Nat /\ IsSource(Inferred(c), c)
  BY InferredIsSource DEF ParticularsInv
<1>5. v \in EvaluatingType /\ v.from = Inferred(c) /\ v.call = c
  BY <1>4 DEF EvaluatingType, TelTypes
<1> HIDE DEF v
<1>6. TelTypes'
  BY <1>1, <1>3, <1>5 DEF TelTypes
<1>7. ASSUME NEW d \in Evaluations, evaluating'[d].at = "evaluating"
      PROVE  \A f, k : f = evaluating'[d].from /\ k = evaluating'[d].call => IsSource(f, k)'
  <2>1. CASE d = e
    <3>1. evaluating'[d] = v
      BY <1>3, <2>1 DEF TelTypes
    <3>. QED BY <1>2, <1>4, <1>5, <3>1, KnownStays
  <2>2. CASE d # e
    <3>1. evaluating'[d] = evaluating[d]
      BY <1>3, <2>2 DEF TelTypes
    <3>2. IsSource(evaluating[d].from, evaluating[d].call)
      BY <1>7, <3>1 DEF ParticularsInv, SourcesInv
    <3>. QED BY <1>2, <3>1, <3>2, KnownStays
  <2>. QED BY <2>1, <2>2
<1>8. SourcesInv'
  BY <1>7 DEF SourcesInv, IsSource
<1>9. JobsInv'
  BY <1>1, <1>2, KnownStays DEF ParticularsInv, JobsInv
<1>10. SamplesInv' /\ FlowsInv' /\ TrackedInv'
  BY <1>1, <1>2, SamplesStay, FlowsStay, TrackedStays DEF ParticularsInv
<1>. QED BY <1>6, <1>8, <1>9, <1>10 DEF ParticularsInv

LEMMA DecideSeenKeeps ==
  ASSUME TelTypes, ParticularsInv, NEW e \in Evaluations, NEW logged \in BOOLEAN, DecideSeen(e, logged)
  PROVE  TelTypes' /\ ParticularsInv'
<1> DEFINE c == evaluating[e].call
           n == Len(seen) + 1
           v == [call |-> c, time |-> evaluating[e].time, from |-> evaluating[e].from, logged |-> logged]
           Job(kind, wanted) == IF wanted THEN {[does |-> kind, of |-> n, text |-> c.leaves]} ELSE {}
<1>1. /\ evaluating[e].at = "evaluating" /\ seen' = Append(seen, v)
      /\ evaluating' = [evaluating EXCEPT ![e] = [at |-> "idle"]]
      /\ UNCHANGED <<telNow, flows, flagged, tracked, ruleStats, samples>>
  BY DEF DecideSeen
<1>2. ASSUME NEW j \in jobs', j \notin jobs
      PROVE  /\ logged = TRUE
             /\ \E kind \in {"output", "access", "rule"} :
                   /\ j = [does |-> kind, of |-> n, text |-> c.leaves]
                   /\ kind = "output" => c.leaves # ""
                   /\ kind = "access" => c.effect = "PERMIT"
                   /\ kind = "rule" => c.rule # ""
  <2>1. jobs' = IF ~logged THEN jobs
                ELSE jobs \cup Job("output", c.leaves # "") \cup Job("access", c.effect = "PERMIT")
                          \cup Job("rule", c.rule # "")
    BY DEF DecideSeen
  <2>2. \A kind : \A wanted \in BOOLEAN :
           j \in Job(kind, wanted) => wanted = TRUE /\ j = [does |-> kind, of |-> n, text |-> c.leaves]
    OBVIOUS
  <2> HIDE DEF Job, c, n
  <2>3. logged = TRUE
    BY <1>2, <2>1
  <2>4. CASE j \in Job("output", c.leaves # "")
    BY <2>2, <2>3, <2>4
  <2>5. CASE j \in Job("access", c.effect = "PERMIT")
    BY <2>2, <2>3, <2>5
  <2>6. CASE j \in Job("rule", c.rule # "")
    BY <2>2, <2>3, <2>6
  <2>. QED BY <1>2, <2>1, <2>3, <2>4, <2>5, <2>6
<1> HIDE DEF Job
<1>3. evaluating[e] \in [at : {"evaluating"}, call : SeenCalls, time : Nat, from : Nat]
  BY <1>1 DEF TelTypes, EvaluatingType
<1>4. c \in SeenCalls /\ v \in SeenType /\ v.call = c /\ v.logged = logged
  BY <1>3 DEF SeenType
<1>5. /\ seen' \in Seq(SeenType) /\ Len(seen) \in Nat /\ Len(seen') = n /\ seen'[n] = v
      /\ \A k \in 1 .. Len(seen) : seen'[k] = seen[k]
  BY <1>1, <1>4, AppendedTo DEF TelTypes
<1>6. SeenGrows
  BY <1>5 DEF SeenGrows
<1>7. c.leaves \in {""} \cup OutputTexts
  BY <1>4, TelemetryAssumption DEF OutputTexts
<1>8. ASSUME NEW j \in jobs', j \notin jobs PROVE j \in JobType /\ j.of = n /\ JobInv(j)'
  <2>1. PICK kind \in {"output", "access", "rule"} :
          /\ j = [does |-> kind, of |-> n, text |-> c.leaves]
          /\ kind = "output" => c.leaves # ""
          /\ kind = "access" => c.effect = "PERMIT"
          /\ kind = "rule" => c.rule # ""
    BY <1>2, <1>8
  <2>2. logged = TRUE
    BY <1>2, <1>8
  <2>3. n # 0 /\ n \in Nat /\ n \in 1 .. Len(seen')
    BY <1>5
  <2> HIDE DEF n, c
  <2>4. j \in JobType
    BY <1>7, <2>1, <2>3 DEF JobType
  <2>5. j.does = kind /\ j.of = n /\ j.text = c.leaves
    BY <2>1
  <2> HIDE DEF v
  <2>6. seen'[n].logged /\ seen'[n].call = c
    BY <1>4, <1>5, <2>2
  <2>7. JobInv(j)'
    BY <1>7, <2>1, <2>3, <2>5, <2>6 DEF JobInv
  <2>. QED BY <2>4, <2>5, <2>7
<1> HIDE DEF c, n, v
<1>9. TelTypes'
  <2>1. [at |-> "idle"] \in EvaluatingType
    BY DEF EvaluatingType
  <2>2. evaluating' \in [Evaluations -> EvaluatingType]
    BY <1>1, <2>1 DEF TelTypes
  <2>3. jobs' \in SUBSET JobType
    BY <1>8 DEF TelTypes
  <2>. QED BY <1>1, <1>5, <2>2, <2>3 DEF TelTypes
<1>10. JobsInv'
  BY <1>6, <1>8, KnownStays DEF ParticularsInv, JobsInv
<1>11. SourcesInv'
  <2>1. ASSUME NEW d \in Evaluations, evaluating'[d].at = "evaluating"
        PROVE  \A f, k : f = evaluating'[d].from /\ k = evaluating'[d].call => IsSource(f, k)'
    <3>1. d # e
      <4>1. [at |-> "idle"].at # "evaluating"
        OBVIOUS
      <4>. QED BY <1>1, <2>1, <4>1 DEF TelTypes
    <3>2. evaluating'[d] = evaluating[d]
      BY <1>1, <3>1 DEF TelTypes
    <3>3. IsSource(evaluating[d].from, evaluating[d].call)
      BY <2>1, <3>2 DEF ParticularsInv, SourcesInv
    <3>. QED BY <1>6, <3>2, <3>3, KnownStays
  <2>. QED BY <2>1 DEF SourcesInv, IsSource
<1>12. TrackedInv'
  <2>1. n \notin 1 .. Len(seen)
    BY <1>5 DEF n
  <2>2. \A j \in jobs' : j \in jobs \/ j.does # "access" \/ j.of \notin 1 .. Len(seen)
    BY <1>8, <2>1
  <2>. QED BY <1>1, <1>6, <2>2, TrackedStays DEF ParticularsInv
<1>13. SamplesInv' /\ FlowsInv'
  BY <1>1, <1>6, SamplesStay, FlowsStay DEF ParticularsInv
<1>. QED BY <1>9, <1>10, <1>11, <1>12, <1>13 DEF ParticularsInv

LEMMA ScanSeenKeeps ==
  ASSUME TelTypes, ParticularsInv, NEW text \in OutputTexts, ScanSeen(text)
  PROVE  TelTypes' /\ ParticularsInv'
<1> DEFINE j0 == [does |-> "output", of |-> 0, text |-> text]
<1>1. /\ jobs' = jobs \cup {j0}
      /\ UNCHANGED <<telNow, evaluating, seen, flows, flagged, tracked, ruleStats, samples>>
  BY DEF ScanSeen
<1>2. j0 \in JobType /\ j0.does = "output" /\ j0.of = 0 /\ j0.text = text
  BY DEF JobType
<1> HIDE DEF j0
<1>3. TelTypes'
  BY <1>1, <1>2 DEF TelTypes
<1>4. SeenGrows
  BY <1>1, SeenStays
<1>5. JobsInv'
  <2>1. JobInv(j0)'
    BY <1>2 DEF JobInv
  <2>. QED BY <1>1, <1>4, <2>1, KnownStays DEF ParticularsInv, JobsInv
<1>6. TrackedInv'
  <2>1. \A j \in jobs' : j \in jobs \/ j.does # "access" \/ j.of \notin 1 .. Len(seen)
    BY <1>1, <1>2
  <2>. QED BY <1>1, <1>4, <2>1, TrackedStays DEF ParticularsInv
<1>7. SamplesInv' /\ FlowsInv' /\ SourcesInv'
  BY <1>1, <1>4, SamplesStay, FlowsStay, SourcesStay DEF ParticularsInv
<1>. QED BY <1>3, <1>5, <1>6, <1>7 DEF ParticularsInv

(* The goroutine of a job that is about a decision.                        *)
LEMMA JobOfDecision ==
  ASSUME TelTypes, JobsInv, NEW j \in jobs, j.of # 0
  PROVE  /\ j.of \in 1 .. Len(seen) /\ seen[j.of] \in SeenType /\ seen[j.of].call \in SeenCalls
         /\ seen[j.of].call.session \in SeenSessions /\ seen[j.of].call.principal \in PrincipalKeys
         /\ seen[j.of].time \in Nat
<1>1. j.of \in 1 .. Len(seen)
  BY DEF JobsInv, JobInv
<1>2. seen[j.of] \in SeenType
  BY <1>1, ElementOfSeq DEF TelTypes
<1>3. seen[j.of].call \in SeenCalls /\ seen[j.of].time \in Nat
  BY <1>2 DEF SeenType
<1>. QED BY <1>1, <1>2, <1>3, Sampled

(* A job is known by what it does and of which decision.                   *)
LEMMA OneJobOfEach ==
  ASSUME TelTypes, JobsInv, NEW j \in jobs, NEW k \in jobs, j.of # 0, j.of = k.of, j.does = k.does
  PROVE  j = k
<1>1. j.text = k.text
  BY DEF JobsInv, JobInv
<1>2. /\ j = [does |-> j.does, of |-> j.of, text |-> j.text]
      /\ k = [does |-> k.does, of |-> k.of, text |-> k.text]
  BY DEF TelTypes, JobType
<1>. QED BY <1>1, <1>2

LEMMA NoteOutputKeeps ==
  ASSUME TelTypes, ParticularsInv, NEW j \in jobs, RunJob(j), NoteOutput(j)
  PROVE  TelTypes' /\ ParticularsInv'
<1> DEFINE o == [record |-> j.of, text |-> j.text]
           Noted(room, s) == LastOf(Append(s, o), room)
<1>1. /\ jobs' = jobs \ {j} /\ j.does = "output"
      /\ UNCHANGED <<telNow, evaluating, seen, flows, flagged, tracked, ruleStats>>
  BY DEF RunJob, NoteOutput
<1>2. samples' = [s \in DOMAIN samples |->
              CASE s = "global" -> Noted(GlobalRoom, samples[s])
                [] j.of # 0 /\ s # "global" /\ s = seen[j.of].call.session -> Noted(ScopeRoom, samples[s])
                [] OTHER -> samples[s]]
  BY DEF NoteOutput
<1>3. o \in SampleType /\ o.record = j.of /\ o.text = j.text
  BY <1>1 DEF TelTypes, JobType, SampleType, ParticularsInv, JobsInv, JobInv
<1>4. IsLeft(o.record, o.text)
  <2>1. JobInv(j)
    BY DEF ParticularsInv, JobsInv
  <2>. QED BY <1>3, <2>1 DEF JobInv, IsLeft
<1> HIDE DEF o
<1>5. ASSUME NEW s \in Seq(SampleType), NEW room \in Nat \ {0}
      PROVE  Noted(room, s) \in Seq(SampleType) /\ ToSet(Noted(room, s)) \subseteq ToSet(s) \cup {o}
  <2>1. Append(s, o) \in Seq(SampleType) /\ ToSet(Append(s, o)) = ToSet(s) \cup {o}
    <3>1. /\ Append(s, o) \in Seq(SampleType) /\ Len(s) \in Nat
          /\ DOMAIN s = 1 .. Len(s) /\ DOMAIN Append(s, o) = (1 .. Len(s)) \cup {Len(s) + 1}
          /\ \A i \in 1 .. Len(s) : Append(s, o)[i] = s[i]
          /\ Append(s, o)[Len(s) + 1] = o
      BY <1>3, AppendedTo
    <3>. QED BY <3>1 DEF ToSet
  <2>2. /\ LastOf(Append(s, o), room) \in Seq(SampleType)
        /\ ToSet(LastOf(Append(s, o), room)) \subseteq ToSet(Append(s, o))
    BY <2>1, LastOnes
  <2>. QED BY <2>1, <2>2
<1> HIDE DEF Noted
<1>6. GlobalRoom \in Nat \ {0} /\ ScopeRoom \in Nat \ {0}
  BY TelemetryAssumption
<1>7. ASSUME NEW s \in DOMAIN samples
      PROVE  samples'[s] \in Seq(SampleType) /\ ToSet(samples'[s]) \subseteq ToSet(samples[s]) \cup {o}
  <2>1. samples[s] \in Seq(SampleType)
    BY <1>7 DEF TelTypes
  <2>2. \/ samples'[s] = Noted(GlobalRoom, samples[s]) \/ samples'[s] = Noted(ScopeRoom, samples[s])
        \/ samples'[s] = samples[s]
    BY <1>2, <1>7
  <2>. QED BY <1>5, <1>6, <2>1, <2>2
<1>8. DOMAIN samples' = DOMAIN samples /\ DOMAIN samples = SeenSessions \cup {"global"}
  BY <1>2 DEF TelTypes
<1>9. TelTypes'
  <2>1. samples' = [s \in SeenSessions \cup {"global"} |-> samples'[s]]
    BY <1>2, <1>8
  <2>2. samples' \in [SeenSessions \cup {"global"} -> Seq(SampleType)]
    BY <1>7, <1>8, <2>1
  <2>. QED BY <1>1, <2>2 DEF TelTypes
<1>10. SeenGrows
  BY <1>1, SeenStays
<1>11. SamplesInv'
  <2>1. ASSUME NEW s \in DOMAIN samples', NEW q \in ToSet(samples'[s])
        PROVE  \A r, t : r = q.record /\ t = q.text => IsLeft(r, t)'
    <3>1. q = o \/ q \in ToSet(samples[s])
      BY <1>7, <1>8
    <3>2. IsLeft(q.record, q.text)
      BY <1>4, <1>8, <3>1 DEF ParticularsInv, SamplesInv
    <3>. QED BY <1>10, <3>2, KnownStays
  <2>. QED BY <2>1 DEF SamplesInv, IsLeft
<1>12. JobsInv'
  BY <1>1, <1>10, KnownStays DEF ParticularsInv, JobsInv
<1>13. TrackedInv'
  <2>1. \A k \in jobs' : k \in jobs \/ k.does # "access" \/ k.of \notin 1 .. Len(seen)
    BY <1>1
  <2>. QED BY <1>1, <1>10, <2>1, TrackedStays DEF ParticularsInv
<1>14. FlowsInv' /\ SourcesInv'
  BY <1>1, <1>10, FlowsStay, SourcesStay DEF ParticularsInv
<1>. QED BY <1>9, <1>11, <1>12, <1>13, <1>14 DEF ParticularsInv

LEMMA NoteRuleKeeps ==
  ASSUME TelTypes, ParticularsInv, NEW j \in jobs, RunJob(j), NoteRule(j)
  PROVE  TelTypes' /\ ParticularsInv'
<1>1. /\ jobs' = jobs \ {j} /\ j.does = "rule"
      /\ UNCHANGED <<telNow, evaluating, seen, flows, flagged, tracked, samples>>
  BY DEF RunJob, NoteRule
<1>2. SeenGrows
  BY <1>1, SeenStays
<1>3. TelTypes'
  <2> DEFINE c == seen[j.of].call
  <2>1. ruleStats' = IF c.effect = "SHADOW" THEN ruleStats ELSE [ruleStats EXCEPT ![c.rule][c.effect] = @ + 1]
    BY DEF NoteRule
  <2>2. j.of # 0 /\ c.rule # ""
    BY <1>1 DEF ParticularsInv, JobsInv, JobInv
  <2>3. c \in SeenCalls
    BY <2>2, JobOfDecision DEF ParticularsInv
  <2>4. c.rule \in RuleIDs /\ c.effect \in Effects4
    BY <2>2, <2>3, Sampled, TelemetryAssumption
  <2> HIDE DEF c
  <2>5. ruleStats' \in [RuleIDs -> [Figures -> Int]]
    <3>1. CASE c.effect = "SHADOW"
      BY <2>1, <3>1 DEF TelTypes
    <3>2. CASE c.effect # "SHADOW"
      <4>1. c.effect \in Figures /\ ruleStats[c.rule] \in [Figures -> Int]
        BY <2>4, <3>2 DEF Figures, TelTypes
      <4>2. [ruleStats[c.rule] EXCEPT ![c.effect] = @ + 1] \in [Figures -> Int]
        BY <4>1
      <4>. QED BY <2>1, <2>4, <3>2, <4>2 DEF TelTypes
    <3>. QED BY <3>1, <3>2
  <2>. QED BY <1>1, <2>5 DEF TelTypes
<1>4. JobsInv'
  BY <1>1, <1>2, KnownStays DEF ParticularsInv, JobsInv
<1>5. TrackedInv'
  <2>1. \A k \in jobs' : k \in jobs \/ k.does # "access" \/ k.of \notin 1 .. Len(seen)
    BY <1>1
  <2>. QED BY <1>1, <1>2, <2>1, TrackedStays DEF ParticularsInv
<1>6. FlowsInv' /\ SourcesInv' /\ SamplesInv'
  BY <1>1, <1>2, FlowsStay, SourcesStay, SamplesStay DEF ParticularsInv
<1>. QED BY <1>3, <1>4, <1>5, <1>6 DEF ParticularsInv

(* What RecordAccess makes of a principal's flows.                         *)
Access(n) == [session |-> seen[n].call.session, kind |-> Kind(seen[n].call), time |-> seen[n].time]
FlowsWith(n) == LastOf(Append(Pruned(seen[n].call.principal, seen[n].time), Access(n)), FlowRoom)

LEMMA RecordedFlows ==
  ASSUME TelTypes, NEW n \in 1 .. Len(seen), NEW p, p = seen[n].call.principal
  PROVE  /\ p \in PrincipalKeys /\ Access(n) \in FlowType /\ FlowsWith(n) \in Seq(FlowType)
         /\ Pruned(p, seen[n].time) \in Seq(FlowType)
         /\ ToSet(Pruned(p, seen[n].time)) \subseteq ToSet(flows[p])
         /\ ToSet(FlowsWith(n)) \subseteq ToSet(flows[p]) \cup {Access(n)}
<1> DEFINE hist == Pruned(p, seen[n].time)
<1>1. seen[n] \in SeenType /\ seen[n].call \in SeenCalls /\ seen[n].time \in Nat
  <2>1. seen[n] \in SeenType
    BY ElementOfSeq DEF TelTypes
  <2>. QED BY <2>1 DEF SeenType
<1>2. p \in PrincipalKeys /\ Access(n) \in FlowType
  BY <1>1, Sampled DEF Access, FlowType
<1>3. flows[p] \in Seq(FlowType)
  BY <1>2 DEF TelTypes
<1> DEFINE kept == {k \in DOMAIN flows[p] : flows[p][k].time >= seen[n].time - FlowWindow}
<1>4. hist = Those(flows[p], kept)
  BY DEF Pruned
<1> HIDE DEF kept, hist
<1>5. hist \in Seq(FlowType) /\ \A x : x \in ToSet(hist) <=> \E k \in DOMAIN flows[p] : k \in kept /\ x = flows[p][k]
  BY <1>3, <1>4, ThoseElements
<1>6. ToSet(hist) \subseteq ToSet(flows[p])
  BY <1>5 DEF ToSet
<1>7. Append(hist, Access(n)) \in Seq(FlowType) /\ ToSet(Append(hist, Access(n))) = ToSet(hist) \cup {Access(n)}
  <2>1. /\ Append(hist, Access(n)) \in Seq(FlowType) /\ Len(hist) \in Nat
        /\ DOMAIN hist = 1 .. Len(hist) /\ DOMAIN Append(hist, Access(n)) = (1 .. Len(hist)) \cup {Len(hist) + 1}
        /\ \A i \in 1 .. Len(hist) : Append(hist, Access(n))[i] = hist[i]
        /\ Append(hist, Access(n))[Len(hist) + 1] = Access(n)
    BY <1>2, <1>5, AppendedTo
  <2>. QED BY <2>1 DEF ToSet
<1>8. FlowsWith(n) = LastOf(Append(hist, Access(n)), FlowRoom)
  BY DEF FlowsWith, hist
<1>9. FlowRoom \in Nat \ {0}
  BY TelemetryAssumption
<1>10. FlowsWith(n) \in Seq(FlowType) /\ ToSet(FlowsWith(n)) \subseteq ToSet(Append(hist, Access(n)))
  <2>1. PICK w \in Seq(FlowType) : w = Append(hist, Access(n))
    BY <1>7
  <2>2. LastOf(w, FlowRoom) \in Seq(FlowType) /\ ToSet(LastOf(w, FlowRoom)) \subseteq ToSet(w)
    BY <1>9, LastOnes
  <2>. QED BY <1>8, <2>1, <2>2
<1>11. ToSet(FlowsWith(n)) \subseteq ToSet(flows[p]) \cup {Access(n)} /\ hist \in Seq(FlowType)
  BY <1>5, <1>6, <1>7, <1>10
<1>. QED BY <1>2, <1>6, <1>10, <1>11 DEF hist

LEMMA NoteAccessStep ==
  ASSUME TelTypes, JobsInv, NEW j \in jobs, RunJob(j), NoteAccess(j)
  PROVE  LET n == j.of p == seen[n].call.principal IN
         /\ jobs' = jobs \ {j} /\ j.does = "access" /\ n \in 1 .. Len(seen) /\ n # 0
         /\ UNCHANGED <<telNow, evaluating, seen, scans, counters, ruleStats, samples>>
         /\ tracked' = Append(tracked, n) /\ flows' = [flows EXCEPT ![p] = FlowsWith(n)]
         /\ flagged' = IF Suspicious(seen[n].call, seen[n].time, Pruned(p, seen[n].time))
                       THEN flagged \cup {n} ELSE flagged
<1>1. j.does = "access" /\ j.of # 0
  BY DEF NoteAccess, JobsInv, JobInv
<1>2. j.of \in 1 .. Len(seen)
  BY <1>1 DEF JobsInv, JobInv
<1>. QED BY <1>1, <1>2 DEF NoteAccess, RunJob, FlowsWith, Access

LEMMA TrackedOneMore ==
  ASSUME TelTypes, NEW n \in Nat, tracked' = Append(tracked, n)
  PROVE  /\ tracked' \in Seq(Nat) /\ Len(tracked) \in Nat /\ Len(tracked') = Len(tracked) + 1
         /\ DOMAIN tracked = 1 .. Len(tracked) /\ DOMAIN tracked' = (1 .. Len(tracked)) \cup {Len(tracked) + 1}
         /\ 1 .. Len(tracked') = DOMAIN tracked'
         /\ \A i \in 1 .. Len(tracked) : tracked'[i] = tracked[i]
         /\ tracked'[Len(tracked) + 1] = n /\ ToSet(tracked') = ToSet(tracked) \cup {n}
<1>1. /\ tracked' \in Seq(Nat) /\ Len(tracked) \in Nat /\ Len(tracked') = Len(tracked) + 1
      /\ DOMAIN tracked = 1 .. Len(tracked) /\ DOMAIN tracked' = (1 .. Len(tracked)) \cup {Len(tracked) + 1}
      /\ \A i \in 1 .. Len(tracked) : tracked'[i] = tracked[i]
      /\ tracked'[Len(tracked) + 1] = n
  BY AppendedTo DEF TelTypes
<1>2. 1 .. Len(tracked') = DOMAIN tracked'
  BY <1>1
<1>3. ToSet(tracked') = ToSet(tracked) \cup {n}
  BY <1>1 DEF ToSet
<1>. QED BY <1>1, <1>2, <1>3

LEMMA NoteAccessKeeps ==
  ASSUME TelTypes, ParticularsInv, NEW j \in jobs, RunJob(j), NoteAccess(j)
  PROVE  TelTypes' /\ ParticularsInv'
<1> DEFINE n == j.of
           p == seen[n].call.principal
<1>1. /\ jobs' = jobs \ {j} /\ j.does = "access" /\ n \in 1 .. Len(seen) /\ n # 0
      /\ UNCHANGED <<telNow, evaluating, seen, scans, counters, ruleStats, samples>>
      /\ tracked' = Append(tracked, n) /\ flows' = [flows EXCEPT ![p] = FlowsWith(n)]
      /\ flagged' = IF Suspicious(seen[n].call, seen[n].time, Pruned(p, seen[n].time))
                    THEN flagged \cup {n} ELSE flagged
  BY NoteAccessStep DEF ParticularsInv
<1>2. /\ p \in PrincipalKeys /\ Access(n) \in FlowType /\ FlowsWith(n) \in Seq(FlowType)
      /\ ToSet(FlowsWith(n)) \subseteq ToSet(flows[p]) \cup {Access(n)}
  BY <1>1, RecordedFlows
<1>3. n \in Nat
  BY <1>1 DEF TelTypes
<1>4. /\ tracked' \in Seq(Nat) /\ Len(tracked) \in Nat /\ Len(tracked') = Len(tracked) + 1
      /\ DOMAIN tracked = 1 .. Len(tracked) /\ DOMAIN tracked' = (1 .. Len(tracked)) \cup {Len(tracked) + 1}
      /\ 1 .. Len(tracked') = DOMAIN tracked'
      /\ \A i \in 1 .. Len(tracked) : tracked'[i] = tracked[i]
      /\ tracked'[Len(tracked) + 1] = n /\ ToSet(tracked') = ToSet(tracked) \cup {n}
  BY <1>1, <1>3, TrackedOneMore
<1>5. SeenGrows
  BY <1>1, SeenStays
<1>6. TelTypes'
  BY <1>1, <1>2, <1>4 DEF TelTypes
<1>7. FlowsInv'
  <2> SUFFICES ASSUME NEW q \in PrincipalKeys, NEW f \in ToSet(flows'[q])
               PROVE  \E m \in ToSet(tracked') : IsFlow(f, m, q)
    BY <1>1 DEF FlowsInv, IsFlow
  <2>1. CASE f \in ToSet(flows[q])
    BY <1>4, <2>1 DEF ParticularsInv, FlowsInv
  <2>2. CASE f \notin ToSet(flows[q])
    <3>1. q = p /\ flows'[q] = FlowsWith(n)
      BY <1>1, <1>2, <2>2 DEF TelTypes
    <3>2. f = Access(n)
      BY <1>2, <2>2, <3>1
    <3>3. IsFlow(f, n, q)
      BY <3>1, <3>2 DEF IsFlow, Access
    <3>. QED BY <1>4, <3>3
  <2>. QED BY <2>1, <2>2
<1>8. TrackedInv'
  <2>1. n \notin ToSet(tracked)
    BY <1>1 DEF ParticularsInv, TrackedInv
  <2>2. \A i \in 1 .. Len(tracked') : tracked'[i] \in 1 .. Len(seen')
    BY <1>1, <1>4 DEF ParticularsInv, TrackedInv
  <2>3. \A i \in 1 .. Len(tracked) : tracked[i] # n
    BY <1>4, <2>1 DEF ToSet
  <2>4. ASSUME NEW i \in 1 .. Len(tracked'), NEW k \in 1 .. Len(tracked'), tracked'[i] = tracked'[k] PROVE i = k
    <3>1. i \in 1 .. Len(tracked) \/ i = Len(tracked) + 1
      BY <1>4
    <3>2. k \in 1 .. Len(tracked) \/ k = Len(tracked) + 1
      BY <1>4
    <3>. QED BY <1>4, <2>3, <2>4, <3>1, <3>2 DEF ParticularsInv, TrackedInv
  <2>5. ASSUME NEW k \in jobs', k.does = "access" PROVE k.of \notin ToSet(tracked')
    <3>1. k \in jobs /\ k # j /\ k.of \notin ToSet(tracked)
      BY <1>1, <2>5 DEF ParticularsInv, TrackedInv
    <3>2. k.of # n
      BY <1>1, <2>5, <3>1, OneJobOfEach DEF ParticularsInv
    <3>. QED BY <1>4, <3>1, <3>2
  <2>6. flagged' \subseteq ToSet(tracked')
    BY <1>1, <1>4 DEF ParticularsInv, TrackedInv
  <2>. QED BY <2>2, <2>4, <2>5, <2>6 DEF TrackedInv
<1>9. JobsInv'
  BY <1>1, <1>5, KnownStays DEF ParticularsInv, JobsInv
<1>10. SamplesInv' /\ SourcesInv'
  BY <1>1, <1>5, SamplesStay, SourcesStay DEF ParticularsInv
<1>. QED BY <1>6, <1>7, <1>8, <1>9, <1>10 DEF ParticularsInv

(* Suspicions and provenance.                                              *)
SuspicionsInv ==
    \A n \in flagged : /\ Kind(seen[n].call) = "exfil" /\ seen[n].call.effect = "PERMIT"
                       /\ \E m \in ToSet(tracked) : ReadElsewhere(m, n)
ProvenanceInv == \A n \in 1 .. Len(seen) : seen[n].from < n /\ IsSource(seen[n].from, seen[n].call)

LEMMA SuspicionStep ==
  ASSUME TelTypes, ParticularsInv, SuspicionsInv, NEW j \in jobs, RunJob(j), NoteAccess(j)
  PROVE  SuspicionsInv'
<1> DEFINE n == j.of
           p == seen[n].call.principal
           hist == Pruned(p, seen[n].time)
<1>1. /\ jobs' = jobs \ {j} /\ j.does = "access" /\ n \in 1 .. Len(seen) /\ n # 0
      /\ UNCHANGED <<telNow, evaluating, seen, scans, counters, ruleStats, samples>>
      /\ tracked' = Append(tracked, n)
      /\ flagged' = IF Suspicious(seen[n].call, seen[n].time, hist) THEN flagged \cup {n} ELSE flagged
  BY NoteAccessStep DEF ParticularsInv
<1>2. p \in PrincipalKeys /\ ToSet(hist) \subseteq ToSet(flows[p]) /\ hist \in Seq(FlowType)
  BY <1>1, RecordedFlows
<1>3. n \in Nat
  BY <1>1 DEF TelTypes
<1>4. ToSet(tracked') = ToSet(tracked) \cup {n}
  BY <1>1, <1>3, TrackedOneMore
<1>5. ASSUME Suspicious(seen[n].call, seen[n].time, hist)
      PROVE  /\ Kind(seen[n].call) = "exfil" /\ seen[n].call.effect = "PERMIT"
             /\ \E m \in ToSet(tracked) : ReadElsewhere(m, n)
  <2>1. PICK f \in ToSet(hist) : f.kind = "read" /\ f.session # seen[n].call.session /\ seen[n].time - f.time <= FlowWindow
    BY <1>5 DEF Suspicious
  <2>2. PICK m \in ToSet(tracked) : IsFlow(f, m, p)
    BY <1>2, <2>1 DEF ParticularsInv, FlowsInv
  <2>3. ReadElsewhere(m, n)
    BY <2>1, <2>2 DEF IsFlow, ReadElsewhere
  <2>4. Kind(seen[n].call) = "exfil"
    BY <1>5 DEF Suspicious
  <2>5. seen[n].call.effect = "PERMIT"
    BY <1>1 DEF ParticularsInv, JobsInv, JobInv
  <2>. QED BY <2>3, <2>4, <2>5
<1> HIDE DEF n, hist, p
<1>6. ASSUME NEW m \in flagged'
      PROVE  /\ Kind(seen[m].call) = "exfil" /\ seen[m].call.effect = "PERMIT"
             /\ \E k \in ToSet(tracked) : ReadElsewhere(k, m)
  BY <1>1, <1>5, <1>6 DEF SuspicionsInv
<1>. QED BY <1>1, <1>4, <1>6 DEF SuspicionsInv, ReadElsewhere

(* A step that tracks nothing.                                             *)
LEMMA SuspicionsStay ==
  ASSUME TelTypes, TrackedInv, SeenGrows, SuspicionsInv, UNCHANGED <<flagged, tracked>>
  PROVE  SuspicionsInv'
<1>1. \A m \in ToSet(tracked) : m \in 1 .. Len(seen)
  BY LenProperties DEF TelTypes, TrackedInv, ToSet
<1>2. \A m \in ToSet(tracked) : seen'[m] = seen[m]
  BY <1>1 DEF SeenGrows
<1>. QED BY <1>2 DEF SuspicionsInv, TrackedInv, ReadElsewhere

LEMMA ProvenanceStays ==
  ASSUME seen' = seen, ProvenanceInv
  PROVE  ProvenanceInv'
  BY DEF ProvenanceInv, IsSource

LEMMA ProvenanceStep ==
  ASSUME TelTypes, ParticularsInv, ProvenanceInv, NEW e \in Evaluations, NEW logged \in BOOLEAN,
         DecideSeen(e, logged)
  PROVE  ProvenanceInv'
<1> DEFINE v == [call |-> evaluating[e].call, time |-> evaluating[e].time, from |-> evaluating[e].from,
                 logged |-> logged]
<1>1. seen' = Append(seen, v) /\ evaluating[e].at = "evaluating"
  BY DEF DecideSeen
<1>2. evaluating[e] \in [at : {"evaluating"}, call : SeenCalls, time : Nat, from : Nat]
  BY <1>1 DEF TelTypes, EvaluatingType
<1>3. v \in SeenType /\ v.from = evaluating[e].from /\ v.call = evaluating[e].call /\ v.from \in Nat
  BY <1>2 DEF SeenType
<1>4. IsSource(v.from, v.call)
  BY <1>1, <1>3 DEF ParticularsInv, SourcesInv
<1> HIDE DEF v
<1>5. /\ Len(seen) \in Nat /\ Len(seen') = Len(seen) + 1 /\ seen'[Len(seen) + 1] = v
      /\ \A k \in 1 .. Len(seen) : seen'[k] = seen[k]
  BY <1>1, <1>3, AppendedTo DEF TelTypes
<1>6. SeenGrows
  BY <1>5 DEF SeenGrows
<1>7. v.from < Len(seen) + 1
  <2>1. v.from = 0 \/ v.from \in 1 .. Len(seen)
    BY <1>4 DEF IsSource
  <2>. QED BY <1>3, <1>5, <2>1
<1>8. ASSUME NEW k \in 1 .. Len(seen')
      PROVE  seen'[k].from < k /\ \A f, c : f = seen'[k].from /\ c = seen'[k].call => IsSource(f, c)'
  <2>1. CASE k \in 1 .. Len(seen)
    BY <1>5, <1>6, <2>1, KnownStays DEF ProvenanceInv
  <2>2. CASE k = Len(seen) + 1
    BY <1>4, <1>5, <1>6, <1>7, <2>2, KnownStays
  <2>. QED BY <1>5, <2>1, <2>2
<1>. QED BY <1>8 DEF ProvenanceInv, IsSource

(* The figures of the rules.                                               *)
OfRule(n, r, e) == seen[n].call.rule = r /\ seen[n].call.effect = e
LoggedOf(r, e) == {n \in {k \in DOMAIN seen : seen[k].logged} : OfRule(n, r, e)}
RuleJobs == {j.of : j \in {k \in jobs : k.does = "rule"}}
WaitingOf(r, e) == {n \in RuleJobs : OfRule(n, r, e)}
StatsInv ==
    \A r \in RuleIDs, e \in Figures : ruleStats[r][e] = Cardinality(LoggedOf(r, e)) - Cardinality(WaitingOf(r, e))

LEMMA StatsAreFigures == StatsInv <=> StatsAgree
  BY DEF StatsInv, StatsAgree, LoggedOf, WaitingOf, RuleJobs, OfRule, Figures

LEMMA FiguresAreFinite ==
  ASSUME TelTypes, JobsInv, NEW r, NEW e
  PROVE  /\ IsFiniteSet(LoggedOf(r, e)) /\ IsFiniteSet(WaitingOf(r, e))
         /\ LoggedOf(r, e) \subseteq 1 .. Len(seen) /\ WaitingOf(r, e) \subseteq 1 .. Len(seen)
         /\ Cardinality(LoggedOf(r, e)) \in Nat /\ Cardinality(WaitingOf(r, e)) \in Nat
<1>1. Len(seen) \in Nat /\ DOMAIN seen = 1 .. Len(seen)
  BY LenProperties DEF TelTypes
<1>2. RuleJobs \subseteq 1 .. Len(seen)
  BY DEF RuleJobs, JobsInv, JobInv
<1>3. LoggedOf(r, e) \subseteq 1 .. Len(seen) /\ WaitingOf(r, e) \subseteq 1 .. Len(seen)
  BY <1>1, <1>2 DEF LoggedOf, WaitingOf
<1>4. IsFiniteSet(1 .. Len(seen))
  BY <1>1, FS_Interval
<1>5. IsFiniteSet(LoggedOf(r, e)) /\ IsFiniteSet(WaitingOf(r, e))
  BY <1>3, <1>4, FS_Subset
<1>. QED BY <1>3, <1>5, FS_CardinalityType

LEMMA StatsStay ==
  ASSUME StatsInv, UNCHANGED <<seen, ruleStats>>, RuleJobs' = RuleJobs
  PROVE  StatsInv'
<1>1. \A n, r, e : OfRule(n, r, e)' <=> OfRule(n, r, e)
  BY DEF OfRule
<1>2. \A r, e : LoggedOf(r, e)' = LoggedOf(r, e) /\ WaitingOf(r, e)' = WaitingOf(r, e)
  BY <1>1 DEF LoggedOf, WaitingOf
<1>. QED BY <1>2 DEF StatsInv

LEMMA DecidedStats ==
  ASSUME TelTypes, ParticularsInv, StatsInv, NEW e \in Evaluations, NEW logged \in BOOLEAN,
         DecideSeen(e, logged), TelTypes', ParticularsInv', NEW n, n = Len(seen) + 1
  PROVE  StatsInv'
<1> DEFINE c == evaluating[e].call
           v == [call |-> c, time |-> evaluating[e].time, from |-> evaluating[e].from, logged |-> logged]
           Job(kind, wanted) == IF wanted THEN {[does |-> kind, of |-> n, text |-> c.leaves]} ELSE {}
<1>1. /\ seen' = Append(seen, v) /\ ruleStats' = ruleStats /\ evaluating[e].at = "evaluating"
      /\ jobs' = IF ~logged THEN jobs
                 ELSE jobs \cup Job("output", c.leaves # "") \cup Job("access", c.effect = "PERMIT")
                           \cup Job("rule", c.rule # "")
  BY DEF DecideSeen
<1>2. RuleJobs' = RuleJobs \cup (IF logged /\ c.rule # "" THEN {n} ELSE {})
  <2>1. CASE ~logged
    BY <1>1, <2>1 DEF RuleJobs
  <2>2. CASE logged = TRUE
    <3>1. \A kind : \A wanted \in BOOLEAN :
             {k \in Job(kind, wanted) : k.does = "rule"} =
                IF wanted /\ kind = "rule" THEN {[does |-> "rule", of |-> n, text |-> c.leaves]} ELSE {}
      OBVIOUS
    <3>2. {k \in jobs' : k.does = "rule"} =
             {k \in jobs : k.does = "rule"} \cup {k \in Job("output", c.leaves # "") : k.does = "rule"}
                \cup {k \in Job("access", c.effect = "PERMIT") : k.does = "rule"}
                \cup {k \in Job("rule", c.rule # "") : k.does = "rule"}
      <4> HIDE DEF Job, c
      <4>. QED BY <1>1, <2>2
    <3> HIDE DEF Job
    <3>3. /\ {k \in Job("output", c.leaves # "") : k.does = "rule"} = {}
          /\ {k \in Job("access", c.effect = "PERMIT") : k.does = "rule"} = {}
          /\ {k \in Job("rule", c.rule # "") : k.does = "rule"} =
                IF c.rule # "" THEN {[does |-> "rule", of |-> n, text |-> c.leaves]} ELSE {}
      BY <3>1
    <3> HIDE DEF c
    <3>4. {k \in jobs' : k.does = "rule"} =
             {k \in jobs : k.does = "rule"}
                \cup (IF c.rule # "" THEN {[does |-> "rule", of |-> n, text |-> c.leaves]} ELSE {})
      BY <3>2, <3>3
    <3>5. CASE c.rule # ""
      <4>1. {k \in jobs' : k.does = "rule"} =
             {k \in jobs : k.does = "rule"} \cup {[does |-> "rule", of |-> n, text |-> c.leaves]}
        BY <3>4, <3>5
      <4>2. PICK y : y = [does |-> "rule", of |-> n, text |-> c.leaves]
        OBVIOUS
      <4>3. y.of = n
        BY <4>2
      <4>4. \A X : {k.of : k \in X \cup {y}} = {k.of : k \in X} \cup {n}
        BY <4>3
      <4>5. {k.of : k \in {i \in jobs' : i.does = "rule"}} = {k.of : k \in {i \in jobs : i.does = "rule"}} \cup {n}
        BY <4>1, <4>2, <4>4
      <4>. QED BY <2>2, <3>5, <4>5 DEF RuleJobs
    <3>6. CASE ~(c.rule # "")
      BY <2>2, <3>4, <3>6 DEF RuleJobs
    <3>. QED BY <3>5, <3>6
  <2>. QED BY <2>1, <2>2
<1> HIDE DEF Job
<1>3. evaluating[e] \in [at : {"evaluating"}, call : SeenCalls, time : Nat, from : Nat]
  BY <1>1 DEF TelTypes, EvaluatingType
<1>4. v \in SeenType /\ v.call = c /\ v.logged = logged
  BY <1>3 DEF SeenType
<1> HIDE DEF v, c
<1>5. /\ Len(seen) \in Nat /\ Len(seen') = n /\ seen'[n] = v
      /\ DOMAIN seen = 1 .. Len(seen) /\ DOMAIN seen' = (1 .. Len(seen)) \cup {n}
      /\ n \notin 1 .. Len(seen)
      /\ \A k \in 1 .. Len(seen) : seen'[k] = seen[k]
  <2>1. seen \in Seq(SeenType)
    BY DEF TelTypes
  <2>2. /\ Len(seen) \in Nat /\ Len(seen') = n /\ seen'[n] = v
        /\ DOMAIN seen = 1 .. Len(seen) /\ DOMAIN seen' = (1 .. Len(seen)) \cup {n}
        /\ \A k \in 1 .. Len(seen) : seen'[k] = seen[k]
    <3>1. seen' = Append(seen, v)
      BY <1>1
    <3>. QED BY <1>4, <2>1, <3>1, AppendedTo
  <2>. QED BY <2>2
<1> DEFINE G == {k \in DOMAIN seen : seen[k].logged}
<1>13. G' = G \cup (IF logged = TRUE THEN {n} ELSE {}) /\ G \subseteq 1 .. Len(seen)
  <2>1. ASSUME NEW k \in 1 .. Len(seen) PROVE k \in G' <=> k \in G
    BY <1>5
  <2>2. n \in G' <=> logged = TRUE
    <3>1. n \in DOMAIN seen' /\ seen'[n].logged = logged
      BY <1>4, <1>5
    <3>2. n \in G' <=> seen'[n].logged
      BY <3>1
    <3>. QED BY <3>1, <3>2
  <2>3. G' \subseteq (1 .. Len(seen)) \cup {n} /\ G \subseteq 1 .. Len(seen)
    BY <1>5
  <2> HIDE DEF G
  <2>. QED BY <1>5, <2>1, <2>2, <2>3
<1>14. \A r, f : LoggedOf(r, f) = {k \in G : OfRule(k, r, f)} /\ LoggedOf(r, f)' = {k \in G' : OfRule(k, r, f)'}
  BY DEF LoggedOf
<1> HIDE DEF G
<1>6. SUFFICES ASSUME NEW r \in RuleIDs, NEW f \in Figures
               PROVE  ruleStats'[r][f] = Cardinality(LoggedOf(r, f)') - Cardinality(WaitingOf(r, f)')
  BY DEF StatsInv
<1>7. /\ IsFiniteSet(LoggedOf(r, f)) /\ IsFiniteSet(WaitingOf(r, f))
      /\ LoggedOf(r, f) \subseteq 1 .. Len(seen) /\ WaitingOf(r, f) \subseteq 1 .. Len(seen)
      /\ Cardinality(LoggedOf(r, f)) \in Nat /\ Cardinality(WaitingOf(r, f)) \in Nat
  BY FiguresAreFinite DEF ParticularsInv
<1>8. /\ \A k \in 1 .. Len(seen) : OfRule(k, r, f)' <=> OfRule(k, r, f)
      /\ OfRule(n, r, f)' <=> c.rule = r /\ c.effect = f
  <2>1. seen'[n].call = c
    BY <1>4, <1>5
  <2>2. \A k \in 1 .. Len(seen) : seen'[k].call = seen[k].call
    BY <1>5
  <2>. QED BY <2>1, <2>2 DEF OfRule
<1>9. RuleJobs \subseteq 1 .. Len(seen)
  BY DEF RuleJobs, ParticularsInv, JobsInv, JobInv
<1>10. r # ""
  BY DEF RuleIDs
<1>11. CASE logged = TRUE /\ c.rule = r /\ c.effect = f
  <2>1. LoggedOf(r, f)' = LoggedOf(r, f) \cup {n}
    BY <1>8, <1>13, <1>14, <1>11
  <2>2. WaitingOf(r, f)' = WaitingOf(r, f) \cup {n}
    <3>1. RuleJobs' = RuleJobs \cup {n}
      BY <1>2, <1>10, <1>11
    <3>. QED BY <1>8, <1>9, <1>11, <3>1 DEF WaitingOf
  <2>3. n \notin LoggedOf(r, f) /\ n \notin WaitingOf(r, f)
    BY <1>5, <1>7
  <2>4. /\ Cardinality(LoggedOf(r, f)') = Cardinality(LoggedOf(r, f)) + 1
        /\ Cardinality(WaitingOf(r, f)') = Cardinality(WaitingOf(r, f)) + 1
    BY <1>7, <2>1, <2>2, <2>3, FS_AddElement
  <2>5. ruleStats'[r][f] = Cardinality(LoggedOf(r, f)) - Cardinality(WaitingOf(r, f))
    BY <1>1 DEF StatsInv
  <2>6. \A a, b \in Nat : a - b = (a + 1) - (b + 1)
    OBVIOUS
  <2>. QED BY <1>7, <2>4, <2>5, <2>6
<1>12. CASE ~(logged = TRUE /\ c.rule = r /\ c.effect = f)
  <2>1. LoggedOf(r, f)' = LoggedOf(r, f)
    <3>1. \A k \in G' : (k \in G /\ k \in 1 .. Len(seen)) \/ (logged = TRUE /\ k = n)
      BY <1>13
    <3>2. \A k : k \in G' /\ OfRule(k, r, f)' <=> k \in G /\ OfRule(k, r, f)
      BY <1>13, <1>8, <1>12, <3>1
    <3>. QED BY <1>14, <3>2
  <2>2. WaitingOf(r, f)' = WaitingOf(r, f)
    <3>1. \A k \in RuleJobs' : k \in RuleJobs \/ (logged = TRUE /\ k = n)
      BY <1>2
    <3>2. RuleJobs \subseteq RuleJobs'
      BY <1>2
    <3>3. \A k : k \in RuleJobs' /\ OfRule(k, r, f)' <=> k \in RuleJobs /\ OfRule(k, r, f)
      BY <1>8, <1>9, <1>12, <3>1, <3>2
    <3>. QED BY <3>3 DEF WaitingOf
  <2>3. ruleStats'[r][f] = Cardinality(LoggedOf(r, f)) - Cardinality(WaitingOf(r, f))
    BY <1>1 DEF StatsInv
  <2>. QED BY <2>1, <2>2, <2>3
<1>. QED BY <1>11, <1>12

LEMMA NoteRuleStats ==
  ASSUME TelTypes, ParticularsInv, StatsInv, NEW j \in jobs, RunJob(j), NoteRule(j)
  PROVE  StatsInv'
<1> DEFINE n == j.of
           c == seen[n].call
<1>1. /\ jobs' = jobs \ {j} /\ j.does = "rule" /\ seen' = seen
      /\ ruleStats' = IF c.effect = "SHADOW" THEN ruleStats ELSE [ruleStats EXCEPT ![c.rule][c.effect] = @ + 1]
  BY DEF RunJob, NoteRule
<1>2. n # 0 /\ c.rule # ""
  BY <1>1 DEF ParticularsInv, JobsInv, JobInv
<1>3. c \in SeenCalls
  BY <1>2, JobOfDecision DEF ParticularsInv
<1>4. c.rule \in RuleIDs /\ c.effect \in Effects4
  BY <1>2, <1>3, Sampled, TelemetryAssumption
<1>5. RuleJobs' = RuleJobs \ {n} /\ n \in RuleJobs
  <2>1. \A k \in jobs : k.does = "rule" /\ k # j => k.of # n
    BY <1>1, <1>2, OneJobOfEach DEF ParticularsInv
  <2>2. RuleJobs' = {k.of : k \in {i \in jobs : i.does = "rule" /\ i # j}}
    BY <1>1 DEF RuleJobs
  <2> HIDE DEF n
  <2>3. n = j.of
    BY DEF n
  <2>4. ASSUME NEW x \in RuleJobs, x # n PROVE x \in RuleJobs'
    BY <2>2, <2>3, <2>4 DEF RuleJobs
  <2>5. ASSUME NEW x \in RuleJobs' PROVE x \in RuleJobs /\ x # n
    BY <2>1, <2>2, <2>5 DEF RuleJobs
  <2>6. n \in RuleJobs
    BY <1>1, <2>3 DEF RuleJobs
  <2>. QED BY <2>4, <2>5, <2>6
<1> HIDE DEF n
<1>6. OfRule(n, c.rule, c.effect)
  BY DEF OfRule
<1>7. ASSUME NEW r \in RuleIDs, NEW f \in Figures
      PROVE  ruleStats'[r][f] = Cardinality(LoggedOf(r, f)) - Cardinality(WaitingOf(r, f)')
  <2>1. /\ IsFiniteSet(WaitingOf(r, f)) /\ Cardinality(LoggedOf(r, f)) \in Nat
        /\ Cardinality(WaitingOf(r, f)) \in Nat
    BY FiguresAreFinite DEF ParticularsInv
  <2>2. WaitingOf(r, f)' = {k \in RuleJobs \ {n} : OfRule(k, r, f)}
    BY <1>1, <1>5 DEF WaitingOf, OfRule
  <2>3. ruleStats[r][f] = Cardinality(LoggedOf(r, f)) - Cardinality(WaitingOf(r, f))
    BY DEF StatsInv
  <2>4. ruleStats \in [RuleIDs -> [Figures -> Int]]
    BY DEF TelTypes
  <2>5. CASE c.rule = r /\ c.effect = f
    <3>1. n \in WaitingOf(r, f)
      BY <1>5, <1>6, <2>5 DEF WaitingOf
    <3>2. WaitingOf(r, f)' = WaitingOf(r, f) \ {n}
      BY <2>2 DEF WaitingOf
    <3>3. Cardinality(WaitingOf(r, f)') = Cardinality(WaitingOf(r, f)) - 1
      BY <2>1, <3>1, <3>2, FS_RemoveElement
    <3>4. ruleStats'[r][f] = ruleStats[r][f] + 1
      <4>1. c.effect # "SHADOW"
        BY <2>5 DEF Figures
      <4> HIDE DEF c
      <4>. QED BY <1>1, <2>4, <2>5, <4>1
    <3>. QED BY <2>1, <2>3, <3>3, <3>4
  <2>6. CASE ~(c.rule = r /\ c.effect = f)
    <3>1. ~OfRule(n, r, f)
      BY <2>6 DEF OfRule
    <3>2. WaitingOf(r, f)' = WaitingOf(r, f)
      BY <2>2, <3>1 DEF WaitingOf
    <3>3. ruleStats'[r][f] = ruleStats[r][f]
      <4> HIDE DEF c
      <4>. QED BY <1>1, <1>4, <2>4, <2>6
    <3>. QED BY <2>3, <3>2, <3>3
  <2>. QED BY <2>5, <2>6
<1>8. \A r, f : LoggedOf(r, f)' = LoggedOf(r, f)
  BY <1>1 DEF LoggedOf, OfRule
<1>. QED BY <1>7, <1>8 DEF StatsInv

-------------------------------------------------------------------------------
(* A principal's flows are the accesses of its last calls. P are the       *)
(* positions of its calls among those tracked, A the access of each.       *)
LaterIn(P, i) == {k \in P : k > i}
Follows(P, A, s) ==
    /\ Len(s) <= FlowRoom
    /\ \A r \in 0 .. Len(s) - 1 : \E i \in P : Cardinality(LaterIn(P, i)) = r /\ s[Len(s) - r] = A[i]
    /\ \A i \in P : Len(s) <= Cardinality(LaterIn(P, i)) /\ Cardinality(LaterIn(P, i)) < FlowRoom =>
                       \E k \in P : A[k].time > A[i].time + FlowWindow

Timely(P, A) == \A i, k \in P : i < k => A[i].time <= A[k].time

LEMMA LaterCounts ==
  ASSUME NEW P \in SUBSET Nat, IsFiniteSet(P)
  PROVE  /\ \A i : IsFiniteSet(LaterIn(P, i)) /\ Cardinality(LaterIn(P, i)) \in Nat
         /\ \A i, k \in P : i < k => Cardinality(LaterIn(P, k)) < Cardinality(LaterIn(P, i))
<1>1. \A i : LaterIn(P, i) \in SUBSET P
  BY DEF LaterIn
<1>2. \A S \in SUBSET P : IsFiniteSet(S) /\ Cardinality(S) \in Nat
  BY FS_Subset, FS_CardinalityType
<1>3. \A i : IsFiniteSet(LaterIn(P, i)) /\ Cardinality(LaterIn(P, i)) \in Nat
  BY <1>1, <1>2
<1>4. \A i \in P : i \in Nat
  OBVIOUS
<1>5. ASSUME NEW i \in P, NEW k \in P, i < k PROVE Cardinality(LaterIn(P, k)) < Cardinality(LaterIn(P, i))
  <2>1. LaterIn(P, k) \cup {k} \in SUBSET LaterIn(P, i) /\ k \notin LaterIn(P, k)
    <3>1. \A x \in P : x > k => x > i
      BY <1>4, <1>5
    <3>2. k > i /\ ~(k > k)
      BY <1>4, <1>5
    <3>. QED BY <3>1, <3>2 DEF LaterIn
  <2>2. Cardinality(LaterIn(P, k) \cup {k}) = Cardinality(LaterIn(P, k)) + 1
    BY <1>3, <2>1, FS_AddElement
  <2>3. Cardinality(LaterIn(P, k) \cup {k}) <= Cardinality(LaterIn(P, i))
    BY <1>3, <2>1, FS_Subset
  <2>. QED BY <1>3, <2>2, <2>3
<1>. QED BY <1>3, <1>5

LEMMA LaterMore ==
  ASSUME NEW P \in SUBSET Nat, IsFiniteSet(P), NEW m \in Nat, \A i \in P : i < m
  PROVE  /\ \A i \in P : Cardinality(LaterIn(P \cup {m}, i)) = Cardinality(LaterIn(P, i)) + 1
         /\ Cardinality(LaterIn(P \cup {m}, m)) = 0
<1>1. ASSUME NEW i \in P PROVE Cardinality(LaterIn(P \cup {m}, i)) = Cardinality(LaterIn(P, i)) + 1
  <2>1. LaterIn(P \cup {m}, i) = LaterIn(P, i) \cup {m} /\ m \notin LaterIn(P, i)
    BY DEF LaterIn
  <2>. QED BY <2>1, LaterCounts, FS_AddElement
<1>2. LaterIn(P \cup {m}, m) = {}
  <2>1. \A k \in P \cup {m} : ~(k > m)
    OBVIOUS
  <2>. QED BY <2>1 DEF LaterIn
<1>. QED BY <1>1, <1>2, FS_EmptySet

(* A position is known by how many follow it.                              *)
LEMMA LaterTells ==
  ASSUME NEW P \in SUBSET Nat, IsFiniteSet(P), NEW i \in P, NEW k \in P
  PROVE  /\ Cardinality(LaterIn(P, i)) = Cardinality(LaterIn(P, k)) => i = k
         /\ Cardinality(LaterIn(P, i)) > Cardinality(LaterIn(P, k)) => i < k
<1>1. i \in Nat /\ k \in Nat /\ (i < k \/ i = k \/ k < i)
  OBVIOUS
<1>4. i < k => Cardinality(LaterIn(P, k)) < Cardinality(LaterIn(P, i))
  BY LaterCounts
<1>5. k < i => Cardinality(LaterIn(P, i)) < Cardinality(LaterIn(P, k))
  BY LaterCounts
<1>6. Cardinality(LaterIn(P, i)) \in Nat /\ Cardinality(LaterIn(P, k)) \in Nat
  BY LaterCounts
<1>. QED BY <1>1, <1>4, <1>5, <1>6

(* Those that are young enough are the last ones.                          *)
LEMMA YoungAreLast ==
  ASSUME NEW P \in SUBSET Nat, IsFiniteSet(P), NEW A, NEW s \in Seq(FlowType), Follows(P, A, s),
         Timely(P, A), NEW from \in Int
  PROVE  \E cut \in 0 .. Len(s) : \A x \in 1 .. Len(s) : s[x].time >= from <=> x > cut
<1> DEFINE old == {x \in 1 .. Len(s) : ~(s[x].time >= from)}
<1>1. Len(s) \in Nat /\ FlowRoom \in Nat
  BY LenProperties, TelemetryAssumption
<1>2. ASSUME NEW x \in 1 .. Len(s) PROVE s[x] \in FlowType /\ s[x].time \in Nat
  <2>1. s[x] \in FlowType
    BY ElementOfSeq
  <2>. QED BY <2>1 DEF FlowType
<1>3. ASSUME NEW x \in 1 .. Len(s), NEW y \in 1 .. Len(s), x < y PROVE s[x].time <= s[y].time
  <2>1. Len(s) - x \in 0 .. Len(s) - 1 /\ Len(s) - y \in 0 .. Len(s) - 1 /\ Len(s) - (Len(s) - x) = x
        /\ Len(s) - (Len(s) - y) = y /\ Len(s) - x > Len(s) - y
    BY <1>1, <1>3
  <2>2. PICK i \in P : Cardinality(LaterIn(P, i)) = Len(s) - x /\ s[x] = A[i]
    BY <2>1 DEF Follows
  <2>3. PICK k \in P : Cardinality(LaterIn(P, k)) = Len(s) - y /\ s[y] = A[k]
    BY <2>1 DEF Follows
  <2>4. i < k
    BY <2>1, <2>2, <2>3, LaterTells
  <2>. QED BY <2>2, <2>3, <2>4 DEF Timely
<1>4. CASE old = {}
  <2>1. \A x \in 1 .. Len(s) : s[x].time >= from /\ x > 0
    BY <1>4
  <2>2. 0 \in 0 .. Len(s)
    BY <1>1
  <2>3. \A x \in 1 .. Len(s) : s[x].time >= from <=> x > 0
    BY <2>1
  <2> HIDE DEF old
  <2>. QED BY <2>2, <2>3
<1>5. CASE old # {}
  <2>1. PICK m \in old : \A k \in old : k <= m
    <3>0. old \in SUBSET (1 .. Len(s))
      OBVIOUS
    <3>1. IsFiniteSet(1 .. Len(s)) /\ 1 .. Len(s) \subseteq Nat
      BY <1>1, FS_Interval
    <3>. HIDE DEF old
    <3>a. IsFiniteSet(old) /\ old \subseteq Nat
      BY <3>0, <3>1, FS_Subset
    <3> DEFINE id == [k \in old |-> k]
    <3>2. id \in [old -> Nat]
      BY <3>a
    <3> HIDE DEF id
    <3>3. \E m \in old : \A k \in old : id[k] <= id[m]
      BY <1>5, <3>a, <3>2, LargestOf
    <3>. QED BY <3>3 DEF id
  <2>2. m \in 1 .. Len(s) /\ m \in 0 .. Len(s) /\ ~(s[m].time >= from)
    BY <1>1, <2>1
  <2>3. ASSUME NEW x \in 1 .. Len(s) PROVE s[x].time >= from <=> x > m
    <3>1. CASE x > m
      <4>1. x \notin old
        BY <2>1, <2>2, <3>1
      <4>. QED BY <3>1, <4>1
    <3>2. CASE x = m
      BY <2>2, <3>2
    <3>3. CASE x < m
      BY <1>2, <1>3, <2>2, <3>3
    <3>. QED BY <2>2, <3>1, <3>2, <3>3
  <2>. QED BY <2>2, <2>3
<1>. QED BY <1>4, <1>5

Young(s, from) == {x \in DOMAIN s : s[x].time >= from}

(* What RecordAccess keeps, of flows that follow the calls so far.         *)
LEMMA PrunedFlows ==
  ASSUME NEW P \in SUBSET Nat, IsFiniteSet(P), NEW A, NEW s \in Seq(FlowType), Follows(P, A, s),
         Timely(P, A), NEW from \in Int
  PROVE  \E cut \in 0 .. Len(s) :
           /\ Those(s, Young(s, from)) \in Seq(FlowType) /\ Len(Those(s, Young(s, from))) = Len(s) - cut
           /\ \A x \in 1 .. Len(s) - cut : Those(s, Young(s, from))[x] = s[x + cut]
           /\ \A x \in 1 .. Len(s) : s[x].time >= from <=> x > cut
<1>1. PICK cut \in 0 .. Len(s) : \A x \in 1 .. Len(s) : s[x].time >= from <=> x > cut
  BY YoungAreLast
<1> DEFINE ns == Young(s, from)
<1>2. \A x \in 1 .. Len(s) : x \in ns <=> x > cut
  <2>1. DOMAIN s = 1 .. Len(s)
    BY LenProperties
  <2>. QED BY <1>1, <2>1 DEF Young
<1> HIDE DEF ns
<1>4. Those(s, ns) \in Seq(FlowType)
  BY ThoseElements
<1>5. Len(Those(s, ns)) = Len(s) - cut /\ \A x \in 1 .. Len(s) - cut : Those(s, ns)[x] = s[x + cut]
  BY <1>2, ThoseAtTheEnd
<1>. QED BY <1>1, <1>4, <1>5 DEF ns

LEMMA FollowStep ==
  ASSUME NEW P \in SUBSET Nat, IsFiniteSet(P), NEW m \in Nat, \A i \in P : i < m,
         NEW A, \A i \in P \cup {m} : A[i] \in FlowType,
         Timely(P \cup {m}, A),
         NEW s \in Seq(FlowType), Follows(P, A, s),
         NEW hist, hist = Those(s, Young(s, A[m].time - FlowWindow))
  PROVE  Follows(P \cup {m}, A, LastOf(Append(hist, A[m]), FlowRoom))
<1> DEFINE Q == P \cup {m}
           u == LastOf(Append(hist, A[m]), FlowRoom)
<1>1. /\ Len(s) \in Nat /\ FlowRoom \in Nat \ {0} /\ FlowWindow \in Nat /\ A[m] \in FlowType /\ A[m].time \in Nat
      /\ \A i \in P : A[i] \in FlowType /\ A[i].time \in Nat
  <2>1. \A f \in FlowType : f.time \in Nat
    BY DEF FlowType
  <2>. QED BY <2>1, LenProperties, TelemetryAssumption
<1>2. Timely(P, A)
  BY DEF Timely
<1>3. PICK cut \in 0 .. Len(s) :
           /\ hist \in Seq(FlowType) /\ Len(hist) = Len(s) - cut
           /\ \A x \in 1 .. Len(s) - cut : hist[x] = s[x + cut]
           /\ \A x \in 1 .. Len(s) : s[x].time >= A[m].time - FlowWindow <=> x > cut
  <2>1. PICK from \in Int : from = A[m].time - FlowWindow
    BY <1>1
  <2>2. hist = Those(s, Young(s, from))
    BY <2>1
  <2>3. \E cut \in 0 .. Len(s) :
           /\ hist \in Seq(FlowType) /\ Len(hist) = Len(s) - cut
           /\ \A x \in 1 .. Len(s) - cut : hist[x] = s[x + cut]
           /\ \A x \in 1 .. Len(s) : s[x].time >= from <=> x > cut
    <3>1. \E cut \in 0 .. Len(s) :
           /\ Those(s, Young(s, from)) \in Seq(FlowType) /\ Len(Those(s, Young(s, from))) = Len(s) - cut
           /\ \A x \in 1 .. Len(s) - cut : Those(s, Young(s, from))[x] = s[x + cut]
           /\ \A x \in 1 .. Len(s) : s[x].time >= from <=> x > cut
      BY <1>2, PrunedFlows
    <3>. QED BY <2>2, <3>1
  <2>. QED BY <2>1, <2>3
<1>4. PICK w : w = Append(hist, A[m])
  OBVIOUS
<1>5. /\ w \in Seq(FlowType) /\ Len(w) = Len(s) - cut + 1 /\ w[Len(s) - cut + 1] = A[m]
      /\ \A x \in 1 .. Len(s) - cut : w[x] = s[x + cut]
  <2>1. /\ w \in Seq(FlowType) /\ Len(w) = Len(hist) + 1 /\ w[Len(hist) + 1] = A[m]
        /\ \A x \in 1 .. Len(hist) : w[x] = hist[x]
    BY <1>1, <1>3, <1>4, AppendedTo
  <2>. QED BY <1>3, <2>1
<1>6. /\ Len(u) = (IF Len(w) > FlowRoom THEN FlowRoom ELSE Len(w))
      /\ \A r \in 0 .. Len(u) - 1 : u[Len(u) - r] = w[Len(w) - r]
  BY <1>1, <1>4, <1>5, LastOnes
<1> HIDE DEF u
<1>7. Len(u) \in Nat /\ Len(u) <= FlowRoom /\ Len(u) <= Len(w) /\ Len(u) >= 1
      /\ (Len(u) < FlowRoom => Len(u) = Len(s) - cut + 1)
  <2>1. \A a, b \in Nat : b # 0 /\ a >= 1 => LET c == IF a > b THEN b ELSE a IN
           c \in Nat /\ c <= b /\ c <= a /\ c >= 1 /\ (c < b => c = a)
    OBVIOUS
  <2>2. Len(w) \in Nat /\ Len(w) >= 1 /\ Len(w) = Len(s) - cut + 1
    BY <1>1, <1>5
  <2>. QED BY <1>1, <1>6, <2>1, <2>2
<1>8. /\ \A i \in P : Cardinality(LaterIn(Q, i)) = Cardinality(LaterIn(P, i)) + 1
      /\ Cardinality(LaterIn(Q, m)) = 0
  BY LaterMore
<1>9. \A i \in P : Cardinality(LaterIn(P, i)) \in Nat
  BY LaterCounts
<1> HIDE DEF Q
<1>10. ASSUME NEW r \in 0 .. Len(u) - 1 PROVE \E i \in Q : Cardinality(LaterIn(Q, i)) = r /\ u[Len(u) - r] = A[i]
  <2>1. CASE r = 0
    <3>1. u[Len(u) - r] = w[Len(w) - r]
      BY <1>6
    <3>2. Len(w) - r = Len(s) - cut + 1
      BY <1>1, <1>5, <2>1
    <3>. QED BY <1>5, <1>8, <2>1, <3>1, <3>2 DEF Q
  <2>2. CASE r # 0
    <3>1. /\ r - 1 \in 0 .. Len(s) - 1 /\ Len(w) - r \in 1 .. Len(s) - cut /\ Len(w) - r + cut = Len(s) - (r - 1)
          /\ r - 1 \in Nat
      BY <1>1, <1>5, <1>7, <2>2
    <3>2. u[Len(u) - r] = s[Len(s) - (r - 1)]
      BY <1>5, <1>6, <3>1
    <3>3. PICK i \in P : Cardinality(LaterIn(P, i)) = r - 1 /\ s[Len(s) - (r - 1)] = A[i]
      BY <3>1 DEF Follows
    <3>4. Cardinality(LaterIn(Q, i)) = r
      BY <1>8, <3>1, <3>3
    <3>. QED BY <3>2, <3>3, <3>4 DEF Q
  <2>. QED BY <2>1, <2>2
<1>11. ASSUME NEW i \in Q, Len(u) <= Cardinality(LaterIn(Q, i)), Cardinality(LaterIn(Q, i)) < FlowRoom
       PROVE  \E k \in Q : A[k].time > A[i].time + FlowWindow
  <2>1. i \in P
    BY <1>7, <1>8, <1>11 DEF Q
  <2> DEFINE r == Cardinality(LaterIn(P, i))
  <2>2. r \in Nat /\ Cardinality(LaterIn(Q, i)) = r + 1
    BY <1>8, <1>9, <2>1
  <2> HIDE DEF r
  <2>3. r >= Len(s) - cut /\ r < FlowRoom
    BY <1>1, <1>7, <1>11, <2>2
  <2>4. CASE r >= Len(s)
    <3>1. PICK k \in P : A[k].time > A[i].time + FlowWindow
      BY <1>1, <2>1, <2>2, <2>3, <2>4 DEF Follows, r
    <3>. QED BY <3>1 DEF Q
  <2>5. CASE r < Len(s)
    <3>1. r \in 0 .. Len(s) - 1 /\ Len(s) - r \in 1 .. Len(s) /\ ~(Len(s) - r > cut)
      BY <1>1, <2>2, <2>3, <2>5
    <3>2. PICK k \in P : Cardinality(LaterIn(P, k)) = r /\ s[Len(s) - r] = A[k]
      BY <3>1 DEF Follows
    <3>3. k = i
      BY <2>1, <3>2, LaterTells DEF r
    <3>4. ~(A[i].time >= A[m].time - FlowWindow)
      BY <1>3, <3>1, <3>2, <3>3
    <3>5. A[m].time > A[i].time + FlowWindow
      BY <1>1, <2>1, <3>4
    <3>. QED BY <3>5 DEF Q
  <2>. QED BY <1>1, <2>2, <2>4, <2>5
<1>12. Follows(Q, A, u)
  BY <1>7, <1>10, <1>11 DEF Follows
<1>. QED BY <1>12 DEF Q, u

IsShown(s, at, G) == \E f \in ToSet(s) : f \in G /\ at - f.time <= FlowWindow
IsAmong(P, A, at, G) ==
    \E i \in P : Cardinality(LaterIn(P, i)) < FlowRoom /\ A[i] \in G /\ at - A[i].time <= FlowWindow

LEMMA FollowShows ==
  ASSUME NEW P \in SUBSET Nat, IsFiniteSet(P), NEW m \in Nat, \A i \in P : i < m,
         NEW A, \A i \in P \cup {m} : A[i] \in FlowType,
         Timely(P \cup {m}, A),
         NEW s \in Seq(FlowType), Follows(P, A, s),
         NEW hist, hist = Those(s, Young(s, A[m].time - FlowWindow)), NEW G
  PROVE  IsShown(hist, A[m].time, G) <=> IsAmong(P, A, A[m].time, G)
<1>1. /\ Len(s) \in Nat /\ FlowRoom \in Nat /\ FlowWindow \in Nat /\ A[m].time \in Nat
      /\ \A i \in P : A[i].time \in Nat
  <2>1. \A f \in FlowType : f.time \in Nat
    BY DEF FlowType
  <2>. QED BY <2>1, LenProperties, TelemetryAssumption
<1>2. Timely(P, A)
  BY DEF Timely
<1>3. PICK cut \in 0 .. Len(s) :
           /\ hist \in Seq(FlowType) /\ Len(hist) = Len(s) - cut
           /\ \A x \in 1 .. Len(s) - cut : hist[x] = s[x + cut]
           /\ \A x \in 1 .. Len(s) : s[x].time >= A[m].time - FlowWindow <=> x > cut
  <2>1. PICK from \in Int : from = A[m].time - FlowWindow
    BY <1>1
  <2>2. hist = Those(s, Young(s, from))
    BY <2>1
  <2>3. \E cut \in 0 .. Len(s) :
           /\ hist \in Seq(FlowType) /\ Len(hist) = Len(s) - cut
           /\ \A x \in 1 .. Len(s) - cut : hist[x] = s[x + cut]
           /\ \A x \in 1 .. Len(s) : s[x].time >= from <=> x > cut
    <3>1. \E cut \in 0 .. Len(s) :
           /\ Those(s, Young(s, from)) \in Seq(FlowType) /\ Len(Those(s, Young(s, from))) = Len(s) - cut
           /\ \A x \in 1 .. Len(s) - cut : Those(s, Young(s, from))[x] = s[x + cut]
           /\ \A x \in 1 .. Len(s) : s[x].time >= from <=> x > cut
      BY <1>2, PrunedFlows
    <3>. QED BY <2>2, <3>1
  <2>. QED BY <2>1, <2>3
<1>4. DOMAIN hist = 1 .. Len(s) - cut
  BY <1>3, LenProperties
<1>5. \A i \in P : Cardinality(LaterIn(P, i)) \in Nat
  BY LaterCounts
<1>6. ASSUME NEW f \in ToSet(hist), f \in G, A[m].time - f.time <= FlowWindow
      PROVE  \E i \in P : /\ Cardinality(LaterIn(P, i)) < FlowRoom
                          /\ A[i] \in G /\ A[m].time - A[i].time <= FlowWindow
  <2>1. PICK x \in 1 .. Len(s) - cut : f = hist[x]
    BY <1>4 DEF ToSet
  <2>2. f = s[x + cut]
    BY <1>3, <2>1
  <2>3. PICK r \in 0 .. Len(s) - 1 : Len(s) - r = x + cut
    <3>1. Len(s) - (x + cut) \in 0 .. Len(s) - 1 /\ Len(s) - (Len(s) - (x + cut)) = x + cut
      BY <1>1
    <3>. QED BY <3>1
  <2>4. PICK i \in P : Cardinality(LaterIn(P, i)) = r /\ s[Len(s) - r] = A[i]
    BY DEF Follows
  <2>5. Cardinality(LaterIn(P, i)) < FlowRoom
    BY <1>1, <2>4 DEF Follows
  <2>. QED BY <1>6, <2>2, <2>3, <2>4, <2>5
<1>7. ASSUME NEW i \in P, Cardinality(LaterIn(P, i)) < FlowRoom, A[i] \in G,
             A[m].time - A[i].time <= FlowWindow
      PROVE  \E f \in ToSet(hist) : f \in G /\ A[m].time - f.time <= FlowWindow
  <2> DEFINE r == Cardinality(LaterIn(P, i))
  <2>1. r \in Nat
    BY <1>5
  <2>2. r < Len(s)
    <3> SUFFICES ASSUME ~(r < Len(s)) PROVE FALSE
      OBVIOUS
    <3>0. Len(s) <= Cardinality(LaterIn(P, i)) /\ Cardinality(LaterIn(P, i)) < FlowRoom
      <4>1. Len(s) <= r
        <5> HIDE DEF r
        <5>. QED BY <1>1, <2>1
      <4>. QED BY <1>7, <4>1
    <3>1. PICK k \in P : A[k].time > A[i].time + FlowWindow
      <4>1. \A j \in P : Len(s) <= Cardinality(LaterIn(P, j)) /\ Cardinality(LaterIn(P, j)) < FlowRoom
                          => \E k \in P : A[k].time > A[j].time + FlowWindow
        BY DEF Follows
      <4>. QED BY <3>0, <4>1, Zenon
    <3>2. A[k].time <= A[m].time
      <4>1. k \in P \cup {m} /\ m \in P \cup {m} /\ k < m
        OBVIOUS
      <4>. QED BY <4>1, Zenon DEF Timely
    <3>3. A[k].time \in Nat /\ A[i].time \in Nat
      BY <1>1
    <3>4. A[m].time \in Nat /\ FlowWindow \in Nat
      BY <1>1
    <3>5. PICK a, b, c, w \in Nat : a = A[m].time /\ b = A[i].time /\ c = A[k].time /\ w = FlowWindow
      BY <3>3, <3>4
    <3>6. a - b <= w
      BY <1>7, <3>5
    <3>7. c > b + w
      BY <3>1, <3>5
    <3>8. c <= a
      BY <3>2, <3>5
    <3>. QED BY <3>6, <3>7, <3>8
  <2> HIDE DEF r
  <2>3. r \in 0 .. Len(s) - 1 /\ Len(s) - r \in 1 .. Len(s)
    BY <1>1, <2>1, <2>2
  <2>4. PICK k \in P : Cardinality(LaterIn(P, k)) = r /\ s[Len(s) - r] = A[k]
    BY <2>3 DEF Follows
  <2>5. k = i
    BY <2>4, LaterTells DEF r
  <2>6. Len(s) - r > cut
    <3>1. A[i].time >= A[m].time - FlowWindow
      <4>1. A[i].time \in Nat
        BY <1>1
      <4>2. \A a, b, w \in Nat : a - b <= w => b >= a - w
        OBVIOUS
      <4>. QED BY <1>1, <1>7, <4>1, <4>2
    <3>2. s[Len(s) - r].time >= A[m].time - FlowWindow
      BY <2>4, <2>5, <3>1
    <3>. QED BY <1>3, <2>3, <3>2
  <2>7. PICK x \in 1 .. Len(s) - cut : x + cut = Len(s) - r
    <3>1. Len(s) - r - cut \in 1 .. Len(s) - cut /\ Len(s) - r - cut + cut = Len(s) - r
      BY <1>1, <2>1, <2>3, <2>6
    <3>. QED BY <3>1
  <2>8. hist[x] = A[i] /\ hist[x] \in ToSet(hist)
    BY <1>3, <1>4, <2>4, <2>5, <2>7 DEF ToSet
  <2>. QED BY <1>7, <2>8
<1>. QED BY <1>6, <1>7 DEF IsShown, IsAmong

-------------------------------------------------------------------------------
(* The calls of a principal that were tracked, and the access of each.     *)
CallsOf(p) == {i \in 1 .. Len(tracked) : seen[tracked[i]].call.principal = p}
Accesses == [i \in 1 .. Len(tracked) |-> Access(tracked[i])]
Ordered == \A i, n \in DOMAIN tracked : i < n => seen[tracked[i]].time <= seen[tracked[n]].time
IsPair(n) == \E i \in Recent(n) : ReadElsewhere(tracked[i], tracked[n])
FlowFound(n) == Kind(seen[tracked[n]].call) = "exfil" => (tracked[n] \in flagged <=> IsPair(n))

FollowsInv == \A p \in PrincipalKeys : Follows(CallsOf(p), Accesses, flows[p])
FoundInv == Ordered => FollowsInv /\ \A n \in 1 .. Len(tracked) : FlowFound(n)

LEMMA FoundIsFound ==
  ASSUME TelTypes, FoundInv
  PROVE  PairsInOrderAreFound
<1>1. DOMAIN tracked = 1 .. Len(tracked)
  BY LenProperties DEF TelTypes
<1>2. Ordered => \A n \in DOMAIN tracked : FlowFound(n)
  BY <1>1 DEF FoundInv
<1>. QED BY <1>2 DEF Ordered, FlowFound, IsPair, PairsInOrderAreFound

LEMMA FollowsSame ==
  ASSUME NEW P, NEW A, NEW B, NEW s, Follows(P, A, s), \A i \in P : A[i] = B[i]
  PROVE  Follows(P, B, s)
<1>1. Len(s) <= FlowRoom
  BY DEF Follows
<1>2. ASSUME NEW r \in 0 .. Len(s) - 1 PROVE \E i \in P : Cardinality(LaterIn(P, i)) = r /\ s[Len(s) - r] = B[i]
  BY DEF Follows
<1>3. ASSUME NEW i \in P, Len(s) <= Cardinality(LaterIn(P, i)), Cardinality(LaterIn(P, i)) < FlowRoom
      PROVE  \E k \in P : B[k].time > B[i].time + FlowWindow
  <2>1. PICK k \in P : A[k].time > A[i].time + FlowWindow
    BY <1>3 DEF Follows
  <2>2. A[k] = B[k] /\ A[i] = B[i]
    OBVIOUS
  <2>. QED BY <2>1, <2>2
<1>. QED BY <1>1, <1>2, <1>3 DEF Follows

(* What was tracked stays so.                                              *)
TrackedGrows ==
    /\ Len(tracked) \in Nat /\ Len(tracked') \in Nat /\ Len(tracked) <= Len(tracked')
    /\ DOMAIN tracked = 1 .. Len(tracked) /\ DOMAIN tracked' = 1 .. Len(tracked')
    /\ \A i \in 1 .. Len(tracked) : tracked'[i] = tracked[i] /\ seen'[tracked[i]] = seen[tracked[i]]

LEMMA PairsStay ==
  ASSUME TrackedGrows
  PROVE  /\ Ordered' => Ordered
         /\ \A n \in 1 .. Len(tracked) : IsPair(n)' <=> IsPair(n)
         /\ \A i \in 1 .. Len(tracked) : i \in 1 .. Len(tracked') /\ Accesses'[i] = Accesses[i]
<1>1. \A i \in 1 .. Len(tracked) : /\ i \in 1 .. Len(tracked') /\ tracked'[i] = tracked[i]
                                   /\ seen'[tracked'[i]] = seen[tracked[i]]
  BY DEF TrackedGrows
<1>2. DOMAIN tracked = 1 .. Len(tracked) /\ DOMAIN tracked' = 1 .. Len(tracked') /\ Len(tracked) \in Nat
  BY DEF TrackedGrows
<1>3. Ordered' => Ordered
  BY <1>1, <1>2 DEF Ordered
<1>4. \A i \in 1 .. Len(tracked) : Accesses'[i] = Accesses[i]
  BY <1>1 DEF Accesses, Access
<1>5. ASSUME NEW n \in 1 .. Len(tracked) PROVE IsPair(n)' <=> IsPair(n)
  <2>1. \A k \in 1 .. n - 1 : k \in 1 .. Len(tracked)
    BY <1>2
  <2>2. ASSUME NEW i \in 1 .. n - 1 PROVE Meanwhile(i, n)' = Meanwhile(i, n)
    <3>1. \A k \in i + 1 .. n - 1 : k \in 1 .. Len(tracked)
      BY <1>2
    <3>. QED BY <1>1, <3>1 DEF Meanwhile
  <2>3. Recent(n)' = Recent(n)
    BY <1>1, <2>1, <2>2 DEF Recent
  <2>4. ASSUME NEW i \in Recent(n)
        PROVE  ReadElsewhere(tracked[i], tracked[n])' <=> ReadElsewhere(tracked[i], tracked[n])
    <3>1. i \in 1 .. Len(tracked)
      BY <2>1 DEF Recent
    <3>. QED BY <1>1, <3>1 DEF ReadElsewhere
  <2>. QED BY <2>3, <2>4 DEF IsPair
<1>. QED BY <1>1, <1>3, <1>4, <1>5

(* A step that tracks nothing.                                             *)
LEMMA FoundStays ==
  ASSUME TelTypes, TrackedInv, SeenGrows, FoundInv, UNCHANGED <<flows, flagged, tracked>>
  PROVE  FoundInv'
<1>1. DOMAIN tracked = 1 .. Len(tracked) /\ Len(tracked) \in Nat
  BY LenProperties DEF TelTypes
<1>2. TrackedGrows
  BY <1>1 DEF TrackedGrows, TrackedInv, SeenGrows
<1> SUFFICES ASSUME Ordered' PROVE FollowsInv' /\ \A n \in 1 .. Len(tracked') : FlowFound(n)'
  BY DEF FoundInv
<1>3. FollowsInv /\ \A n \in 1 .. Len(tracked) : FlowFound(n)
  BY <1>2, PairsStay DEF FoundInv
<1>4. ASSUME NEW n \in 1 .. Len(tracked') PROVE FlowFound(n)'
  BY <1>2, <1>3, PairsStay DEF FlowFound, TrackedGrows
<1>5. ASSUME NEW p \in PrincipalKeys PROVE Follows(CallsOf(p), Accesses, flows[p])'
  <2>1. CallsOf(p)' = CallsOf(p)
    BY <1>2 DEF CallsOf, TrackedGrows
  <2>2. Follows(CallsOf(p), Accesses, flows[p])
    BY <1>3 DEF FollowsInv
  <2>3. PICK P : P = CallsOf(p)
    OBVIOUS
  <2>4. PICK B : B = Accesses'
    OBVIOUS
  <2>5. \A i \in P : Accesses[i] = B[i]
    BY <1>2, <2>3, <2>4, PairsStay DEF CallsOf
  <2>6. Follows(P, Accesses, flows[p])
    BY <2>2, <2>3
  <2>7. PICK s : s = flows[p]
    OBVIOUS
  <2>8. Follows(P, B, s)
    BY <2>5, <2>6, <2>7, FollowsSame
  <2>9. P = CallsOf(p)' /\ s = flows'[p]
    BY <2>1, <2>3, <2>7
  <2>. QED BY <2>4, <2>8, <2>9 DEF Follows
<1>. QED BY <1>4, <1>5 DEF FollowsInv

LEMMA FoundStep ==
  ASSUME TelTypes, ParticularsInv, FoundInv, NEW j \in jobs, RunJob(j), NoteAccess(j),
         NEW n, n = j.of, NEW p, p = seen[n].call.principal, NEW m, m = Len(tracked) + 1
  PROVE  FoundInv'
<1> DEFINE hist == Pruned(p, seen[n].time)
<1>1. /\ j.does = "access" /\ n \in 1 .. Len(seen) /\ n # 0 /\ seen' = seen
      /\ tracked' = Append(tracked, n) /\ flows' = [flows EXCEPT ![p] = FlowsWith(n)]
      /\ flagged' = IF Suspicious(seen[n].call, seen[n].time, hist) THEN flagged \cup {n} ELSE flagged
  BY NoteAccessStep DEF ParticularsInv
<1>2. /\ p \in PrincipalKeys /\ Access(n) \in FlowType /\ FlowsWith(n) \in Seq(FlowType) /\ hist \in Seq(FlowType)
  BY <1>1, RecordedFlows
<1>3. n \in Nat
  BY <1>1 DEF TelTypes
<1>4. /\ Len(tracked) \in Nat /\ Len(tracked') = m /\ m \in Nat
      /\ DOMAIN tracked = 1 .. Len(tracked) /\ DOMAIN tracked' = (1 .. Len(tracked)) \cup {m}
      /\ 1 .. Len(tracked') = DOMAIN tracked'
      /\ \A i \in 1 .. Len(tracked) : tracked'[i] = tracked[i]
      /\ tracked'[m] = n /\ ToSet(tracked') = ToSet(tracked) \cup {n}
  <2>1. /\ Len(tracked) \in Nat /\ Len(tracked') = Len(tracked) + 1
        /\ DOMAIN tracked = 1 .. Len(tracked) /\ DOMAIN tracked' = (1 .. Len(tracked)) \cup {Len(tracked) + 1}
        /\ 1 .. Len(tracked') = DOMAIN tracked'
        /\ \A i \in 1 .. Len(tracked) : tracked'[i] = tracked[i]
        /\ tracked'[Len(tracked) + 1] = n /\ ToSet(tracked') = ToSet(tracked) \cup {n}
    BY <1>1, <1>3, TrackedOneMore
  <2>. QED BY <2>1
<1> HIDE DEF hist
<1>5. TrackedGrows
  <2>1. Len(tracked) <= m
    BY <1>4
  <2>. QED BY <1>1, <1>4, <2>1 DEF TrackedGrows
<1> SUFFICES ASSUME Ordered' PROVE FollowsInv' /\ \A k \in 1 .. Len(tracked') : FlowFound(k)'
  BY DEF FoundInv
<1>6. FollowsInv /\ \A k \in 1 .. Len(tracked) : FlowFound(k)
  BY <1>5, PairsStay DEF FoundInv
<1>7. \A i \in 1 .. Len(tracked) : tracked[i] # n /\ tracked[i] \in 1 .. Len(seen)
  <2>1. n \notin ToSet(tracked)
    BY <1>1 DEF ParticularsInv, TrackedInv
  <2>. QED BY <1>4, <2>1 DEF ToSet, ParticularsInv, TrackedInv
<1>8. PICK A : A = Accesses'
  OBVIOUS
<1>9. A[m] = Access(n) /\ A[m].time = seen[n].time /\ \A i \in 1 .. Len(tracked) : A[i] = Access(tracked[i])
  <2>1. \A i \in 1 .. m : A[i] = Access(tracked[i])'
    BY <1>4, <1>8 DEF Accesses
  <2>2. A[m] = Access(n)
    <3>1. m \in 1 .. m
      BY <1>4
    <3>2. A[m] = Access(tracked[m])'
      BY <2>1, <3>1
    <3>. QED BY <1>1, <1>4, <3>2 DEF Access
  <2>3. ASSUME NEW i \in 1 .. Len(tracked) PROVE A[i] = Access(tracked[i])
    <3>1. i \in 1 .. m /\ tracked'[i] = tracked[i]
      BY <1>4
    <3>2. A[i] = Access(tracked[i])'
      BY <2>1, <3>1
    <3>. QED BY <1>1, <3>1, <3>2 DEF Access
  <2>4. A[m].time = seen[n].time
    BY <2>2 DEF Access
  <2>. QED BY <2>2, <2>3, <2>4
<1>10. \A i \in 1 .. Len(tracked) : A[i] \in FlowType
  BY <1>7, <1>9, RecordedFlows
<1>11. PICK P : P = CallsOf(p)
  OBVIOUS
<1>12. P \in SUBSET Nat /\ IsFiniteSet(P) /\ (\A i \in P : i < m) /\ P \subseteq 1 .. Len(tracked)
  <2>1. P \subseteq 1 .. Len(tracked)
    BY <1>11 DEF CallsOf
  <2>2. IsFiniteSet(1 .. Len(tracked))
    BY <1>4, FS_Interval
  <2>3. IsFiniteSet(P)
    BY <2>1, <2>2, FS_Subset
  <2>4. \A i \in 1 .. Len(tracked) : i < m /\ i \in Nat
    BY <1>4
  <2>. QED BY <2>1, <2>3, <2>4
<1>13. (\A i \in P \cup {m} : A[i] \in FlowType) /\ Timely(P \cup {m}, A)
  <2>1. \A i \in P \cup {m} : A[i] \in FlowType
    BY <1>2, <1>9, <1>10, <1>12
  <2>2. \A i, k \in 1 .. m : i < k => seen[tracked'[i]].time <= seen[tracked'[k]].time
    BY <1>1, <1>4 DEF Ordered
  <2>3. ASSUME NEW i \in 1 .. m PROVE A[i].time = seen[tracked'[i]].time
    <3>1. CASE i = m
      BY <1>4, <1>9, <3>1
    <3>2. CASE i # m
      <4>1. i \in 1 .. Len(tracked)
        BY <1>4, <3>2
      <4>2. A[i] = Access(tracked[i]) /\ tracked'[i] = tracked[i]
        BY <1>4, <1>9, <4>1
      <4>. QED BY <4>2 DEF Access
    <3>. QED BY <3>1, <3>2
  <2>4. P \cup {m} \subseteq 1 .. m
    BY <1>4, <1>12
  <2>. QED BY <2>1, <2>2, <2>3, <2>4 DEF Timely
<1>14. PICK s : s = flows[p]
  OBVIOUS
<1>15. s \in Seq(FlowType)
  BY <1>2, <1>14 DEF TelTypes
<1>16. PICK B : B = Accesses
  OBVIOUS
<1>17. \A i \in 1 .. Len(tracked) : B[i] = A[i]
  BY <1>9, <1>16 DEF Accesses
<1>18. Follows(P, A, s)
  <2>1. Follows(P, B, s)
    BY <1>2, <1>6, <1>11, <1>14, <1>16 DEF FollowsInv
  <2>2. \A i \in P : B[i] = A[i]
    BY <1>12, <1>17
  <2>. QED BY <2>1, <2>2, FollowsSame
<1>19. PICK h : h = hist
  OBVIOUS
<1>20. h = Those(s, Young(s, A[m].time - FlowWindow)) /\ h \in Seq(FlowType)
  BY <1>2, <1>9, <1>14, <1>19 DEF hist, Pruned, Young
<1>21. ASSUME NEW q \in PrincipalKeys PROVE Follows(CallsOf(q), Accesses, flows[q])'
  <2>1. CASE q = p
    <3>1. Follows(P \cup {m}, A, LastOf(Append(h, A[m]), FlowRoom))
      BY <1>4, <1>12, <1>13, <1>15, <1>18, <1>20, FollowStep
    <3>2. CallsOf(q)' = P \cup {m}
      BY <1>1, <1>4, <1>11, <2>1 DEF CallsOf
    <3>3. flows'[q] = LastOf(Append(h, A[m]), FlowRoom)
      <4>1. flows'[q] = FlowsWith(n)
        BY <1>1, <1>2, <2>1 DEF TelTypes
      <4>2. FlowsWith(n) = LastOf(Append(hist, Access(n)), FlowRoom)
        BY DEF FlowsWith, hist
      <4>. QED BY <1>9, <1>19, <4>1, <4>2
    <3>4. PICK Q : Q = P \cup {m}
      OBVIOUS
    <3>5. PICK u : u = LastOf(Append(h, A[m]), FlowRoom)
      OBVIOUS
    <3>6. Follows(Q, A, u)
      BY <3>1, <3>4, <3>5
    <3>7. CallsOf(q)' = Q /\ flows'[q] = u
      BY <3>2, <3>3, <3>4, <3>5
    <3>. QED BY <1>8, <3>6, <3>7 DEF Follows
  <2>2. CASE q # p
    <3>1. PICK Q : Q = CallsOf(q)
      OBVIOUS
    <3>2. PICK t : t = flows[q]
      OBVIOUS
    <3>3. Follows(Q, B, t)
      BY <1>6, <1>16, <3>1, <3>2 DEF FollowsInv
    <3>4. \A i \in Q : B[i] = A[i]
      BY <1>17, <3>1 DEF CallsOf
    <3>5. Follows(Q, A, t)
      BY <3>3, <3>4, FollowsSame
    <3>6. CallsOf(q)' = Q
      BY <1>1, <1>4, <2>2, <3>1 DEF CallsOf
    <3>7. flows'[q] = t
      BY <1>1, <2>2, <3>2 DEF TelTypes
    <3>. QED BY <1>8, <3>5, <3>6, <3>7 DEF Follows
  <2>. QED BY <2>1, <2>2
<1>22. ASSUME NEW k \in 1 .. Len(tracked) PROVE FlowFound(k)'
  <2>1. tracked'[k] = tracked[k] /\ seen' = seen /\ tracked[k] # n
    BY <1>1, <1>4, <1>7
  <2>2. tracked[k] \in flagged' <=> tracked[k] \in flagged
    BY <1>1, <2>1
  <2>3. IsPair(k)' <=> IsPair(k)
    BY <1>5, PairsStay
  <2>4. FlowFound(k)
    BY <1>6
  <2>. QED BY <2>1, <2>2, <2>3, <2>4 DEF FlowFound
<1> DEFINE c == seen[n].call
           G == {f \in FlowType : f.kind = "read" /\ f.session # c.session}
<1>23. IsShown(h, A[m].time, G) <=> IsAmong(P, A, A[m].time, G)
  <2>1. PICK g : g = G
    OBVIOUS
  <2> HIDE DEF G
  <2>2. m \in Nat /\ h = Those(s, Young(s, A[m].time - FlowWindow))
    BY <1>4, <1>20
  <2>3. IsShown(h, A[m].time, g) <=> IsAmong(P, A, A[m].time, g)
    BY <1>12, <1>13, <1>15, <1>18, <2>2, FollowShows
  <2>. QED BY <2>1, <2>3
<1>24. ASSUME Kind(c) = "exfil"
       PROVE  n \in flagged' <=> IsShown(h, A[m].time, G)
  <2>1. n \notin flagged
    BY <1>1 DEF ParticularsInv, TrackedInv
  <2>2. n \in flagged' <=> Suspicious(c, seen[n].time, h)
    BY <1>1, <1>19, <2>1
  <2>3. ToSet(h) \subseteq FlowType
    <3>1. \A i \in DOMAIN h : h[i] \in FlowType
      BY <1>20, ElementOfSeq, LenProperties
    <3>. QED BY <3>1 DEF ToSet
  <2>. QED BY <1>9, <1>24, <2>2, <2>3 DEF Suspicious, IsShown
<1>25. IsPair(m)' <=> IsAmong(P, A, A[m].time, G)
  <2>1. \A i \in 1 .. Len(tracked) : seen'[tracked'[i]] = seen[tracked[i]] /\ tracked'[i] = tracked[i]
    BY <1>1, <1>4
  <2>2. seen'[tracked'[m]] = seen[n] /\ seen[n].call.principal = p /\ m - 1 = Len(tracked)
    BY <1>1, <1>4
  <2>3. ASSUME NEW i \in 1 .. m - 1 PROVE Meanwhile(i, m)' = LaterIn(P, i)
    <3>1. \A k : k \in i + 1 .. m - 1 <=> k \in 1 .. Len(tracked) /\ k > i
      BY <1>4
    <3>2. \A k : k \in Meanwhile(i, m)' <=> k \in i + 1 .. m - 1 /\ seen'[tracked'[k]].call.principal = p
      BY <2>2 DEF Meanwhile
    <3>3. \A k : k \in LaterIn(P, i) <=> k \in 1 .. Len(tracked) /\ seen[tracked[k]].call.principal = p /\ k > i
      BY <1>11 DEF LaterIn, CallsOf
    <3>. QED BY <2>1, <3>1, <3>2, <3>3
  <2>4. \A i : i \in Recent(m)' <=> i \in P /\ Cardinality(LaterIn(P, i)) < FlowRoom
    <3>1. \A i : i \in P <=> i \in 1 .. m - 1 /\ seen'[tracked'[i]].call.principal = p
      BY <1>11, <2>1, <2>2 DEF CallsOf
    <3>2. \A i : i \in Recent(m)' <=> /\ i \in 1 .. m - 1 /\ seen'[tracked'[i]].call.principal = p
                                      /\ Cardinality(Meanwhile(i, m)') < FlowRoom
      BY <2>2 DEF Recent
    <3>. QED BY <2>3, <3>1, <3>2
  <2>5. ASSUME NEW i \in P
        PROVE  ReadElsewhere(tracked[i], tracked[m])' <=> A[i] \in G /\ A[m].time - A[i].time <= FlowWindow
    <3>1. i \in 1 .. Len(tracked) /\ seen[tracked[i]].call.principal = p
      BY <1>11 DEF CallsOf
    <3>2. A[i] = Access(tracked[i]) /\ A[i] \in FlowType /\ A[m].time = seen[n].time
      BY <1>9, <1>10, <3>1
    <3>3. /\ A[i].kind = Kind(seen[tracked[i]].call) /\ A[i].session = seen[tracked[i]].call.session
          /\ A[i].time = seen[tracked[i]].time
      BY <3>2 DEF Access
    <3>4. tracked'[i] = tracked[i] /\ tracked'[m] = n /\ seen' = seen
      BY <1>1, <1>4, <2>1, <3>1
    <3>5. ReadElsewhere(tracked[i], tracked[m])' <=> ReadElsewhere(tracked[i], n)
      BY <3>4 DEF ReadElsewhere
    <3>. QED BY <3>1, <3>2, <3>3, <3>5 DEF ReadElsewhere
  <2> HIDE DEF G
  <2>. QED BY <2>4, <2>5 DEF IsPair, IsAmong
<1>26. FlowFound(m)'
  <2>1. tracked'[m] = n /\ seen' = seen
    BY <1>1, <1>4
  <2> HIDE DEF G
  <2>. QED BY <1>23, <1>24, <1>25, <2>1 DEF FlowFound
<1>27. \A k \in 1 .. Len(tracked') : FlowFound(k)'
  BY <1>4, <1>22, <1>26
<1>. QED BY <1>21, <1>27 DEF FollowsInv

-------------------------------------------------------------------------------
(* The inductive invariant and its proof *)

TelInv == TelTypes /\ ParticularsInv /\ SuspicionsInv /\ ProvenanceInv /\ StatsInv /\ FoundInv

LEMMA TelBegins == ASSUME TelInit PROVE TelInv
<1>1. /\ telNow = 0 /\ seen = <<>> /\ jobs = {} /\ flagged = {} /\ tracked = <<>>
      /\ evaluating = [e \in Evaluations |-> [at |-> "idle"]]
      /\ flows = [p \in PrincipalKeys |-> <<>>]
      /\ ruleStats = [r \in RuleIDs |-> [e \in Figures |-> 0]]
      /\ samples = [s \in SeenSessions \cup {"global"} |-> <<>>]
  BY DEF TelInit, Figures
<1>2. /\ \A S : <<>> \in Seq(S)
      /\ Len(<<>>) = 0 /\ DOMAIN <<>> = {} /\ ToSet(<<>>) = {} /\ 1 .. 0 = {}
  BY DEF ToSet
<1>3. TelTypes
  <2>1. [at |-> "idle"] \in EvaluatingType
    BY DEF EvaluatingType
  <2>2. evaluating \in [Evaluations -> EvaluatingType] /\ ruleStats \in [RuleIDs -> [Figures -> Int]]
    BY <1>1, <2>1
  <2>3. flows \in [PrincipalKeys -> Seq(FlowType)] /\ samples \in [SeenSessions \cup {"global"} -> Seq(SampleType)]
    BY <1>1, <1>2
  <2>. QED BY <1>1, <1>2, <2>2, <2>3 DEF TelTypes
<1>4. JobsInv /\ TrackedInv
  BY <1>1, <1>2 DEF JobsInv, TrackedInv
<1>5. SamplesInv /\ FlowsInv
  BY <1>1, <1>2 DEF SamplesInv, FlowsInv
<1>6. SourcesInv
  <2>1. \A e \in Evaluations : evaluating[e].at # "evaluating"
    BY <1>1
  <2>. QED BY <2>1 DEF SourcesInv
<1>7. SuspicionsInv /\ ProvenanceInv
  BY <1>1, <1>2 DEF SuspicionsInv, ProvenanceInv
<1>8. StatsInv
  <2>1. \A r, e : LoggedOf(r, e) = {} /\ WaitingOf(r, e) = {}
    BY <1>1, <1>2 DEF LoggedOf, WaitingOf, RuleJobs
  <2>2. \A r \in RuleIDs, e \in Figures : ruleStats[r][e] = 0
    BY <1>1
  <2>3. Cardinality({}) = 0 /\ 0 - 0 = 0
    BY FS_EmptySet
  <2>. QED BY <2>1, <2>2, <2>3 DEF StatsInv
<1>9. FoundInv
  <2>1. \A p \in PrincipalKeys : flows[p] = <<>>
    BY <1>1
  <2>2. \A p : CallsOf(p) = {}
    BY <1>1, <1>2 DEF CallsOf
  <2>3. 0 .. 0 - 1 = {} /\ 0 <= FlowRoom
    <3>1. FlowRoom \in Nat
      BY TelemetryAssumption
    <3>. QED BY <3>1
  <2>4. \A A : Follows({}, A, <<>>)
    BY <1>2, <2>3 DEF Follows
  <2>5. FollowsInv
    BY <2>1, <2>2, <2>4 DEF FollowsInv
  <2>6. \A n \in 1 .. Len(tracked) : FlowFound(n)
    BY <1>1, <1>2
  <2>. QED BY <2>5, <2>6 DEF FoundInv
<1>. QED BY <1>3, <1>4, <1>5, <1>6, <1>7, <1>8, <1>9 DEF TelInv, ParticularsInv

(* The steps that run no goroutine of a rule or of a call leave its        *)
(* figures.                                                                *)
LEMMA RuleJobsStay ==
  ASSUME NEW j, j.does # "rule", jobs' = jobs \ {j} \/ jobs' = jobs \cup {j} \/ jobs' = jobs
  PROVE  RuleJobs' = RuleJobs
<1>1. {k \in jobs' : k.does = "rule"} = {k \in jobs : k.does = "rule"}
  OBVIOUS
<1>. QED BY <1>1 DEF RuleJobs

LEMMA RestStays ==
  ASSUME TelInv, UNCHANGED <<seen, flows, flagged, tracked, ruleStats>>, RuleJobs' = RuleJobs
  PROVE  SuspicionsInv' /\ ProvenanceInv' /\ StatsInv' /\ FoundInv'
<1>1. SeenGrows
  BY SeenStays DEF TelInv
<1>2. SuspicionsInv' /\ ProvenanceInv' /\ StatsInv'
  BY <1>1, SuspicionsStay, ProvenanceStays, StatsStay DEF TelInv, ParticularsInv
<1>3. FoundInv'
  BY <1>1, FoundStays DEF TelInv, ParticularsInv
<1>. QED BY <1>2, <1>3

LEMMA TelTickKeeps == ASSUME TelInv, TelTick PROVE TelInv'
<1>1. /\ telNow' = telNow + 1
      /\ UNCHANGED <<evaluating, seen, jobs, flows, flagged, tracked, ruleStats, samples>>
  BY DEF TelTick
<1>2. TelTypes'
  BY <1>1 DEF TelInv, TelTypes
<1>3. SeenGrows
  BY <1>1, SeenStays DEF TelInv
<1>4. JobsInv'
  BY <1>1, <1>3, KnownStays DEF TelInv, ParticularsInv, JobsInv
<1>5. SamplesInv' /\ SourcesInv' /\ FlowsInv'
  BY <1>1, <1>3, SamplesStay, SourcesStay, FlowsStay DEF TelInv, ParticularsInv
<1>6. TrackedInv'
  <2>1. \A j \in jobs' : j \in jobs \/ j.does # "access" \/ j.of \notin 1 .. Len(seen)
    BY <1>1
  <2>. QED BY <1>1, <1>3, <2>1, TrackedStays DEF TelInv, ParticularsInv
<1>7. RuleJobs' = RuleJobs
  BY <1>1 DEF RuleJobs
<1>8. SuspicionsInv' /\ ProvenanceInv' /\ StatsInv' /\ FoundInv'
  BY <1>1, <1>7, RestStays
<1>. QED BY <1>2, <1>4, <1>5, <1>6, <1>8 DEF TelInv, ParticularsInv

LEMMA TelBeginKeeps ==
  ASSUME TelInv, NEW e \in Evaluations, NEW c \in SeenCalls, BeginSeen(e, c)
  PROVE  TelInv'
<1>1. UNCHANGED <<seen, jobs, flows, flagged, tracked, ruleStats>>
  BY DEF BeginSeen
<1>2. TelTypes' /\ ParticularsInv'
  BY BeginSeenKeeps DEF TelInv
<1>3. RuleJobs' = RuleJobs
  BY <1>1 DEF RuleJobs
<1>. QED BY <1>1, <1>2, <1>3, RestStays DEF TelInv

LEMMA TelDecideKeeps ==
  ASSUME TelInv, NEW e \in Evaluations, NEW logged \in BOOLEAN, DecideSeen(e, logged)
  PROVE  TelInv'
<1>1. UNCHANGED <<flows, flagged, tracked, ruleStats>>
  BY DEF DecideSeen
<1>2. TelTypes' /\ ParticularsInv'
  BY DecideSeenKeeps DEF TelInv
<1>3. SeenGrows
  <2> DEFINE v == [call |-> evaluating[e].call, time |-> evaluating[e].time, from |-> evaluating[e].from,
                   logged |-> logged]
  <2>1. seen' = Append(seen, v) /\ evaluating[e].at = "evaluating"
    BY DEF DecideSeen
  <2>2. evaluating[e] \in [at : {"evaluating"}, call : SeenCalls, time : Nat, from : Nat]
    BY <2>1 DEF TelInv, TelTypes, EvaluatingType
  <2>3. v \in SeenType
    BY <2>2 DEF SeenType
  <2> HIDE DEF v
  <2>4. /\ Len(seen) \in Nat /\ Len(seen') = Len(seen) + 1
        /\ \A k \in 1 .. Len(seen) : seen'[k] = seen[k]
    BY <2>1, <2>3, AppendedTo DEF TelInv, TelTypes
  <2>. QED BY <2>4 DEF SeenGrows
<1>4. SuspicionsInv'
  BY <1>1, <1>3, SuspicionsStay DEF TelInv, ParticularsInv
<1>5. FoundInv'
  BY <1>1, <1>3, FoundStays DEF TelInv, ParticularsInv
<1>6. ProvenanceInv'
  BY ProvenanceStep DEF TelInv
<1>7. StatsInv'
  <2>1. PICK n : n = Len(seen) + 1
    OBVIOUS
  <2>. QED BY <1>2, <2>1, DecidedStats DEF TelInv
<1>. QED BY <1>2, <1>4, <1>5, <1>6, <1>7 DEF TelInv

LEMMA ScanKeeps ==
  ASSUME TelInv, NEW text \in DOMAIN TextSize, ScanSeen(text)
  PROVE  TelInv'
<1> DEFINE j0 == [does |-> "output", of |-> 0, text |-> text]
<1>1. UNCHANGED <<seen, flows, flagged, tracked, ruleStats>> /\ jobs' = jobs \cup {j0}
  BY DEF ScanSeen
<1>2. TelTypes' /\ ParticularsInv'
  BY ScanSeenKeeps DEF TelInv, OutputTexts
<1>3. RuleJobs' = RuleJobs
  <2>1. j0.does # "rule"
    OBVIOUS
  <2> HIDE DEF j0
  <2>. QED BY <1>1, <2>1, RuleJobsStay
<1>. QED BY <1>1, <1>2, <1>3, RestStays DEF TelInv

LEMMA RunKeeps ==
  ASSUME TelInv, NEW j \in jobs, RunJob(j)
  PROVE  TelInv'
<1>1. jobs' = jobs \ {j} /\ seen' = seen /\ (NoteOutput(j) \/ NoteAccess(j) \/ NoteRule(j))
  BY DEF RunJob
<1>2. CASE NoteOutput(j)
  <2>1. TelTypes' /\ ParticularsInv'
    BY <1>2, NoteOutputKeeps DEF TelInv
  <2>2. j.does # "rule" /\ UNCHANGED <<flows, flagged, tracked, ruleStats>>
    BY <1>2 DEF NoteOutput
  <2>3. RuleJobs' = RuleJobs
    BY <1>1, <2>2, RuleJobsStay
  <2>. QED BY <1>1, <2>1, <2>2, <2>3, RestStays DEF TelInv
<1>3. CASE NoteAccess(j)
  <2>1. TelTypes' /\ ParticularsInv'
    BY <1>3, NoteAccessKeeps DEF TelInv
  <2>2. SuspicionsInv'
    BY <1>3, SuspicionStep DEF TelInv
  <2>3. FoundInv'
    <3>1. PICK n : n = j.of
      OBVIOUS
    <3>2. PICK p : p = seen[n].call.principal
      OBVIOUS
    <3>3. PICK m : m = Len(tracked) + 1
      OBVIOUS
    <3>. QED BY <1>3, <3>1, <3>2, <3>3, FoundStep DEF TelInv
  <2>4. j.does # "rule" /\ ruleStats' = ruleStats
    BY <1>3 DEF NoteAccess
  <2>5. RuleJobs' = RuleJobs
    BY <1>1, <2>4, RuleJobsStay
  <2>6. ProvenanceInv' /\ StatsInv'
    BY <1>1, <2>4, <2>5, ProvenanceStays, StatsStay DEF TelInv
  <2>. QED BY <2>1, <2>2, <2>3, <2>6 DEF TelInv
<1>4. CASE NoteRule(j)
  <2>1. TelTypes' /\ ParticularsInv'
    BY <1>4, NoteRuleKeeps DEF TelInv
  <2>2. UNCHANGED <<flows, flagged, tracked>>
    BY <1>4 DEF NoteRule
  <2>3. SeenGrows
    BY <1>1, SeenStays DEF TelInv
  <2>4. SuspicionsInv' /\ ProvenanceInv'
    BY <1>1, <2>2, <2>3, SuspicionsStay, ProvenanceStays DEF TelInv, ParticularsInv
  <2>5. FoundInv'
    BY <2>2, <2>3, FoundStays DEF TelInv, ParticularsInv
  <2>6. StatsInv'
    BY <1>4, <2>1, NoteRuleStats DEF TelInv
  <2>. QED BY <2>1, <2>4, <2>5, <2>6 DEF TelInv
<1>. QED BY <1>1, <1>2, <1>3, <1>4

LEMMA TelStep == ASSUME TelInv, [TelNext]_telVars PROVE TelInv'
<1>1. CASE TelNext
  <2>1. CASE TelTick
    BY <2>1, TelTickKeeps
  <2>2. CASE \E e \in Evaluations : \E c \in SeenCalls : BeginSeen(e, c)
    BY <2>2, TelBeginKeeps
  <2>3. CASE \E e \in Evaluations : \E logged \in BOOLEAN : DecideSeen(e, logged)
    BY <2>3, TelDecideKeeps
  <2>4. CASE \E t \in DOMAIN TextSize : ScanSeen(t)
    BY <2>4, ScanKeeps
  <2>5. CASE \E j \in jobs : RunJob(j)
    BY <2>5, RunKeeps
  <2>. QED BY <1>1, <2>1, <2>2, <2>3, <2>4, <2>5 DEF TelNext
<1>2. CASE UNCHANGED telVars
  <2>1. UNCHANGED <<telNow, evaluating, seen, jobs, flows, flagged, tracked, ruleStats, samples>>
    BY <1>2 DEF telVars
  <2>2. RuleJobs' = RuleJobs
    BY <2>1 DEF RuleJobs
  <2>3. SuspicionsInv' /\ ProvenanceInv' /\ StatsInv' /\ FoundInv'
    BY <2>1, <2>2, RestStays
  <2>4. SeenGrows
    BY <2>1, SeenStays DEF TelInv
  <2>5. TelTypes'
    BY <2>1 DEF TelInv, TelTypes
  <2>6. JobsInv'
    BY <2>1, <2>4, KnownStays DEF TelInv, ParticularsInv, JobsInv
  <2>7. SamplesInv' /\ SourcesInv' /\ FlowsInv'
    BY <2>1, <2>4, SamplesStay, SourcesStay, FlowsStay DEF TelInv, ParticularsInv
  <2>8. TrackedInv'
    <3>1. \A j \in jobs' : j \in jobs \/ j.does # "access" \/ j.of \notin 1 .. Len(seen)
      BY <2>1
    <3>. QED BY <2>1, <2>4, <3>1, TrackedStays DEF TelInv, ParticularsInv
  <2>. QED BY <2>3, <2>5, <2>6, <2>7, <2>8 DEF TelInv, ParticularsInv
<1>. QED BY <1>1, <1>2

LEMMA TelIsSafe == ASSUME TelInv PROVE TelemetryHolds
<1>1. SuspicionsAreReal
  BY DEF TelInv, SuspicionsInv, SuspicionsAreReal
<1>2. PairsInOrderAreFound
  BY FoundIsFound DEF TelInv
<1>3. StatsAgree
  BY StatsAreFigures DEF TelInv
<1>4. ProvenanceIsSeen
  <2>1. DOMAIN seen = 1 .. Len(seen)
    BY LenProperties DEF TelInv, TelTypes
  <2>. QED BY <2>1 DEF TelInv, ProvenanceInv, IsSource, ProvenanceIsSeen
<1>. QED BY <1>1, <1>2, <1>3, <1>4 DEF TelemetryHolds

(* What the decisions leave for analysis is true of them: what is flagged  *)
(* was a read and an exfiltration of one principal, none within the        *)
(* tracker's memory is missed where the goroutines ran in order, no update *)
(* of a rule's figures is lost, and what an argument is traced to did      *)
(* leave a text the argument contains. For any number of calls.            *)
THEOREM TelemetryIsTrue == TelSpec => []TelemetryHolds
<1>1. TelInit => TelInv
  BY TelBegins
<1>2. TelInv /\ [TelNext]_telVars => TelInv'
  BY TelStep
<1>3. TelInv => TelemetryHolds
  BY TelIsSafe
<1>. QED BY <1>1, <1>2, <1>3, PTL DEF TelSpec

-------------------------------------------------------------------------------
(* The tools of a sequence, found along the calls *)

(* The calls up to the i-th hold the first j tools in order, at f.         *)
Embeds(f, past, tools, j) ==
    /\ \A x, y \in 1 .. j : x < y => f[x] < f[y]
    /\ \A x \in 1 .. j : MatchesTool(tools[x], past[f[x]].tool)
Holds(past, tools, i, j) == \E f \in [1 .. j -> 1 .. i] : Embeds(f, past, tools, j)

LEMMA HoldsMore ==
  ASSUME NEW past, NEW tools, NEW i \in Nat, NEW j \in Nat, Holds(past, tools, i, j)
  PROVE  /\ Holds(past, tools, i + 1, j)
         /\ MatchesTool(tools[j + 1], past[i + 1].tool) => Holds(past, tools, i + 1, j + 1)
<1>1. PICK f \in [1 .. j -> 1 .. i] : Embeds(f, past, tools, j)
  BY DEF Holds
<1>2. \A x \in 1 .. j : f[x] \in 1 .. i /\ f[x] \in 1 .. i + 1 /\ f[x] < i + 1
  <2>1. \A y \in 1 .. i : y \in 1 .. i + 1 /\ y < i + 1
    OBVIOUS
  <2>. QED BY <2>1
<1>3. Holds(past, tools, i + 1, j)
  <2>1. f \in [1 .. j -> 1 .. i + 1]
    BY <1>2
  <2>. QED BY <1>1, <2>1 DEF Holds
<1>4. ASSUME MatchesTool(tools[j + 1], past[i + 1].tool) PROVE Holds(past, tools, i + 1, j + 1)
  <2> DEFINE g == [x \in 1 .. j + 1 |-> IF x = j + 1 THEN i + 1 ELSE f[x]]
  <2>1. \A x \in 1 .. j + 1 : x = j + 1 \/ (x \in 1 .. j /\ x # j + 1)
    OBVIOUS
  <2>2. g[j + 1] = i + 1 /\ \A x \in 1 .. j : g[x] = f[x]
    OBVIOUS
  <2>3. g \in [1 .. j + 1 -> 1 .. i + 1]
    BY <1>2, <2>1
  <2> HIDE DEF g
  <2>4. ASSUME NEW x \in 1 .. j + 1, NEW y \in 1 .. j + 1, x < y PROVE g[x] < g[y]
    <3>1. x \in 1 .. j
      BY <2>4
    <3>2. CASE y = j + 1
      BY <1>2, <2>2, <3>1, <3>2
    <3>3. CASE y # j + 1
      BY <1>1, <2>1, <2>2, <2>4, <3>1, <3>3 DEF Embeds
    <3>. QED BY <3>2, <3>3
  <2>5. ASSUME NEW x \in 1 .. j + 1 PROVE MatchesTool(tools[x], past[g[x]].tool)
    BY <1>1, <1>4, <2>1, <2>2 DEF Embeds
  <2>. QED BY <2>3, <2>4, <2>5 DEF Holds, Embeds
<1>. QED BY <1>3, <1>4

(* The last of the tools is at the last call, or all are before it.         *)
LEMMA HoldsLess ==
  ASSUME NEW past, NEW tools, NEW i \in Nat, NEW j \in Nat, Holds(past, tools, i + 1, j + 1)
  PROVE  /\ Holds(past, tools, i, j)
         /\ Holds(past, tools, i, j + 1) \/ MatchesTool(tools[j + 1], past[i + 1].tool)
<1>1. PICK f \in [1 .. j + 1 -> 1 .. i + 1] : Embeds(f, past, tools, j + 1)
  BY DEF Holds
<1>2. j + 1 \in 1 .. j + 1 /\ \A x \in 1 .. j : x \in 1 .. j + 1 /\ x < j + 1
  OBVIOUS
<1>3. \A x \in 1 .. j : f[x] \in 1 .. i
  <2>1. \A x \in 1 .. j : f[x] \in 1 .. i + 1 /\ f[j + 1] \in 1 .. i + 1 /\ f[x] < f[j + 1]
    BY <1>1, <1>2 DEF Embeds
  <2>2. \A a, b \in 1 .. i + 1 : a < b => a \in 1 .. i
    OBVIOUS
  <2>. QED BY <2>1, <2>2
<1>4. Holds(past, tools, i, j)
  <2> DEFINE g == [x \in 1 .. j |-> f[x]]
  <2>1. g \in [1 .. j -> 1 .. i] /\ \A x \in 1 .. j : g[x] = f[x]
    BY <1>3
  <2> HIDE DEF g
  <2>. QED BY <1>1, <1>2, <2>1 DEF Holds, Embeds
<1>5. CASE f[j + 1] = i + 1
  BY <1>1, <1>2, <1>4, <1>5 DEF Embeds
<1>6. CASE f[j + 1] # i + 1
  <2>1. f[j + 1] \in 1 .. i
    BY <1>2, <1>6
  <2>2. \A x \in 1 .. j + 1 : x \in 1 .. j \/ x = j + 1
    OBVIOUS
  <2>3. f \in [1 .. j + 1 -> 1 .. i]
    BY <1>3, <2>1, <2>2
  <2>. QED BY <1>1, <1>4, <2>3 DEF Holds
<1>. QED BY <1>5, <1>6

NextOf(past, tools, k, n) ==
    IF k <= Len(tools) /\ MatchesTool(tools[k], past[n].tool) THEN k + 1 ELSE k

LEMMA NextToolSteps ==
  ASSUME NEW past, NEW tools, Len(past) \in Nat
  PROVE  \E F \in [0 .. Len(past) -> Nat] :
            /\ F[0] = 1 /\ \A n \in 1 .. Len(past) : F[n] = NextOf(past, tools, F[n - 1], n)
            /\ NextTool(past, tools) = F[Len(past)]
<1> DEFINE m == Len(past)
           step == [p \in (1 .. m) \X Nat |-> NextOf(past, tools, p[2], p[1])]
           Is(g) == g = [n \in 0 .. m |-> IF n = 0 THEN 1
                                          ELSE IF g[n - 1] <= Len(tools) /\ MatchesTool(tools[g[n - 1]], past[n].tool)
                                               THEN g[n - 1] + 1 ELSE g[n - 1]]
           c == CHOOSE g : Is(g)
<1>1. \A k \in Nat, n \in 1 .. m : NextOf(past, tools, k, n) \in Nat
  BY DEF NextOf
<1>2. step \in [(1 .. m) \X Nat -> Nat]
  BY <1>1
<1>3. PICK F \in [0 .. m -> Nat] : Recurs(F, m, 1, step)
  <2> HIDE DEF step
  <2>. QED BY <1>2, NumberRecursion
<1>4. F[0] = 1 /\ \A n \in 1 .. m : n - 1 \in 0 .. m /\ F[n] = NextOf(past, tools, F[n - 1], n)
  <2>1. \A n \in 1 .. m : n - 1 \in 0 .. m
    OBVIOUS
  <2>2. ASSUME NEW n \in 1 .. m PROVE F[n] = NextOf(past, tools, F[n - 1], n)
    <3>1. F[n] = step[<<n, F[n - 1]>>]
      <4> HIDE DEF step
      <4>. QED BY <1>3 DEF Recurs
    <3>2. <<n, F[n - 1]>> \in (1 .. m) \X Nat
      BY <2>1
    <3>. QED BY <3>1, <3>2
  <2>3. F[0] = 1
    BY <1>3 DEF Recurs
  <2>. QED BY <2>1, <2>2, <2>3
<1>5. Is(F)
  <2>1. \A n \in 0 .. m : n = 0 \/ n \in 1 .. m
    OBVIOUS
  <2>2. \A n \in 0 .. m : F[n] = IF n = 0 THEN 1
                                 ELSE IF F[n - 1] <= Len(tools) /\ MatchesTool(tools[F[n - 1]], past[n].tool)
                                      THEN F[n - 1] + 1 ELSE F[n - 1]
    BY <1>4, <2>1 DEF NextOf
  <2>. QED BY <2>2
<1>6. Is(c)
  <2> HIDE DEF Is
  <2>. QED BY <1>5
<1>7. NextTool(past, tools) = c[m]
  BY DEF NextTool
<1> DEFINE A == {n \in 0 .. m : c[n] = F[n]}
<1>8. 0 \in A
  <2>1. 0 \in 0 .. m
    OBVIOUS
  <2>2. c[0] = 1
    <3> HIDE DEF c
    <3>. QED BY <1>6, <2>1
  <2> HIDE DEF c
  <2>. QED BY <1>4, <2>1, <2>2
<1>9. ASSUME NEW n \in 0 .. m - 1, n \in A PROVE n + 1 \in A
  <2> HIDE DEF c
  <2>1. n + 1 \in 1 .. m /\ n + 1 \in 0 .. m /\ n + 1 # 0 /\ (n + 1) - 1 = n
    OBVIOUS
  <2>2. c[n + 1] = IF c[n] <= Len(tools) /\ MatchesTool(tools[c[n]], past[n + 1].tool) THEN c[n] + 1 ELSE c[n]
    BY <1>6, <2>1
  <2>3. F[n + 1] = NextOf(past, tools, F[n], n + 1)
    BY <1>4, <2>1
  <2>. QED BY <1>9, <2>1, <2>2, <2>3 DEF NextOf
<1>10. m \in A
  <2> HIDE DEF A, c
  <2>1. \A n \in 0 .. m : n \in A
    BY <1>8, <1>9, IntervalInduction
  <2>. QED BY <2>1
<1>. QED BY <1>4, <1>7, <1>10

(* The index of the tool that is next tells how many there are.            *)
LEMMA NextToolCounts ==
  ASSUME NEW past, NEW tools, Len(past) \in Nat, Len(tools) \in Nat
  PROVE  NextTool(past, tools) = Len(tools) + 1 <=> Holds(past, tools, Len(past), Len(tools))
<1> DEFINE m == Len(tools)
           n == Len(past)
<1>1. PICK F \in [0 .. n -> Nat] :
            /\ F[0] = 1 /\ \A i \in 1 .. n : F[i] = NextOf(past, tools, F[i - 1], i)
            /\ NextTool(past, tools) = F[n]
  BY NextToolSteps
<1> HIDE DEF n
<1> DEFINE Is(i) == /\ F[i] \in 1 .. m + 1 /\ Holds(past, tools, i, F[i] - 1)
                    /\ \A j \in 0 .. m : Holds(past, tools, i, j) => j < F[i]
           A == {i \in 0 .. n : Is(i)}
<1>2. n \in Nat /\ m \in Nat
  BY DEF n
<1>3. 0 \in A
  <2>1. 1 .. 0 = {} /\ [x \in {} |-> 1] \in [1 .. 0 -> 1 .. 0]
    OBVIOUS
  <2>2. Holds(past, tools, 0, 0)
    BY <2>1 DEF Holds, Embeds
  <2>3. ASSUME NEW j \in 0 .. m, Holds(past, tools, 0, j) PROVE j < 1
    <3> SUFFICES ASSUME ~(j < 1) PROVE FALSE
      OBVIOUS
    <3>1. 1 \in 1 .. j
      BY <1>2
    <3>2. PICK f \in [1 .. j -> 1 .. 0] : TRUE
      BY <2>3 DEF Holds
    <3>3. f[1] \in 1 .. 0
      BY <3>1
    <3>. QED BY <3>3
  <2>. QED BY <1>1, <1>2, <2>2, <2>3
<1>4. ASSUME NEW i \in 0 .. n - 1, i \in A PROVE i + 1 \in A
  <2>1. i + 1 \in 1 .. n /\ i + 1 \in 0 .. n /\ (i + 1) - 1 = i /\ i \in Nat
    BY <1>2
  <2>2. F[i + 1] = NextOf(past, tools, F[i], i + 1)
    BY <1>1, <2>1
  <2>3. /\ F[i] \in 1 .. m + 1 /\ Holds(past, tools, i, F[i] - 1) /\ F[i] - 1 \in Nat /\ F[i] - 1 + 1 = F[i]
        /\ \A j \in 0 .. m : Holds(past, tools, i, j) => j < F[i]
    BY <1>2, <1>4
  <2>4. CASE F[i] <= m /\ MatchesTool(tools[F[i]], past[i + 1].tool)
    <3>1. F[i + 1] = F[i] + 1 /\ F[i + 1] \in 1 .. m + 1 /\ F[i + 1] - 1 = F[i]
      <4>1. F[i + 1] = F[i] + 1
        BY <2>2, <2>4 DEF NextOf
      <4>2. F[i] \in Nat /\ F[i] <= m /\ m \in Nat
        BY <1>2, <2>3, <2>4
      <4>. QED BY <4>1, <4>2
    <3>2. Holds(past, tools, i + 1, F[i])
      <4>1. PICK k \in Nat : k = F[i] - 1 /\ k + 1 = F[i]
        BY <2>3
      <4>. QED BY <2>1, <2>3, <2>4, <4>1, HoldsMore
    <3>3. ASSUME NEW j \in 0 .. m, Holds(past, tools, i + 1, j) PROVE j < F[i + 1]
      <4>1. CASE j = 0
        BY <2>3, <3>1, <4>1
      <4>2. CASE j # 0
        <5>1. PICK k \in Nat : k + 1 = j
          <6>1. j - 1 \in Nat /\ j - 1 + 1 = j
            BY <1>2, <4>2
          <6>. QED BY <6>1
        <5>2. Holds(past, tools, i, k)
          BY <2>1, <3>3, <5>1, HoldsLess
        <5>3. k < F[i]
          BY <1>2, <2>3, <5>1, <5>2
        <5>. QED BY <2>3, <3>1, <5>1, <5>3
      <4>. QED BY <4>1, <4>2
    <3>. QED BY <2>1, <3>1, <3>2, <3>3
  <2>5. CASE ~(F[i] <= m /\ MatchesTool(tools[F[i]], past[i + 1].tool))
    <3>1. F[i + 1] = F[i]
      BY <2>2, <2>5 DEF NextOf
    <3>2. Holds(past, tools, i + 1, F[i] - 1)
      BY <2>1, <2>3, HoldsMore
    <3>3. ASSUME NEW j \in 0 .. m, Holds(past, tools, i + 1, j) PROVE j < F[i]
      <4>1. CASE j = 0
        BY <2>3, <4>1
      <4>2. CASE j # 0
        <5>1. PICK k \in Nat : k + 1 = j
          <6>1. j - 1 \in Nat /\ j - 1 + 1 = j
            BY <1>2, <4>2
          <6>. QED BY <6>1
        <5>2. Holds(past, tools, i, k) /\ (Holds(past, tools, i, j) \/ MatchesTool(tools[j], past[i + 1].tool))
          BY <2>1, <3>3, <5>1, HoldsLess
        <5>3. k < F[i]
          BY <1>2, <2>3, <5>1, <5>2
        <5>4. CASE Holds(past, tools, i, j)
          BY <2>3, <5>4
        <5>5. CASE MatchesTool(tools[j], past[i + 1].tool)
          <6>1. j # F[i]
            BY <1>2, <2>5, <5>5
          <6>. QED BY <1>2, <2>3, <5>1, <5>3, <6>1
        <5>. QED BY <5>2, <5>4, <5>5
      <4>. QED BY <4>1, <4>2
    <3>. QED BY <2>1, <2>3, <3>1, <3>2, <3>3
  <2>. QED BY <2>4, <2>5
<1>5. n \in A
  <2> HIDE DEF A
  <2>1. \A i \in 0 .. n : i \in A
    BY <1>2, <1>3, <1>4, IntervalInduction
  <2>. QED BY <1>2, <2>1
<1>6. /\ F[n] \in 1 .. m + 1 /\ Holds(past, tools, n, F[n] - 1)
      /\ (Holds(past, tools, n, m) => m < F[n])
  BY <1>2, <1>5
<1>7. ASSUME F[n] = m + 1 PROVE Holds(past, tools, n, m)
  <2>1. F[n] - 1 = m
    BY <1>2, <1>7
  <2>. QED BY <1>6, <2>1
<1>8. ASSUME Holds(past, tools, n, m) PROVE F[n] = m + 1
  BY <1>2, <1>6, <1>8
<1>. QED BY <1>1, <1>7, <1>8 DEF n

-------------------------------------------------------------------------------
(* The inductive invariant *)

(* A result is of some function its registry has had, of arguments with    *)
(* that key, and not of the future.                                        *)
EntryInv(g, k, entry) ==
    /\ entry.version \in 1 .. functions[g].version /\ ArgKey[entry.args] = k
    /\ entry.at \in Nat /\ entry.at <= condNow
ResultsInv ==
    /\ functions = [g \in Registries |-> functions[g]]
    /\ results = [g \in Registries |-> results[g]]
    /\ condNow \in Nat
    /\ \A g \in Registries : functions[g].version \in Nat
    /\ \A g \in Registries : \A k \in DOMAIN results[g] : EntryInv(g, k, results[g][k])

AskingInv(c) ==
    /\ c.registry \in Registries /\ c.fn.version \in 1 .. functions[c.registry].version
DoneInv(c) ==
    /\ c.registry \in Registries
    /\ \/ c.of = (IF c.registry = "operator" THEN <<"panic">> ELSE <<"nil">>) /\ c.since = c.now
       \/ /\ c.of[1] \in 1 .. functions[c.registry].version
          /\ c.now - c.since <= ResultTTL
          /\ ArgKey[c.of[2]] = ArgKey[c.args]
EvaluatorsInv ==
    /\ evaluator = [e \in Evaluators |-> evaluator[e]]
    /\ \A e \in Evaluators : /\ evaluator[e].at \in {"idle", "cache", "runs", "done"}
                             /\ evaluator[e].at \in {"cache", "runs"} => AskingInv(evaluator[e])
                             /\ evaluator[e].at = "done" => DoneInv(evaluator[e])

CallType == [tool : HistoryTools, effect : {"PERMIT", "DENY"}, age : Int]
CondInv == ResultsInv /\ EvaluatorsInv /\ history \in Seq(CallType)

(* Registered functions are never fewer.                                   *)
LEMMA VersionsGrow ==
  ASSUME ResultsInv, EvaluatorsInv, evaluator' = evaluator,
         \A g \in Registries : functions'[g].version \in Nat /\ functions[g].version <= functions'[g].version
  PROVE  EvaluatorsInv'
<1>1. \A g \in Registries : \A v \in 1 .. functions[g].version : v \in 1 .. functions'[g].version
  BY DEF ResultsInv
<1>2. ASSUME NEW e \in Evaluators, evaluator[e].at \in {"cache", "runs"}
      PROVE  \A c : c = evaluator[e] => AskingInv(c)'
  BY <1>1, <1>2 DEF EvaluatorsInv, AskingInv
<1>3. ASSUME NEW e \in Evaluators, evaluator[e].at = "done"
      PROVE  \A c : c = evaluator[e] => DoneInv(c)'
  <2>1. DoneInv(evaluator[e])
    BY <1>3 DEF EvaluatorsInv
  <2>. QED BY <1>1, <2>1 DEF DoneInv
<1>4. \A e \in Evaluators : /\ evaluator[e].at \in {"cache", "runs"} => AskingInv(evaluator[e])'
                            /\ evaluator[e].at = "done" => DoneInv(evaluator[e])'
  <2>1. \A e \in Evaluators : evaluator[e].at \in {"cache", "runs"} => AskingInv(evaluator[e])'
    BY <1>2 DEF AskingInv
  <2>2. \A e \in Evaluators : evaluator[e].at = "done" => DoneInv(evaluator[e])'
    BY <1>3 DEF DoneInv
  <2>. QED BY <2>1, <2>2
<1>. QED BY <1>4 DEF EvaluatorsInv, AskingInv, DoneInv

LEMMA ResultsStay ==
  ASSUME ResultsInv, UNCHANGED <<functions, results>>, condNow' \in Nat, condNow <= condNow'
  PROVE  ResultsInv'
<1>1. ASSUME NEW g \in Registries, NEW k \in DOMAIN results[g]
      PROVE  results[g][k].at \in Nat /\ results[g][k].at <= condNow'
  BY DEF ResultsInv, EntryInv
<1>. QED BY <1>1 DEF ResultsInv, EntryInv

(* One evaluator's turn.                                                   *)
LEMMA EvaluatorTurn ==
  ASSUME EvaluatorsInv, functions' = functions, NEW e \in Evaluators, NEW c,
         evaluator' = [evaluator EXCEPT ![e] = c],
         c.at \in {"idle", "cache", "runs", "done"},
         c.at \in {"cache", "runs"} => AskingInv(c), c.at = "done" => DoneInv(c)
  PROVE  EvaluatorsInv'
<1>1. evaluator'[e] = c /\ \A d \in Evaluators \ {e} : evaluator'[d] = evaluator[d]
  BY DEF EvaluatorsInv
<1>2. evaluator' = [d \in Evaluators |-> evaluator'[d]]
  BY DEF EvaluatorsInv
<1>3. \A d : AskingInv(d)' <=> AskingInv(d)
  BY DEF AskingInv
<1>4. \A d : DoneInv(d)' <=> DoneInv(d)
  BY DEF DoneInv
<1>5. ASSUME NEW d \in Evaluators
      PROVE  /\ evaluator'[d].at \in {"idle", "cache", "runs", "done"}
             /\ evaluator'[d].at \in {"cache", "runs"} => AskingInv(evaluator'[d])
             /\ evaluator'[d].at = "done" => DoneInv(evaluator'[d])
  <2>1. CASE d = e
    BY <1>1, <2>1
  <2>2. CASE d # e
    BY <1>1, <2>2 DEF EvaluatorsInv
  <2>. QED BY <2>1, <2>2
<1>6. \A d \in Evaluators :
             /\ evaluator'[d].at \in {"idle", "cache", "runs", "done"}
             /\ evaluator'[d].at \in {"cache", "runs"} => \A c0 : c0 = evaluator'[d] => AskingInv(c0)'
             /\ evaluator'[d].at = "done" => \A c0 : c0 = evaluator'[d] => DoneInv(c0)'
  BY <1>3, <1>4, <1>5
<1>. QED BY <1>2, <1>6 DEF EvaluatorsInv, AskingInv, DoneInv

LEMMA FunctionKeeps ==
  ASSUME CondInv, NEW g \in Registries, NEW cached \in BOOLEAN, RegisterFunction(g, cached)
  PROVE  CondInv'
<1>1. /\ functions' = [functions EXCEPT ![g] = [version |-> functions[g].version + 1, cached |-> cached]]
      /\ UNCHANGED <<condNow, results, evaluator, history>>
  BY DEF RegisterFunction
<1>2. \A h \in Registries : functions'[h].version \in Nat /\ functions[h].version <= functions'[h].version
  BY <1>1 DEF CondInv, ResultsInv
<1>3. \A h \in Registries : \A v \in 1 .. functions[h].version : v \in 1 .. functions'[h].version
  BY <1>2 DEF CondInv, ResultsInv
<1>4. functions' = [h \in Registries |-> functions'[h]]
  BY <1>1 DEF CondInv, ResultsInv
<1>5. \A h \in Registries : \A k \in DOMAIN results[h] : results[h][k].version \in 1 .. functions'[h].version
  BY <1>3 DEF CondInv, ResultsInv, EntryInv
<1>6. ResultsInv'
  BY <1>1, <1>2, <1>4, <1>5 DEF CondInv, ResultsInv, EntryInv
<1>7. EvaluatorsInv'
  BY <1>1, <1>2, VersionsGrow DEF CondInv
<1>. QED BY <1>1, <1>6, <1>7 DEF CondInv

LEMMA ClearKeeps ==
  ASSUME CondInv, NEW g \in Registries, ClearResults(g)
  PROVE  CondInv'
<1>1. results' = [results EXCEPT ![g] = <<>>] /\ UNCHANGED <<condNow, functions, evaluator, history>>
  BY DEF ClearResults
<1>2. DOMAIN <<>> = {}
  OBVIOUS
<1>3. results' = [h \in Registries |-> results'[h]] /\ \A h \in Registries : h = g \/ results'[h] = results[h]
  BY <1>1 DEF CondInv, ResultsInv
<1>4. results'[g] = <<>>
  BY <1>1 DEF CondInv, ResultsInv
<1>5. \A h \in Registries : \A k \in DOMAIN results'[h] : results'[h] = results[h]
  BY <1>2, <1>3, <1>4
<1>6. ResultsInv'
  BY <1>1, <1>3, <1>5 DEF CondInv, ResultsInv, EntryInv
<1>7. EvaluatorsInv'
  BY <1>1, VersionsGrow DEF CondInv, ResultsInv
<1>. QED BY <1>1, <1>6, <1>7 DEF CondInv

LEMMA ConditionLooksUp ==
  ASSUME CondInv, NEW e \in Evaluators, NEW g \in Registries, NEW args \in ArgLists, LookUpFunction(e, g, args)
  PROVE  CondInv'
<1> DEFINE c == [at |-> "cache", registry |-> g, args |-> args, fn |-> functions[g]]
<1>1. /\ evaluator' = [evaluator EXCEPT ![e] = c] /\ functions[g].version > 0
      /\ UNCHANGED <<condNow, functions, results, history>>
  BY DEF LookUpFunction
<1>2. AskingInv(c) /\ c.at = "cache"
  BY <1>1 DEF AskingInv, CondInv, ResultsInv
<1> HIDE DEF c
<1>3. EvaluatorsInv'
  BY <1>1, <1>2, EvaluatorTurn DEF CondInv
<1>4. ResultsInv'
  BY <1>1, ResultsStay DEF CondInv, ResultsInv
<1>. QED BY <1>1, <1>3, <1>4 DEF CondInv

LEMMA TryCacheKeeps ==
  ASSUME CondInv, NEW e \in Evaluators, TryCache(e)
  PROVE  CondInv'
<1> DEFINE g == evaluator[e].registry
           k == ArgKey[evaluator[e].args]
<1>1. /\ evaluator[e].at = "cache" /\ UNCHANGED <<condNow, functions, results, history>>
      /\ IF evaluator[e].fn.cached /\ StillGood(g, k)
           THEN Answered(e, <<results[g][k].version, results[g][k].args>>, results[g][k].at)
           ELSE evaluator' = [evaluator EXCEPT ![e].at = "runs"]
  BY DEF TryCache
<1>2. AskingInv(evaluator[e]) /\ g \in Registries
  BY <1>1 DEF CondInv, EvaluatorsInv, AskingInv
<1>3. EvaluatorsInv'
  <2>1. CASE evaluator[e].fn.cached /\ StillGood(g, k)
    <3> DEFINE c == [at |-> "done", registry |-> g, args |-> evaluator[e].args, asked |-> evaluator[e].fn.version,
                     of |-> <<results[g][k].version, results[g][k].args>>, since |-> results[g][k].at,
                     now |-> condNow]
    <3>1. evaluator' = [evaluator EXCEPT ![e] = c]
      BY <1>1, <2>1 DEF Answered
    <3>2. k \in DOMAIN results[g] /\ EntryInv(g, k, results[g][k])
      BY <1>2, <2>1 DEF StillGood, CondInv, ResultsInv
    <3>3. condNow - results[g][k].at <= ResultTTL
      <4>1. condNow - results[g][k].at < (IF g = "operator" THEN ResultTTL ELSE ResultTTL + 1)
        BY <2>1 DEF StillGood
      <4>2. condNow - results[g][k].at \in Int /\ ResultTTL \in Nat
        <5>1. condNow \in Int
          BY DEF CondInv, ResultsInv
        <5>2. results[g][k].at \in Int
          BY <3>2 DEF EntryInv
        <5>. QED BY <5>1, <5>2, ConditionsAssumption
      <4> HIDE DEF g, k
      <4>. QED BY <4>1, <4>2
    <3>4. c.at = "done" /\ DoneInv(c)
      <4>1. c.of[1] = results[g][k].version /\ c.of[2] = results[g][k].args
        OBVIOUS
      <4>. QED BY <1>2, <3>2, <3>3, <4>1 DEF DoneInv, EntryInv
    <3> HIDE DEF c
    <3>. QED BY <1>1, <3>1, <3>4, EvaluatorTurn DEF CondInv
  <2>2. CASE ~(evaluator[e].fn.cached /\ StillGood(g, k))
    <3> DEFINE c == [evaluator[e] EXCEPT !.at = "runs"]
    <3>1. evaluator' = [evaluator EXCEPT ![e] = c]
      BY <1>1, <2>2 DEF CondInv, EvaluatorsInv
    <3>2. c.at \in {"runs", evaluator[e].at} /\ c.registry = evaluator[e].registry /\ c.fn = evaluator[e].fn
      OBVIOUS
    <3>3. c.at \in {"cache", "runs"} /\ AskingInv(c)
      BY <1>1, <1>2, <3>2 DEF AskingInv
    <3> HIDE DEF c
    <3>. QED BY <1>1, <3>1, <3>3, EvaluatorTurn DEF CondInv
  <2>. QED BY <2>1, <2>2
<1>4. ResultsInv'
  BY <1>1, ResultsStay DEF CondInv, ResultsInv
<1>. QED BY <1>1, <1>3, <1>4 DEF CondInv

LEMMA ReturnKeeps ==
  ASSUME CondInv, NEW e \in Evaluators, Return(e)
  PROVE  CondInv'
<1> DEFINE g == evaluator[e].registry
           k == ArgKey[evaluator[e].args]
           failure == IF g = "operator" THEN <<"panic">> ELSE <<"nil">>
           own == <<evaluator[e].fn.version, evaluator[e].args>>
<1>1. evaluator[e].at = "runs" /\ UNCHANGED <<condNow, functions, history>>
  BY DEF Return
<1>2. PICK reply \in {own, failure} :
         Outcome(e, reply, [version |-> IF reply = failure THEN 0 ELSE evaluator[e].fn.version,
                             args |-> evaluator[e].args, at |-> condNow])
  BY DEF Return
<1> DEFINE entry == [version |-> IF reply = failure THEN 0 ELSE evaluator[e].fn.version,
                     args |-> evaluator[e].args, at |-> condNow]
           c == [at |-> "done", registry |-> g, args |-> evaluator[e].args, asked |-> evaluator[e].fn.version,
                 of |-> reply, since |-> condNow, now |-> condNow]
<1>3. /\ evaluator' = [evaluator EXCEPT ![e] = c]
      /\ results' = results \/ (reply \notin {<<"panic">>, <<"nil">>} /\ Put(g, k, entry))
  BY <1>2 DEF Outcome, Answered
<1>4. g \in Registries /\ evaluator[e].fn.version \in 1 .. functions[g].version /\ condNow \in Nat
  BY <1>1 DEF CondInv, EvaluatorsInv, AskingInv, ResultsInv
<1>5. EvaluatorsInv'
  <2>1. c.at = "done" /\ DoneInv(c)
    <3>1. CASE reply = failure
      BY <1>4, <3>1 DEF DoneInv
    <3>2. CASE reply = own
      <4>1. /\ c.of[1] = evaluator[e].fn.version /\ c.of[2] = evaluator[e].args
            /\ c.args = evaluator[e].args /\ c.registry = g
        BY <3>2
      <4>2. c.now - c.since <= ResultTTL
        <5>1. condNow - condNow = 0
          BY <1>4
        <5>. QED BY <5>1, ConditionsAssumption
      <4>3. c.registry \in Registries /\ c.of[1] \in 1 .. functions[c.registry].version
        BY <1>4, <4>1
      <4>4. ArgKey[c.of[2]] = ArgKey[c.args]
        BY <4>1
      <4>5. \A d : /\ d.registry \in Registries /\ d.of[1] \in 1 .. functions[d.registry].version
                   /\ d.now - d.since <= ResultTTL /\ ArgKey[d.of[2]] = ArgKey[d.args]
                   => DoneInv(d)
        BY DEF DoneInv
      <4>6. c.at = "done"
        OBVIOUS
      <4> HIDE DEF c
      <4>. QED BY <4>2, <4>3, <4>4, <4>5, <4>6
    <3>. QED BY <3>1, <3>2
  <2>2. c.at = "done"
    OBVIOUS
  <2> HIDE DEF c
  <2>. QED BY <1>1, <1>3, <2>1, <2>2, EvaluatorTurn DEF CondInv
<1>6. ResultsInv'
  <2>1. CASE results' = results
    BY <1>1, <2>1, ResultsStay DEF CondInv, ResultsInv
  <2>2. CASE reply \notin {<<"panic">>, <<"nil">>} /\ Put(g, k, entry)
    <3>1. reply # failure
      BY <2>2
    <3>2. EntryInv(g, k, entry)
      <4>1. entry.version = evaluator[e].fn.version /\ entry.args = evaluator[e].args /\ entry.at = condNow
        BY <3>1
      <4>2. condNow <= condNow
        BY <1>4
      <4> HIDE DEF entry
      <4>. QED BY <1>4, <4>1, <4>2 DEF EntryInv
    <3> DEFINE r == [j \in DOMAIN results[g] \cup {k} |-> IF j = k THEN entry ELSE results[g][j]]
    <3>3. results' = [results EXCEPT ![g] = r]
      BY <2>2 DEF Put
    <3>4. \A j \in DOMAIN r : (r[j] = entry /\ j = k) \/ (j \in DOMAIN results[g] /\ r[j] = results[g][j])
      OBVIOUS
    <3> HIDE DEF r, entry, g, k
    <3>5. results' = [h \in Registries |-> results'[h]] /\ results'[g] = r
          /\ \A h \in Registries : h # g => results'[h] = results[h]
      BY <1>4, <3>3 DEF CondInv, ResultsInv
    <3>6. \A j \in DOMAIN r : EntryInv(g, j, r[j])
      BY <1>4, <3>2, <3>4 DEF CondInv, ResultsInv
    <3>7. ASSUME NEW h \in Registries, NEW j \in DOMAIN results'[h] PROVE EntryInv(h, j, results'[h][j])
      BY <3>5, <3>6 DEF CondInv, ResultsInv
    <3>8. \A h, j, x : EntryInv(h, j, x)' <=> EntryInv(h, j, x)
      BY <1>1 DEF EntryInv
    <3>9. \A h \in Registries : \A j \in DOMAIN results'[h] : \A x : x = results'[h][j] => EntryInv(h, j, x)'
      BY <3>7, <3>8
    <3>. QED BY <1>1, <3>5, <3>9 DEF CondInv, ResultsInv, EntryInv
  <2>. QED BY <1>3, <2>1, <2>2
<1>. QED BY <1>1, <1>5, <1>6 DEF CondInv

-------------------------------------------------------------------------------
(* The history *)

LEMMA RecordKeeps ==
  ASSUME history \in Seq(CallType), NEW tool \in HistoryTools, NEW verdict \in {"PERMIT", "DENY"},
         RecordCall(tool, verdict)
  PROVE  history' \in Seq(CallType)
<1> DEFINE call == [tool |-> tool, effect |-> verdict, age |-> 0]
           s == <<call>> \o history
           last == IF Len(history) < MaxHistory THEN Len(history) + 1 ELSE MaxHistory
<1>1. history' = SubSeq(s, 1, last)
  BY DEF RecordCall
<1>2. call \in CallType
  BY DEF CallType
<1> HIDE DEF call
<1>3. s \in Seq(CallType) /\ Len(s) = Len(history) + 1 /\ Len(history) \in Nat
  <2>1. <<call>> \in Seq(CallType) /\ Len(<<call>>) = 1
    BY <1>2
  <2>. QED BY <2>1, ConcatProperties, LenProperties
<1> HIDE DEF s
<1>4. last \in Int /\ last <= Len(history) + 1
  BY <1>3, ConditionsAssumption
<1> HIDE DEF last
<1>5. \A i \in 1 .. last : s[i] \in CallType
  <2>1. \A i \in 1 .. last : i \in 1 .. Len(s)
    BY <1>3, <1>4
  <2>. QED BY <1>3, <2>1, ElementOfSeq
<1>. QED BY <1>1, <1>3, <1>4, <1>5, SubSeqProperties

LEMMA OlderKeeps == ASSUME history \in Seq(CallType), GrowOlder PROVE history' \in Seq(CallType)
<1>1. history' = [n \in DOMAIN history |-> [history[n] EXCEPT !.age = @ + 1]]
  BY DEF GrowOlder
<1>2. DOMAIN history = 1 .. Len(history) /\ Len(history) \in Nat
  BY LenProperties
<1>3. ASSUME NEW n \in 1 .. Len(history) PROVE [history[n] EXCEPT !.age = @ + 1] \in CallType
  <2>1. history[n] \in CallType
    BY ElementOfSeq
  <2>. QED BY <2>1 DEF CallType
<1>4. history' \in [1 .. Len(history) -> CallType]
  BY <1>1, <1>2, <1>3
<1>. QED BY <1>2, <1>4, SeqDef

(* The tools are found along the history as it was made.                   *)
LEMMA FoundInOrder ==
  ASSUME history \in Seq(CallType), NEW tools, Len(tools) \in Nat
  PROVE  /\ HistorySequence(history, tools) <=> Holds(Reverse(history), tools, Len(history), Len(tools))
         /\ \A n \in 1 .. Len(history) : \E i \in 1 .. Len(history) : Reverse(history)[i] = history[n]
<1> DEFINE oldest == Reverse(history)
<1>1. Len(history) \in Nat
  BY LenProperties
<1>2. /\ Len(oldest) = Len(history)
      /\ \A i \in 1 .. Len(history) : oldest[i] = history[Len(history) - i + 1]
  <2>1. oldest = [i \in 1 .. Len(history) |-> history[(Len(history) - i) + 1]]
    BY DEF Reverse
  <2>. QED BY <1>1, <2>1
<1>3. ASSUME NEW n \in 1 .. Len(history) PROVE \E i \in 1 .. Len(history) : oldest[i] = history[n]
  <2>1. Len(history) - n + 1 \in 1 .. Len(history) /\ Len(history) - (Len(history) - n + 1) + 1 = n
    BY <1>1
  <2>. QED BY <1>2, <2>1
<1> HIDE DEF oldest
<1>4. HistorySequence(history, tools) <=> NextTool(oldest, tools) = Len(tools) + 1
  BY DEF HistorySequence, Found, oldest
<1>5. NextTool(oldest, tools) = Len(tools) + 1 <=> Holds(oldest, tools, Len(oldest), Len(tools))
  BY <1>1, <1>2, NextToolCounts
<1>. QED BY <1>2, <1>3, <1>4, <1>5 DEF oldest

LEMMA SequencesFound == ASSUME history \in Seq(CallType) PROVE SequenceIsEmbedded
<1> DEFINE oldest == Reverse(history)
<1> SUFFICES ASSUME NEW m \in 0 .. 2, NEW tools \in [1 .. m -> HistoryTools \cup {"*"}]
             PROVE  HistorySequence(history, tools) <=>
                       \E f \in [DOMAIN tools -> DOMAIN history] :
                         /\ \A i, j \in DOMAIN tools : i < j => f[i] < f[j]
                         /\ \A i \in DOMAIN tools : MatchesTool(tools[i], oldest[f[i]].tool)
  BY DEF SequenceIsEmbedded
<1>1. DOMAIN tools = 1 .. m /\ Len(tools) = m /\ m \in Nat
  OBVIOUS
<1>2. DOMAIN history = 1 .. Len(history)
  BY LenProperties
<1>3. HistorySequence(history, tools) <=> Holds(oldest, tools, Len(history), m)
  BY <1>1, FoundInOrder
<1> HIDE DEF oldest
<1>. QED BY <1>1, <1>2, <1>3 DEF Holds, Embeds

LEMMA HelpersFound == ASSUME history \in Seq(CallType) PROVE HelpersAgree
<1>1. DOMAIN history = 1 .. Len(history) /\ Len(history) \in Nat
  BY LenProperties
<1>2. IsFiniteSet(1 .. Len(history))
  BY <1>1, FS_Interval
<1> SUFFICES ASSUME NEW tool \in HistoryTools, NEW secs \in HistoryAges
             PROVE  /\ HistoryContainsWithin(history, tool, secs) =>
                          HistoryToolCount(history, tool) > 0 /\ HistorySequence(history, <<tool>>)
                    /\ DenyCountWithin(history, secs) <= HistoryToolCount(history, "*")
  BY DEF HelpersAgree
<1> DEFINE those == {n \in DOMAIN history : MatchesTool(tool, history[n].tool)}
           all == {n \in DOMAIN history : MatchesTool("*", history[n].tool)}
           denied == {n \in DOMAIN history : history[n].age <= secs /\ history[n].effect = "DENY"}
<1>3. ASSUME HistoryContainsWithin(history, tool, secs)
      PROVE  HistoryToolCount(history, tool) > 0 /\ HistorySequence(history, <<tool>>)
  <2>1. PICK n \in 1 .. Len(history) : MatchesTool(tool, history[n].tool)
    BY <1>1, <1>3 DEF HistoryContainsWithin
  <2>2. IsFiniteSet(those) /\ those # {}
    <3>1. those \in SUBSET (1 .. Len(history)) /\ n \in those
      BY <1>1, <2>1
    <3>. QED BY <1>2, <3>1, FS_Subset
  <2>3. Cardinality(those) \in Nat /\ Cardinality(those) # 0
    <3> HIDE DEF those
    <3>. QED BY <2>2, FS_CardinalityType, FS_EmptySet
  <2>4. HistoryToolCount(history, tool) = Cardinality(those)
    BY DEF HistoryToolCount
  <2>5. HistorySequence(history, <<tool>>)
    <3> DEFINE oldest == Reverse(history)
    <3>1. PICK tools : tools = <<tool>>
      OBVIOUS
    <3>2. Len(tools) = 1 /\ tools[1] = tool
      BY <3>1
    <3>3. /\ HistorySequence(history, tools) <=> Holds(oldest, tools, Len(history), 1)
          /\ \A k \in 1 .. Len(history) : \E i \in 1 .. Len(history) : oldest[i] = history[k]
      <4>1. Len(tools) \in Nat
        BY <3>2
      <4>2. HistorySequence(history, tools) <=> Holds(oldest, tools, Len(history), Len(tools))
        BY <4>1, FoundInOrder
      <4>3. \A k \in 1 .. Len(history) : \E i \in 1 .. Len(history) : oldest[i] = history[k]
        BY <4>1, FoundInOrder
      <4>. QED BY <3>2, <4>2, <4>3
    <3> HIDE DEF oldest
    <3>4. PICK i \in 1 .. Len(history) : oldest[i] = history[n]
      BY <3>3
    <3> DEFINE f == [x \in 1 .. 1 |-> i]
    <3>5. f \in [1 .. 1 -> 1 .. Len(history)] /\ f[1] = i /\ \A x \in 1 .. 1 : x = 1
      OBVIOUS
    <3> HIDE DEF f
    <3>6. Embeds(f, oldest, tools, 1)
      BY <2>1, <3>2, <3>4, <3>5 DEF Embeds
    <3>7. Holds(oldest, tools, Len(history), 1)
      BY <3>5, <3>6 DEF Holds
    <3>. QED BY <3>1, <3>3, <3>7
  <2> HIDE DEF those
  <2>. QED BY <2>3, <2>4, <2>5
<1>4. DenyCountWithin(history, secs) <= HistoryToolCount(history, "*")
  <2>1. \A t : MatchesTool("*", t)
    BY DEF MatchesTool
  <2>2. denied \in SUBSET all /\ all \in SUBSET (1 .. Len(history))
    BY <1>1, <2>1
  <2>3. DenyCountWithin(history, secs) = Cardinality(denied) /\ HistoryToolCount(history, "*") = Cardinality(all)
    BY DEF DenyCountWithin, HistoryToolCount
  <2> HIDE DEF denied, all
  <2>4. IsFiniteSet(all)
    BY <1>2, <2>2, FS_Subset
  <2>5. Cardinality(denied) <= Cardinality(all)
    BY <2>2, <2>4, FS_Subset
  <2>. QED BY <2>3, <2>5
<1>. QED BY <1>3, <1>4

-------------------------------------------------------------------------------
(* The theorem *)

LEMMA CondBegins == ASSUME ConditionsInit PROVE CondInv
<1>1. /\ condNow = 0 /\ functions = [g \in Registries |-> [version |-> 0, cached |-> FALSE]]
      /\ results = [g \in Registries |-> <<>>] /\ evaluator = [e \in Evaluators |-> Idle0] /\ history = <<>>
  BY DEF ConditionsInit
<1>2. DOMAIN <<>> = {} /\ Idle0.at = "idle"
  BY DEF Idle0
<1>3. ResultsInv
  <2>1. \A g \in Registries : functions[g].version = 0 /\ results[g] = <<>>
    BY <1>1
  <2>. QED BY <1>1, <1>2, <2>1 DEF ResultsInv
<1>4. EvaluatorsInv
  <2>1. \A e \in Evaluators : evaluator[e].at = "idle"
    BY <1>1, <1>2
  <2>. QED BY <1>1, <2>1 DEF EvaluatorsInv
<1>. QED BY <1>1, <1>3, <1>4 DEF CondInv

LEMMA CondStays ==
  ASSUME CondInv, UNCHANGED <<functions, results, evaluator>>, condNow' \in Nat, condNow <= condNow'
  PROVE  ResultsInv' /\ EvaluatorsInv'
<1>1. ResultsInv'
  BY ResultsStay DEF CondInv
<1>2. EvaluatorsInv'
  BY VersionsGrow DEF CondInv, ResultsInv
<1>. QED BY <1>1, <1>2

LEMMA CondStep ==
  ASSUME CondInv, [RegistryNext \/ HistoryNext \/ ReplayNext]_conditionVars
  PROVE  CondInv'
<1>0. condNow \in Nat
  BY DEF CondInv, ResultsInv
<1>1. CASE RegistryNext
  <2>1. CASE CondTick
    <3>1. condNow' = condNow + 1 /\ UNCHANGED <<functions, results, evaluator, history>>
      BY <2>1 DEF CondTick
    <3>2. condNow' \in Nat /\ condNow <= condNow'
      BY <1>0, <3>1
    <3>. QED BY <3>1, <3>2, CondStays DEF CondInv
  <2>2. CASE \E g \in Registries : (\E cached \in BOOLEAN : RegisterFunction(g, cached)) \/ ClearResults(g)
    BY <2>2, FunctionKeeps, ClearKeeps
  <2>3. CASE \E e \in Evaluators : \E g \in Registries, a \in ArgLists : LookUpFunction(e, g, a)
    BY <2>3, ConditionLooksUp
  <2>4. CASE \E e \in Evaluators : TryCache(e) \/ Return(e)
    BY <2>4, TryCacheKeeps, ReturnKeeps
  <2>. QED BY <1>1, <2>1, <2>2, <2>3, <2>4 DEF RegistryNext
<1>2. CASE HistoryNext
  <2>1. UNCHANGED <<condNow, functions, results, evaluator>>
    BY <1>2 DEF HistoryNext, GrowOlder, RecordCall, registryVars
  <2>2. condNow' \in Nat /\ condNow <= condNow'
    BY <1>0, <2>1
  <2>3. history' \in Seq(CallType)
    BY <1>2, RecordKeeps, OlderKeeps DEF HistoryNext, CondInv
  <2>. QED BY <2>1, <2>2, <2>3, CondStays DEF CondInv
<1>3. CASE ReplayNext \/ UNCHANGED conditionVars
  <2>1. UNCHANGED <<condNow, functions, results, evaluator, history>>
    BY <1>3 DEF ReplayNext, Replay, conditionVars, registryVars
  <2>2. condNow' \in Nat /\ condNow <= condNow'
    BY <1>0, <2>1
  <2>. QED BY <2>1, <2>2, CondStays DEF CondInv
<1>. QED BY <1>1, <1>2, <1>3

LEMMA CondIsSafe == ASSUME CondInv PROVE ConditionsHold
<1>1. ResultsAreComputed
  BY DEF CondInv, EvaluatorsInv, DoneInv, ResultsAreComputed
<1>. QED BY <1>1, SequencesFound, HelpersFound DEF CondInv, ConditionsHold

(* What a when: condition is computed from is what it says: a result is of  *)
(* a registered function, no older than results are kept, and for the key  *)
(* of the arguments; a failure is never one; and the helpers find in the   *)
(* history exactly the calls that are there, in their order. For any       *)
(* number of evaluators, any arguments and histories of any length.        *)
THEOREM ConditionsAreMet == ConditionsSpec => []ConditionsHold
<1>1. ConditionsInit => CondInv
  BY CondBegins
<1>2. CondInv /\ [RegistryNext \/ HistoryNext \/ ReplayNext]_conditionVars => CondInv'
  BY CondStep
<1>3. CondInv => ConditionsHold
  BY CondIsSafe
<1>. QED BY <1>1, <1>2, <1>3, PTL DEF ConditionsSpec

-------------------------------------------------------------------------------
(* Packs and what is attested of them *)

PackDirs == {PackDir[p.name] : p \in HubAnswers} \X {p.version : p \in HubAnswers}
InstallerType ==
    [at : {"idle"}] \cup [at : {"policy", "policy text", "manifest", "manifest text"}, pack : HubAnswers]
PackFileType ==
    [policy : {"", "torn"} \cup {p.body : p \in HubAnswers},
     manifest : {<<>>, <<[sha |-> "torn"]>>} \cup
                {<<[name |-> p.name, version |-> p.version, sha |-> p.body, tier |-> p.tier]>> : p \in HubAnswers}]
InstallType == [pack : HubAnswers, community : BOOLEAN, signed : BOOLEAN]

HubTypes ==
    /\ installer \in [Installers -> InstallerType]
    /\ packFiles \in [PackDirs -> PackFileType]
    /\ validated \in SUBSET InstallType

(* What an installer writes passed the checks.                             *)
WritersInv ==
    \A i \in Installers : installer[i].at # "idle" => \E v \in validated : v.pack = installer[i].pack
ValidatedInv ==
    \A v \in validated : /\ Validates(v.pack) /\ (v.signed => v.pack.signature # <<>>)
                         /\ v.pack.tier = "community" => v.community
PolicyFilesInv ==
    \A d \in PackDirs : packFiles[d].policy \notin {"", "torn"} =>
        \E v \in validated : DirOfPack(v.pack) = d /\ v.pack.body = packFiles[d].policy

(* What was attested is what the files had then.                           *)
IsAttested(a) ==
    \/ /\ a.signer = "" /\ DOMAIN a.manifest # {} /\ DOMAIN a.manifest \subseteq PackDirs
       /\ \A d \in DOMAIN a.manifest : a.manifest[d] = a.files[d].policy
    \/ a.signer \in SigningKeys /\ a.manifest[2] = a.files[a.manifest[1]].policy
AttestedInv ==
    /\ attested \in Seq(Range(attested))
    /\ \A n \in DOMAIN attested : IsAttested(attested[n])

HubInv == HubTypes /\ WritersInv /\ ValidatedInv /\ PolicyFilesInv /\ AttestedInv

LEMMA DirsOfPacks == \A p \in HubAnswers : DirOfPack(p) \in PackDirs
  BY DEF DirOfPack, PackDirs

LEMMA HubBegins == HubInit => HubInv
<1>. SUFFICES ASSUME HubInit PROVE HubInv
  OBVIOUS
<1>1. HubTypes
  <2>1. packFiles = [d \in PackDirs |-> [policy |-> "", manifest |-> <<>>]]
    BY DEF HubInit, PackDirs
  <2>2. [policy |-> "", manifest |-> <<>>] \in PackFileType /\ [at |-> "idle"] \in InstallerType
    BY DEF PackFileType, InstallerType
  <2>. QED BY <2>1, <2>2 DEF HubInit, HubTypes
<1>2. AttestedInv
  <2>1. attested = <<>>
    BY DEF HubInit
  <2>2. <<>> \in Seq(Range(<<>>)) /\ DOMAIN <<>> = {}
    OBVIOUS
  <2>. QED BY <2>1, <2>2 DEF AttestedInv
<1>3. WritersInv /\ ValidatedInv
  BY DEF HubInit, WritersInv, ValidatedInv
<1>4. PolicyFilesInv
  BY DEF HubInit, PolicyFilesInv, PackDirs
<1>. QED BY <1>1, <1>2, <1>3, <1>4 DEF HubInv

LEMMA BeginInstallKeeps ==
  ASSUME HubInv, NEW i \in Installers, NEW p \in HubAnswers, NEW c \in BOOLEAN, NEW s \in BOOLEAN,
         BeginInstall(i, p, c, s)
  PROVE  HubInv'
<1>1. packFiles' = packFiles /\ attested' = attested
  BY DEF BeginInstall
<1>2. AttestedInv'
  BY <1>1 DEF HubInv, AttestedInv, IsAttested
<1>3. CASE Installable(p, c, s)
  <2> DEFINE v == [pack |-> p, community |-> c, signed |-> s]
             writer == [at |-> "policy", pack |-> p]
  <2>1. installer' = [installer EXCEPT ![i] = writer] /\ validated' = validated \cup {v}
    BY <1>3 DEF BeginInstall
  <2>2. v \in InstallType /\ writer \in InstallerType /\ v.pack = p /\ writer.pack = p /\ v.community = c /\ v.signed = s
    BY DEF InstallType, InstallerType
  <2>3. /\ Validates(v.pack) /\ (v.signed => v.pack.signature # <<>>)
        /\ v.pack.tier = "community" => v.community
    BY <1>3, <2>2 DEF Installable
  <2> HIDE DEF v, writer
  <2>4. HubTypes'
    BY <1>1, <2>1, <2>2 DEF HubInv, HubTypes
  <2>5. WritersInv'
    BY <2>1, <2>2 DEF HubInv, HubTypes, WritersInv
  <2>6. ValidatedInv'
    BY <2>1, <2>3 DEF HubInv, ValidatedInv
  <2>7. PolicyFilesInv'
    BY <1>1, <2>1 DEF HubInv, PolicyFilesInv
  <2>. QED BY <1>2, <2>4, <2>5, <2>6, <2>7 DEF HubInv
<1>4. CASE ~Installable(p, c, s)
  <2>1. installer' = installer /\ validated' = validated
    BY <1>4 DEF BeginInstall
  <2>2. HubTypes' /\ WritersInv' /\ ValidatedInv' /\ PolicyFilesInv'
    BY <1>1, <2>1 DEF HubInv, HubTypes, WritersInv, ValidatedInv, PolicyFilesInv
  <2>. QED BY <1>2, <2>2 DEF HubInv
<1>. QED BY <1>3, <1>4

(* An installer that is not idle has a pack, and a directory for it.       *)
LEMMA WriterFields ==
  ASSUME HubInv, NEW i \in Installers, installer[i].at # "idle"
  PROVE  /\ installer[i] \in [at : {"policy", "policy text", "manifest", "manifest text"}, pack : HubAnswers]
         /\ installer[i].pack \in HubAnswers /\ DirOfPack(installer[i].pack) \in PackDirs
         /\ packFiles[DirOfPack(installer[i].pack)] \in PackFileType
<1>1. installer[i] \in InstallerType
  BY DEF HubInv, HubTypes
<1>2. installer[i] \in [at : {"policy", "policy text", "manifest", "manifest text"}, pack : HubAnswers]
  BY <1>1 DEF InstallerType
<1>. QED BY <1>2, DirsOfPacks DEF HubInv, HubTypes

(* A step of a writer: it goes on, and its directory has another policy,   *)
(* none whole or its pack's, or another manifest.                          *)
LEMMA WriterKeeps ==
  ASSUME HubInv, NEW i \in Installers, installer[i].at # "idle", NEW at \in {"policy text", "manifest", "manifest text"},
         NEW f \in PackFileType,
         installer' \in {[installer EXCEPT ![i].at = at], [installer EXCEPT ![i] = [at |-> "idle"]]},
         packFiles' = [packFiles EXCEPT ![DirOfPack(installer[i].pack)] = f],
         f.policy \in {"torn", installer[i].pack.body, packFiles[DirOfPack(installer[i].pack)].policy},
         UNCHANGED <<validated, attested>>
  PROVE  HubInv'
<1> DEFINE p == installer[i].pack
           d == DirOfPack(p)
<1>1. /\ installer[i] \in [at : {"policy", "policy text", "manifest", "manifest text"}, pack : HubAnswers]
      /\ p \in HubAnswers /\ d \in PackDirs
  BY WriterFields
<1>2. [installer[i] EXCEPT !.at = at] \in InstallerType /\ [installer[i] EXCEPT !.at = at].pack = p
      /\ [at |-> "idle"] \in InstallerType
  BY <1>1 DEF InstallerType
<1>3. PICK v \in validated : v.pack = p
  BY DEF HubInv, WritersInv
<1>4. packFiles' = [packFiles EXCEPT ![d] = f] /\ f.policy \in {"torn", p.body, packFiles[d].policy}
  OBVIOUS
<1>5. DirOfPack(v.pack) = d /\ v.pack.body = p.body
  BY <1>3
<1>6. \A j \in Installers : installer'[j] \in InstallerType
        /\ (installer'[j].at # "idle" => installer[j].at # "idle" /\ installer'[j].pack = installer[j].pack)
  <2> HIDE DEF p
  <2>1. ASSUME NEW j \in Installers, j # i PROVE installer'[j] = installer[j]
    BY <2>1 DEF HubInv, HubTypes
  <2>2. installer'[i] = [installer[i] EXCEPT !.at = at] \/ installer'[i] = [at |-> "idle"]
    BY DEF HubInv, HubTypes
  <2>3. installer'[i].at # "idle" => installer'[i].pack = installer[i].pack
    <3>1. [at |-> "idle"].at = "idle"
      OBVIOUS
    <3>2. CASE installer'[i] = [at |-> "idle"]
      BY <3>1, <3>2
    <3>3. CASE installer'[i] = [installer[i] EXCEPT !.at = at]
      BY <1>2, <3>3 DEF p
    <3>. QED BY <2>2, <3>2, <3>3
  <2>. QED BY <1>2, <2>1, <2>2, <2>3 DEF HubInv, HubTypes
<1> HIDE DEF p, d
<1>7. HubTypes'
  <2>1. installer' \in [Installers -> InstallerType]
    BY <1>6 DEF HubInv, HubTypes
  <2>. QED BY <1>1, <1>4, <2>1 DEF HubInv, HubTypes
<1>8. WritersInv'
  BY <1>6 DEF HubInv, WritersInv
<1>9. PolicyFilesInv'
  <2> SUFFICES ASSUME NEW e \in PackDirs, packFiles'[e].policy \notin {"", "torn"}
               PROVE  \E w \in validated : DirOfPack(w.pack) = e /\ w.pack.body = packFiles'[e].policy
    BY DEF PolicyFilesInv
  <2>1. CASE e = d
    <3>1. packFiles'[d] = f
      BY <1>1, <1>4 DEF HubInv, HubTypes
    <3>2. CASE f.policy = p.body
      BY <1>5, <2>1, <3>1, <3>2
    <3>3. CASE f.policy = packFiles[d].policy
      BY <1>1, <2>1, <3>1, <3>3 DEF HubInv, PolicyFilesInv
    <3>. QED BY <1>4, <2>1, <3>1, <3>2, <3>3
  <2>2. CASE e # d
    <3>1. packFiles'[e] = packFiles[e]
      BY <1>1, <1>4, <2>2 DEF HubInv, HubTypes
    <3>. QED BY <3>1 DEF HubInv, PolicyFilesInv
  <2>. QED BY <2>1, <2>2
<1>10. ValidatedInv' /\ AttestedInv'
  BY DEF HubInv, ValidatedInv, AttestedInv, IsAttested
<1>. QED BY <1>7, <1>8, <1>9, <1>10 DEF HubInv

LEMMA AttestKeeps ==
  ASSUME HubInv, NEW a, IsAttested(a), attested' = Append(attested, a),
         UNCHANGED <<installer, packFiles, validated>>
  PROVE  HubInv'
<1>1. HubTypes' /\ WritersInv' /\ ValidatedInv' /\ PolicyFilesInv'
  BY DEF HubInv, HubTypes, WritersInv, ValidatedInv, PolicyFilesInv
<1> DEFINE S == Range(attested) \cup {a}
<1>2. attested \in Seq(S) /\ a \in S
  BY DEF HubInv, AttestedInv
<1> HIDE DEF S
<1>3. /\ attested' \in Seq(S) /\ DOMAIN attested' = 1 .. Len(attested) + 1 /\ DOMAIN attested = 1 .. Len(attested)
      /\ \A n \in 1 .. Len(attested) : attested'[n] = attested[n]
      /\ attested'[Len(attested) + 1] = a /\ Len(attested) \in Nat
  BY <1>2, AppendProperties, LenProperties
<1>4. \A n \in DOMAIN attested' : IsAttested(attested'[n])
  BY <1>3 DEF HubInv, AttestedInv
<1>5. attested' \in Seq(Range(attested'))
  BY <1>3 DEF Range
<1>7. AttestedInv'
  BY <1>4, <1>5 DEF AttestedInv, IsAttested
<1>. QED BY <1>1, <1>7 DEF HubInv

LEMMA HubStep == HubInv /\ [HubNext]_hubVars => HubInv'
<1>. SUFFICES ASSUME HubInv, [HubNext]_hubVars PROVE HubInv'
  OBVIOUS
<1> DEFINE p(i) == installer[i].pack
           d(i) == DirOfPack(p(i))
<1>1. ASSUME NEW i \in Installers, TruncateFile(i) PROVE HubInv'
  <2>1. installer[i].at # "idle" /\ UNCHANGED <<validated, attested>>
    BY <1>1 DEF TruncateFile
  <2>2. packFiles[d(i)] \in PackFileType /\ d(i) \in PackDirs
    BY <2>1, WriterFields
  <2>3. CASE installer[i].at = "policy"
    <3> DEFINE f == [packFiles[d(i)] EXCEPT !.policy = "torn"]
    <3>1. f \in PackFileType /\ f.policy = "torn"
      BY <2>2 DEF PackFileType
    <3>2. packFiles' = [packFiles EXCEPT ![d(i)] = f]
      BY <1>1, <2>2, <2>3 DEF TruncateFile, HubInv, HubTypes
    <3>3. installer' = [installer EXCEPT ![i].at = "policy text"]
      BY <1>1, <2>3 DEF TruncateFile, HubInv, HubTypes
    <3> HIDE DEF f
    <3>. QED BY <2>1, <3>1, <3>2, <3>3, WriterKeeps
  <2>4. CASE installer[i].at = "manifest"
    <3> DEFINE f == [packFiles[d(i)] EXCEPT !.manifest = <<[sha |-> "torn"]>>]
    <3>1. f \in PackFileType /\ f.policy = packFiles[d(i)].policy
      BY <2>2 DEF PackFileType
    <3>2. packFiles' = [packFiles EXCEPT ![d(i)] = f]
      BY <1>1, <2>2, <2>4 DEF TruncateFile, HubInv, HubTypes
    <3>3. installer' = [installer EXCEPT ![i].at = "manifest text"]
      BY <1>1, <2>4 DEF TruncateFile, HubInv, HubTypes
    <3> HIDE DEF f
    <3>. QED BY <2>1, <3>1, <3>2, <3>3, WriterKeeps
  <2>. QED BY <1>1, <2>3, <2>4 DEF TruncateFile
<1>2. ASSUME NEW i \in Installers, WritePolicy(i) PROVE HubInv'
  <2>1. installer[i].at # "idle" /\ UNCHANGED <<validated, attested>>
    BY <1>2 DEF WritePolicy
  <2>2. packFiles[d(i)] \in PackFileType /\ d(i) \in PackDirs /\ p(i) \in HubAnswers
    BY <2>1, WriterFields
  <2> DEFINE f == [packFiles[d(i)] EXCEPT !.policy = p(i).body]
  <2>3. f \in PackFileType /\ f.policy = p(i).body
    BY <2>2 DEF PackFileType
  <2>4. packFiles' = [packFiles EXCEPT ![d(i)] = f]
    BY <1>2, <2>2 DEF WritePolicy, HubInv, HubTypes
  <2>5. installer' = [installer EXCEPT ![i].at = "manifest"]
    BY <1>2 DEF WritePolicy
  <2> HIDE DEF f
  <2>. QED BY <2>1, <2>3, <2>4, <2>5, WriterKeeps
<1>3. ASSUME NEW i \in Installers, WriteManifest(i) PROVE HubInv'
  <2>1. installer[i].at # "idle" /\ UNCHANGED <<validated, attested>>
    BY <1>3 DEF WriteManifest
  <2>2. packFiles[d(i)] \in PackFileType /\ d(i) \in PackDirs /\ p(i) \in HubAnswers
    BY <2>1, WriterFields
  <2> DEFINE m == <<[name |-> p(i).name, version |-> p(i).version, sha |-> p(i).body, tier |-> p(i).tier]>>
             f == [packFiles[d(i)] EXCEPT !.manifest = m]
  <2>3. f \in PackFileType /\ f.policy = packFiles[d(i)].policy
    BY <2>2 DEF PackFileType
  <2>4. packFiles' = [packFiles EXCEPT ![d(i)] = f]
    BY <1>3, <2>2 DEF WriteManifest, HubInv, HubTypes
  <2>5. installer' = [installer EXCEPT ![i] = [at |-> "idle"]]
    BY <1>3 DEF WriteManifest
  <2> HIDE DEF f
  <2>. QED BY <2>1, <2>3, <2>4, <2>5, WriterKeeps
<1>4. ASSUME NEW i \in Installers, FailInstall(i) PROVE HubInv'
  <2>1. installer[i].at # "idle" /\ UNCHANGED <<validated, attested, packFiles>>
    BY <1>4 DEF FailInstall
  <2>2. packFiles[d(i)] \in PackFileType /\ d(i) \in PackDirs
    BY <2>1, WriterFields
  <2> DEFINE f == packFiles[d(i)]
  <2>4. packFiles' = [packFiles EXCEPT ![d(i)] = f]
    BY <2>1, <2>2 DEF HubInv, HubTypes
  <2>5. installer' = [installer EXCEPT ![i] = [at |-> "idle"]]
    BY <1>4 DEF FailInstall
  <2>. QED BY <2>1, <2>2, <2>4, <2>5, WriterKeeps
<1>5. ASSUME NEW listed \in SUBSET PolicyFiles, Attest(listed) PROVE HubInv'
  <2> DEFINE a == [manifest |-> BuildManifest(listed), signer |-> "", files |-> packFiles]
  <2>1. attested' = Append(attested, a) /\ UNCHANGED <<installer, packFiles, validated>> /\ listed # {}
    BY <1>5 DEF Attest
  <2>2. listed \subseteq PackDirs
    BY DEF PolicyFiles, HubInv, HubTypes
  <2>3. DOMAIN a.manifest = listed /\ \A e \in listed : a.manifest[e] = a.files[e].policy
    BY DEF BuildManifest
  <2>4. IsAttested(a)
    BY <2>1, <2>2, <2>3 DEF IsAttested
  <2> HIDE DEF a
  <2>. QED BY <2>1, <2>4, AttestKeeps
<1>6. ASSUME NEW e \in PolicyFiles, NEW k \in SigningKeys, SignFile(e, k) PROVE HubInv'
  <2> DEFINE a == [manifest |-> <<e, packFiles[e].policy>>, signer |-> k, files |-> packFiles]
  <2>1. attested' = Append(attested, a) /\ UNCHANGED <<installer, packFiles, validated>>
    BY <1>6 DEF SignFile
  <2>2. IsAttested(a)
    BY DEF IsAttested
  <2> HIDE DEF a
  <2>. QED BY <2>1, <2>2, AttestKeeps
<1>7. ASSUME UNCHANGED hubVars PROVE HubInv'
  BY <1>7 DEF hubVars, HubInv, HubTypes, WritersInv, ValidatedInv, PolicyFilesInv, AttestedInv, IsAttested
<1>. QED BY <1>1, <1>2, <1>3, <1>4, <1>5, <1>6, <1>7, BeginInstallKeeps DEF HubNext

-------------------------------------------------------------------------------
LEMMA AttestedHold == HubInv => AttestationsHold
<1>. SUFFICES ASSUME HubInv, NEW n \in DOMAIN attested
              PROVE  LET a == attested[n] Same(e) == packFiles[e].policy = a.files[e].policy IN
                     IF a.signer = "" THEN VerifyManifest(a.manifest) <=> \A e \in DOMAIN a.manifest : Same(e)
                     ELSE \A k \in SigningKeys : VerifyFile(a, k) <=> k = a.signer /\ Same(a.manifest[1])
  BY DEF AttestationsHold
<1> DEFINE a == attested[n]
           Same(e) == packFiles[e].policy = a.files[e].policy
<1>1. IsAttested(a)
  BY DEF HubInv, AttestedInv
<1>2. CASE a.signer = ""
  <2>1. DOMAIN a.manifest # {} /\ \A e \in DOMAIN a.manifest : a.manifest[e] = a.files[e].policy
    BY <1>1, <1>2, HubAssumption DEF IsAttested
  <2>2. VerifyManifest(a.manifest) <=> \A e \in DOMAIN a.manifest : Same(e)
    BY <2>1 DEF VerifyManifest
  <2>. QED BY <1>2, <2>2
<1>3. CASE a.signer # ""
  <2>1. a.manifest[2] = a.files[a.manifest[1]].policy
    BY <1>1, <1>3 DEF IsAttested
  <2>2. \A k \in SigningKeys : VerifyFile(a, k) <=> k = a.signer /\ Same(a.manifest[1])
    BY <2>1 DEF VerifyFile
  <2>. QED BY <1>3, <2>2
<1>. QED BY <1>2, <1>3

LEMMA InstalledHold == HubInv => InstalledIsValid
<1>. SUFFICES ASSUME HubInv PROVE InstalledIsValid
  OBVIOUS
<1>1. ASSUME NEW v \in validated
      PROVE  /\ v.pack.sha # "" => v.pack.sha = v.pack.body
             /\ v.pack.signature # <<>> => SignatureIsGood(v.pack.body, v.pack.signature[1])
             /\ v.signed => v.pack.signature # <<>>
             /\ Verifies(v.pack, v.signed)
             /\ v.pack.tier = "community" => v.community
  BY DEF HubInv, ValidatedInv, Validates, Verifies
<1>2. DOMAIN packFiles = PackDirs
  BY DEF HubInv, HubTypes
<1>. QED BY <1>1, <1>2 DEF InstalledIsValid, HubInv, PolicyFilesInv

LEMMA FingerprintsAlwaysMatch == FingerprintsMatch
  BY DEF FingerprintsMatch, Mismatches

(* The front of a sequence of more than one.                               *)
LEMMA FrontOf ==
  ASSUME NEW S, NEW s \in Seq(S), Len(s) > 1
  PROVE  Len(Front(s)) = Len(s) - 1 /\ Front(s)[1] = s[1]
<1> DEFINE n == Len(s) - 1
<1>1. Len(s) \in Nat /\ n \in 1 .. Len(s) /\ \A k \in 1 .. n : s[k] \in S
  BY ElementOfSeq, LenProperties
<1>2. Front(s) = SubSeq(s, 1, n)
  BY DEF Front
<1>3. n \in Int /\ 1 \in Int
  BY <1>1
<1> HIDE DEF n
<1>4. Len(SubSeq(s, 1, n)) = IF 1 <= n THEN n - 1 + 1 ELSE 0
  BY <1>1, <1>3, SubSeqProperties
<1>5. \A i \in 1 .. n - 1 + 1 : SubSeq(s, 1, n)[i] = s[1 + i - 1]
  BY <1>1, <1>3, SubSeqProperties
<1>6. Len(SubSeq(s, 1, n)) = n /\ SubSeq(s, 1, n)[1] = s[1]
  BY <1>1, <1>4, <1>5
<1>. QED BY <1>2, <1>6 DEF n

LEMMA FrontIsOne ==
  ASSUME NEW S, NEW s \in Seq(S), Len(s) # 0, Len(s) # 1
  PROVE  Front(s) = <<"">> => Len(s) = 2 /\ s[1] = ""
<1>1. Len(s) \in Nat
  BY LenProperties
<1>2. Len(s) > 1 /\ (Len(s) - 1 = 1 => Len(s) = 2)
  <2>1. \A n \in Nat : (n # 0 /\ n # 1 => n > 1) /\ (n - 1 = 1 => n = 2)
    OBVIOUS
  <2>. QED BY <1>1, <2>1
<1>3. Len(Front(s)) = Len(s) - 1 /\ Front(s)[1] = s[1]
  BY <1>2, FrontOf
<1>4. Len(<<"">>) = 1 /\ <<"">>[1] = ""
  OBVIOUS
<1>. QED BY <1>2, <1>3, <1>4, Zenon

(* A sequence of one text, or of more than one.                            *)
LEMMA OneOrMore ==
  ASSUME NEW P, NEW most \in Nat, NEW parts \in SeqOf(P, most), parts # <<>>
  PROVE  \/ Len(parts) = 1
         \/ Len(parts) # 1 /\ (Front(parts) = <<"">> => Len(parts) = 2 /\ parts[1] = "")
<1>1. PICK m \in 0 .. most : parts \in [1 .. m -> P]
  BY DEF SeqOf
<1>2. m \in Nat
  OBVIOUS
<1>3. parts \in Seq(P)
  BY <1>1, <1>2, SeqDef
<1>4. Len(parts) # 0
  BY <1>3, EmptySeq
<1>. QED BY <1>3, <1>4, FrontIsOne, Zenon

LEMMA ReferencesAreRead == PackRefsAreRead
<1> SUFFICES ASSUME NEW parts \in {s \in SeqOf({"", "p", "1"}, 3) : s # <<>>}, PackRef(parts).ok
             PROVE  PackRef(parts).version # "" /\ PackRef(parts).name # <<"">>
  BY DEF PackRefsAreRead
<1>1. \/ Len(parts) = 1
      \/ Len(parts) # 1 /\ (Front(parts) = <<"">> => Len(parts) = 2 /\ parts[1] = "")
  <2>1. 3 \in Nat
    OBVIOUS
  <2>2. parts \in SeqOf({"", "p", "1"}, 3) /\ parts # <<>>
    OBVIOUS
  <2>. QED BY <2>1, <2>2, OneOrMore, Zenon
<1>2. CASE Len(parts) = 1
  <2>1. PackRef(parts).version = "latest" /\ PackRef(parts).name = parts /\ parts # <<"">>
    BY <1>2 DEF PackRef
  <2>. QED BY <2>1
<1>3. CASE Len(parts) # 1
  <2>1. PackRef(parts).version = Last(parts) /\ PackRef(parts).name = Front(parts)
    BY <1>3 DEF PackRef
  <2>2. Last(parts) # "" /\ ~(Len(parts) = 2 /\ parts[1] = "")
    BY <1>3 DEF PackRef
  <2>. QED BY <1>1, <1>3, <2>1, <2>2
<1>. QED BY <1>2, <1>3

LEMMA HubIsSafe == HubInv => HubHolds
  BY AttestedHold, InstalledHold, FingerprintsAlwaysMatch, ReferencesAreRead DEF HubHolds

(* HubHolds, for any installers, packs, keys and fingerprints: wherever an *)
(* install is killed and whoever writes the same directory, a policy on    *)
(* disk is torn or one that passed its checks (hub.go, client.go), a       *)
(* manifest or a signature verifies just as long as its files have not     *)
(* changed (manifest.go, signature.go), fingerprints match their binary    *)
(* (reprobuild), and a reference names a pack and a version (paths.go).    *)
THEOREM PacksAreValid == HubSpec => []HubHolds
  BY HubBegins, HubStep, HubIsSafe, PTL DEF HubSpec


===============================================================================
