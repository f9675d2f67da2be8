--------------------------- MODULE FifoLotsProofs ---------------------------
(***************************************************************************)
(* Two facts about FIFO accounting, of every sequence of trades.  It       *)
(* conserves units (FifoBalances): of no token do the sales that get an    *)
(* outcome take more than the purchases before them brought in.  And its   *)
(* queues of lots give what numbering the units gives                      *)
(* (FifoEqualsReference).                                                  *)
(*                                                                         *)
(* Fifo and Sell are folds, which the library defines by a CHOOSE of a     *)
(* recursive function on the subsets of a sequence's domain.  Iteration    *)
(* shows that function exists, by induction on the size of the subsets;    *)
(* OneByOne makes of it what one expects of a fold, a state after each     *)
(* element.  From there on invariants of that state do.  For the first,    *)
(* what the lots of a token hold and what was sold of it is at most what   *)
(* was bought.  For the second, the lots of a token are, with what they    *)
(* cost, the units bought and not gone (Tracked); Gone, a minimum over     *)
(* all sales so far, grows from sale to sale by what is asked for or by    *)
(* what there is (GoneGrows).                                              *)
(*                                                                         *)
(* Induction is stated about sets: if the things that have a property form *)
(* a set with the first and, with each, the next, it is everything.        *)
(***************************************************************************)
EXTENDS FifoLots, Functions, FiniteSetTheorems, WellFoundedInduction, TLAPS

(* Induction, and what a fold over a finite set computes.                  *)

\* Induction, over the numbers and over the subsets of a finite set, as a fact about
\* the set of those that have a property.
LEMMA NatInduct ==
  ASSUME NEW P, 0 \in P, \A n \in Nat : n \in P => n + 1 \in P
  PROVE  Nat \subseteq P
<1> SUFFICES ASSUME Nat \ P # {} PROVE FALSE
  OBVIOUS
<1>1. PICK m \in Nat \ P : \A n \in Nat \ P : ~(<<n, m>> \in OpToRel(<, Nat))
  BY NatLessThanWellFounded, WFMin
<1>2. \A n \in Nat \ P : ~(n < m)
  BY <1>1 DEF OpToRel
<1>3. m \in Nat /\ m # 0
  BY <1>1
<1>4. m - 1 \in Nat /\ m - 1 < m /\ (m - 1) + 1 = m
  BY <1>3
<1>5. m - 1 \in P
  BY <1>2, <1>4
<1> QED
  BY <1>1, <1>4, <1>5

\* The same over the subsets of a finite set: whatever all subsets with one
\* element less have, a set has.
LEMMA FinInduct ==
  ASSUME NEW S, IsFiniteSet(S), NEW P, {} \in P,
         \A U \in SUBSET S : U # {} /\ (\A y \in U : U \ {y} \in P) => U \in P
  PROVE  SUBSET S \subseteq P
<1> DEFINE N == {n \in Nat : \A U \in SUBSET S : Cardinality(U) = n => U \in P}
<1>0. \A U \in SUBSET S : IsFiniteSet(U) /\ Cardinality(U) \in Nat
  BY FS_Subset, FS_CardinalityType
<1>1. 0 \in N
  BY <1>0, FS_EmptySet
<1>2. ASSUME NEW n \in Nat, n \in N PROVE n + 1 \in N
  <2> SUFFICES ASSUME NEW U \in SUBSET S, Cardinality(U) = n + 1 PROVE U \in P
    OBVIOUS
  <2>1. U # {}
    BY n + 1 # 0, FS_EmptySet
  <2>2. ASSUME NEW y \in U PROVE U \ {y} \in P
    <3>1. Cardinality(U \ {y}) = n
      BY <1>0, FS_RemoveElement
    <3>2. U \ {y} \in SUBSET S
      OBVIOUS
    <3> QED
      BY <1>2, <3>1, <3>2
  <2> QED
    BY <2>1, <2>2
<1>3. Nat \subseteq N
  <2> HIDE DEF N
  <2> QED
    BY <1>1, <1>2, NatInduct
<1> QED
  BY <1>0, <1>3

\* What an iteration over the subsets of a finite set computes exists: choose[s] is
\* the element it takes of s, step what it does with it.
Chooses(choose, S) == \A s \in SUBSET S : s # {} => choose[s] \in s
Iterates(g, S, V, base, choose, step) ==
  /\ g \in [SUBSET S -> V]
  /\ \A s \in SUBSET S :
       g[s] = IF s = {} THEN base ELSE step[choose[s], g[s \ {choose[s]}]]
LEMMA Iteration ==
  ASSUME NEW S, IsFiniteSet(S), NEW V, NEW base \in V,
         NEW choose, Chooses(choose, S), NEW step \in [S \X V -> V]
  PROVE  \E g : Iterates(g, S, V, base, choose, step)
<1> USE DEF Chooses
<1> DEFINE Sub(n) == {s \in SUBSET S : Cardinality(s) <= n}
           Good(n, g) == \A s \in Sub(n) :
             g[s] = IF s = {} THEN base ELSE step[choose[s], g[s \ {choose[s]}]]
           N == {n \in Nat : \E g \in [Sub(n) -> V] : Good(n, g)}
<1>0. \A s \in SUBSET S : IsFiniteSet(s) /\ Cardinality(s) \in Nat
  BY FS_Subset, FS_CardinalityType
<1>1. 0 \in N
  <2>1. \A s \in Sub(0) : s = {}
    BY <1>0, FS_EmptySet
  <2>2. [s \in Sub(0) |-> base] \in [Sub(0) -> V] /\ Good(0, [s \in Sub(0) |-> base])
    BY <2>1
  <2> QED
    BY <2>2
<1>2. ASSUME NEW n \in Nat, n \in N PROVE n + 1 \in N
  <2>1. PICK g \in [Sub(n) -> V] : Good(n, g)
    BY <1>2
  <2> DEFINE h == [s \in Sub(n + 1) |-> IF s \in Sub(n) THEN g[s]
                                        ELSE step[choose[s], g[s \ {choose[s]}]]]
  <2>2. ASSUME NEW s \in Sub(n + 1), s # {}
        PROVE  s \ {choose[s]} \in Sub(n) /\ choose[s] \in S
    <3>1. choose[s] \in s
      BY <2>2
    <3>2. Cardinality(s \ {choose[s]}) = Cardinality(s) - 1
      BY <1>0, <3>1, FS_RemoveElement
    <3> QED
      BY <1>0, <3>1, <3>2
  <2>3. {} \in Sub(n) /\ Sub(n) \subseteq Sub(n + 1)
    BY <1>0, FS_EmptySet
  <2> HIDE DEF Sub
  <2>4. h \in [Sub(n + 1) -> V]
    <3> SUFFICES ASSUME NEW s \in Sub(n + 1), s \notin Sub(n)
                 PROVE step[choose[s], g[s \ {choose[s]}]] \in V
      OBVIOUS
    <3> QED
      BY <2>2, <2>3
  <2>5. Good(n + 1, h)
    <3> SUFFICES ASSUME NEW s \in Sub(n + 1)
                 PROVE  h[s] = IF s = {} THEN base ELSE step[choose[s], h[s \ {choose[s]}]]
      OBVIOUS
    <3>1. CASE s = {}
      BY <2>1, <2>3, <3>1
    <3>2. CASE s # {}
      <4>1. h[s \ {choose[s]}] = g[s \ {choose[s]}]
        BY <2>2, <2>3, <3>2
      <4>2. h[s] = step[choose[s], g[s \ {choose[s]}]]
        <5>1. s \in Sub(n) => g[s] = step[choose[s], g[s \ {choose[s]}]]
          BY <2>1, <3>2
        <5> QED
          BY <5>1
      <4> QED
        BY <3>2, <4>1, <4>2
    <3> QED
      BY <3>1, <3>2
  <2> HIDE DEF h, Good
  <2> QED
    BY <2>4, <2>5
<1>3. Nat \subseteq N
  <2> HIDE DEF N
  <2> QED
    BY <1>1, <1>2, NatInduct
<1>4. Cardinality(S) \in N
  BY <1>0, <1>3
<1>5. Sub(Cardinality(S)) = SUBSET S
  BY <1>0, FS_Subset
<1> QED
  BY <1>4, <1>5 DEF Iterates

-----------------------------------------------------------------------------
(* Sums.                                                                   *)

Pick(s) == CHOOSE x \in s : TRUE

\* f[x] is added to the sum of the others for the x the sum happens to choose.
Integral(f, S) == \A x \in S : f[x] \in Int
Sums(g, f, S) ==
  /\ g \in [SUBSET S -> Int]
  /\ \A s \in SUBSET S :
       /\ SumFunctionOnSet(f, s) = g[s]
       /\ g[s] = IF s = {} THEN 0 ELSE f[Pick(s)] + g[s \ {Pick(s)}]
LEMMA SumChooses ==
  ASSUME NEW S, IsFiniteSet(S), NEW f, Integral(f, S)
  PROVE  \E g : Sums(g, f, S)
<1> USE DEF Integral
<1> DEFINE choose == [s \in SUBSET S |-> Pick(s)]
           step == [z \in S \X Int |-> f[z[1]] + z[2]]
           Body(s, h) == IF s = {} THEN 0 ELSE LET x == CHOOSE x \in s : TRUE IN f[x] + h[s \ {x}]
<1>1. \A s : s # {} => Pick(s) \in s
  BY DEF Pick
<1>2. step \in [S \X Int -> Int]
  OBVIOUS
<1>3. PICK g : Iterates(g, S, Int, 0, choose, step)
  <2>1. Chooses(choose, S)
    BY <1>1 DEF Chooses
  <2>2. 0 \in Int
    OBVIOUS
  <2> HIDE DEF step, choose, Body
  <2> QED
    BY <1>2, <2>1, <2>2, Iteration, Zenon
<1>4. \A s \in SUBSET S : g[s] = IF s = {} THEN 0 ELSE f[Pick(s)] + g[s \ {Pick(s)}]
  <2> SUFFICES ASSUME NEW s \in SUBSET S, s # {} PROVE g[s] = f[Pick(s)] + g[s \ {Pick(s)}]
    BY <1>3 DEF Iterates
  <2>1. Pick(s) \in S /\ s \ {Pick(s)} \in SUBSET S
    BY <1>1
  <2>2. step[Pick(s), g[s \ {Pick(s)}]] = f[Pick(s)] + g[s \ {Pick(s)}]
    BY <1>3, <2>1 DEF Iterates
  <2> QED
    BY <1>3, <2>2 DEF Iterates
<1>5. ASSUME NEW T \in SUBSET S PROVE SumFunctionOnSet(f, T) = g[T]
  <2> DEFINE sum == CHOOSE h : h = [s \in SUBSET T |-> Body(s, h)]
  <2>1. SumFunctionOnSet(f, T) = sum[T]
    BY DEF SumFunctionOnSet, FoldFunctionOnSet, MapThenFoldSet
  <2>2. [s \in SUBSET T |-> g[s]] = [s \in SUBSET T |-> Body(s, [r \in SUBSET T |-> g[r]])]
    <3> SUFFICES ASSUME NEW s \in SUBSET T
                 PROVE g[s] = Body(s, [r \in SUBSET T |-> g[r]])
      OBVIOUS
    <3> QED
      BY <1>4, <1>1 DEF Pick
  <2>3. sum = [s \in SUBSET T |-> Body(s, sum)]
    <3> HIDE DEF Body
    <3> QED
      BY <2>2
  <2> DEFINE P == {s \in SUBSET T : sum[s] = g[s]}
  <2>4. {} \in P
    BY <1>4, <2>3
  <2>5. ASSUME NEW U \in SUBSET T, U # {}, \A y \in U : U \ {y} \in P PROVE U \in P
    <3>1. Pick(U) \in U
      BY <1>1, <2>5
    <3>2. sum[U] = Body(U, sum)
      <4> HIDE DEF sum, Body
      <4> QED
        BY <2>3
    <3>3. Body(U, sum) = f[Pick(U)] + sum[U \ {Pick(U)}]
      BY <2>5 DEF Pick
    <3>4. sum[U \ {Pick(U)}] = g[U \ {Pick(U)}]
      BY <2>5, <3>1
    <3> HIDE DEF sum, Body
    <3> QED
      BY <1>4, <2>5, <3>2, <3>3, <3>4
  <2>6. SUBSET T \subseteq P
    <3> HIDE DEF P
    <3> QED
      BY <2>4, <2>5, FinInduct, FS_Subset
  <2> QED
    BY <2>1, <2>6
<1> QED
  BY <1>3, <1>4, <1>5 DEF Sums, Iterates

\* Nothing adds up to 0.
LEMMA SumOfNone == ASSUME NEW f PROVE SumFunctionOnSet(f, {}) = 0
<1>1. IsFiniteSet({}) /\ Integral(f, {})
  BY FS_EmptySet DEF Integral
<1>2. PICK g : Sums(g, f, {})
  BY <1>1, SumChooses, Zenon
<1> QED
  BY <1>2 DEF Sums

\* A sum of integers is one.
LEMMA SumIsInt ==
  ASSUME NEW S, IsFiniteSet(S), NEW f, Integral(f, S)
  PROVE  SumFunctionOnSet(f, S) \in Int
<1>1. PICK g : Sums(g, f, S)
  BY SumChooses, Zenon
<1> QED
  BY <1>1 DEF Sums

\* The order in which a sum takes its elements does not count.
LEMMA SumTakesAny ==
  ASSUME NEW S, IsFiniteSet(S), NEW f, Integral(f, S), NEW y \in S
  PROVE  SumFunctionOnSet(f, S) = f[y] + SumFunctionOnSet(f, S \ {y})
<1> DEFINE Sum(s) == SumFunctionOnSet(f, s)
           P == {s \in SUBSET S : \A z \in s : Sum(s) = f[z] + Sum(s \ {z})}
<1>1. \A s \in SUBSET S : Sum(s) \in Int
  <2> SUFFICES ASSUME NEW s \in SUBSET S PROVE Sum(s) \in Int
    OBVIOUS
  <2>1. IsFiniteSet(s) /\ Integral(f, s)
    BY FS_Subset DEF Integral
  <2> QED
    BY <2>1, SumIsInt
<1>2. \A s \in SUBSET S : s # {} => Pick(s) \in s /\ Sum(s) = f[Pick(s)] + Sum(s \ {Pick(s)})
  <2>1. \A s : s # {} => Pick(s) \in s
    BY DEF Pick
  <2>2. PICK g : Sums(g, f, S)
    BY SumChooses, Zenon
  <2> QED
    BY <2>1, <2>2 DEF Sums
<1> HIDE DEF Sum
<1>3. ASSUME NEW U \in SUBSET S, U # {}, \A z \in U : U \ {z} \in P PROVE U \in P
  <2> SUFFICES ASSUME NEW z \in U PROVE Sum(U) = f[z] + Sum(U \ {z})
    OBVIOUS
  <2> DEFINE x == Pick(U)
  <2>1. x \in U /\ Sum(U) = f[x] + Sum(U \ {x})
    BY <1>2, <1>3
  <2>2. CASE x = z
    BY <2>1, <2>2
  <2>3. CASE x # z
    <3>1. Sum(U \ {x}) = f[z] + Sum((U \ {x}) \ {z})
      BY <1>3, <2>1, <2>3
    <3>2. Sum(U \ {z}) = f[x] + Sum((U \ {z}) \ {x})
      BY <1>3, <2>1, <2>3
    <3>3. (U \ {x}) \ {z} = (U \ {z}) \ {x}
      OBVIOUS
    <3>4. f[x] \in Int /\ f[z] \in Int /\ Sum((U \ {x}) \ {z}) \in Int
      BY <1>1, <2>1 DEF Integral
    <3>5. Sum(U) = f[x] + (f[z] + Sum((U \ {x}) \ {z}))
      BY <2>1, <3>1
    <3>6. Sum(U \ {z}) = f[x] + Sum((U \ {x}) \ {z})
      BY <3>2, <3>3
    <3> HIDE DEF x, P
    <3> QED
      BY <3>4, <3>5, <3>6
  <2> QED
    BY <2>2, <2>3
<1>4. SUBSET S \subseteq P
  <2>1. {} \in P
    OBVIOUS
  <2> HIDE DEF P
  <2> QED
    BY <1>3, <2>1, FinInduct
<1> QED
  BY <1>4 DEF Sum

\* One more element adds its value.
LEMMA SumWithOneMore ==
  ASSUME NEW S, IsFiniteSet(S), NEW y, y \notin S, NEW f, f[y] \in Int, Integral(f, S)
  PROVE  SumFunctionOnSet(f, S \cup {y}) = f[y] + SumFunctionOnSet(f, S)
<1>1. IsFiniteSet(S \cup {y}) /\ (S \cup {y}) \ {y} = S /\ Integral(f, S \cup {y})
  BY FS_AddElement DEF Integral
<1> QED
  BY <1>1, SumTakesAny

\* Sums of natural numbers grow with the set.
LEMMA SumGrows ==
  ASSUME NEW S, IsFiniteSet(S), NEW T \in SUBSET S, NEW f, \A x \in S : f[x] \in Nat
  PROVE  SumFunctionOnSet(f, T) \in Nat /\ SumFunctionOnSet(f, T) <= SumFunctionOnSet(f, S)
<1> DEFINE Sum(s) == SumFunctionOnSet(f, s)
           P == {s \in SUBSET S : Sum(s) \in Nat /\ \A t \in SUBSET s : Sum(t) \in Nat /\ Sum(t) <= Sum(s)}
<1>1. \A s \in SUBSET S : Sum(s) \in Int
  <2> SUFFICES ASSUME NEW s \in SUBSET S PROVE Sum(s) \in Int
    OBVIOUS
  <2>1. IsFiniteSet(s) /\ Integral(f, s)
    BY FS_Subset DEF Integral
  <2> QED
    BY <2>1, SumIsInt
<1>2. ASSUME NEW U \in SUBSET S, NEW z \in U PROVE Sum(U) = f[z] + Sum(U \ {z})
  <2>1. IsFiniteSet(U) /\ Integral(f, U)
    BY FS_Subset DEF Integral
  <2> QED
    BY <2>1, SumTakesAny
<1>3. Sum({}) = 0
  BY SumOfNone
<1> HIDE DEF Sum
<1>4. ASSUME NEW U \in SUBSET S, U # {}, \A z \in U : U \ {z} \in P PROVE U \in P
  <2>1. PICK z \in U : TRUE
    BY <1>4
  <2>2. Sum(U) \in Nat
    <3>1. Sum(U \ {z}) \in Nat /\ f[z] \in Nat /\ Sum(U) = f[z] + Sum(U \ {z})
      BY <1>2, <1>4, <2>1
    <3> QED
      BY <3>1
  <2>3. ASSUME NEW t \in SUBSET U, t # U PROVE Sum(t) \in Nat /\ Sum(t) <= Sum(U)
    <3>1. PICK y \in U : y \notin t
      BY <2>3
    <3>2. Sum(U) = f[y] + Sum(U \ {y}) /\ t \in SUBSET (U \ {y}) /\ f[y] \in Nat
      BY <1>2, <3>1
    <3>3. Sum(U \ {y}) \in Nat /\ Sum(t) \in Nat /\ Sum(t) <= Sum(U \ {y})
      BY <1>4, <3>2
    <3> HIDE DEF P
    <3> QED
      BY <3>2, <3>3
  <2> QED
    BY <2>2, <2>3
<1>5. SUBSET S \subseteq P
  <2>1. {} \in P
    BY <1>3
  <2> HIDE DEF P
  <2> QED
    BY <1>4, <2>1, FinInduct
<1> QED
  BY <1>5 DEF Sum

\* Only the values on the set count.
LEMMA SumOfSame ==
  ASSUME NEW S, IsFiniteSet(S), NEW f, NEW h, \A x \in S : f[x] \in Int /\ f[x] = h[x]
  PROVE  SumFunctionOnSet(f, S) = SumFunctionOnSet(h, S)
<1> DEFINE P == {s \in SUBSET S : SumFunctionOnSet(f, s) = SumFunctionOnSet(h, s)}
<1>1. {} \in P
  BY SumOfNone
<1>2. ASSUME NEW U \in SUBSET S, U # {}, \A z \in U : U \ {z} \in P PROVE U \in P
  <2>1. PICK z \in U : TRUE
    BY <1>2
  <2>0. IsFiniteSet(U) /\ Integral(f, U) /\ Integral(h, U) /\ f[z] = h[z]
    BY FS_Subset DEF Integral
  <2>2. SumFunctionOnSet(f, U) = f[z] + SumFunctionOnSet(f, U \ {z})
    BY <2>0, SumTakesAny
  <2>3. SumFunctionOnSet(h, U) = h[z] + SumFunctionOnSet(h, U \ {z})
    BY <2>0, SumTakesAny
  <2>4. SumFunctionOnSet(f, U \ {z}) = SumFunctionOnSet(h, U \ {z})
    BY <1>2, <2>1
  <2> QED
    BY <2>0, <2>2, <2>3, <2>4
<1>3. SUBSET S \subseteq P
  <2> HIDE DEF P
  <2> QED
    BY <1>1, <1>2, FinInduct
<1> QED
  BY <1>3

-----------------------------------------------------------------------------
(* Folds over sequences.                                                   *)

\* Some places of a sequence have a last one.
LEMMA MaxOfSome ==
  ASSUME NEW N \in Nat, NEW s \in SUBSET (1..N), s # {}
  PROVE  Max(s) \in s /\ \A i \in s : i <= Max(s)
<1> DEFINE Back == {N - i : i \in s}
<1>1. Back \in SUBSET Nat /\ Back # {}
  <2>1. \A i \in s : N - i \in Nat
    OBVIOUS
  <2> QED
    BY <2>1
<1>2. PICK m \in Back : \A n \in Back : ~(<<n, m>> \in OpToRel(<, Nat))
  <2> HIDE DEF Back
  <2> QED
    BY <1>1, NatLessThanWellFounded, WFMin
<1>3. PICK i \in s : m = N - i
  BY <1>2
<1>4. \A j \in s : j <= i
  <2> TAKE j \in s
  <2>1. ~(N - j < N - i)
    BY <1>1, <1>2, <1>3 DEF OpToRel
  <2>2. i \in Int /\ j \in Int
    OBVIOUS
  <2> HIDE DEF Back
  <2> QED
    BY <2>1, <2>2
<1>5. \E j \in s : \A k \in s : j >= k
  BY <1>4
<1> QED
  BY <1>5 DEF Max

Greatest(S) == [s \in SUBSET S |-> Max(s)]

\* A fold takes the values one by one: g[i] is what it has after i of them.
Counts(g, N, V, base, step) ==
  /\ g \in [0..N -> V]
  /\ g[0] = base
  /\ \A i \in 1..N : g[i] = step[i, g[i - 1]]
\* An iteration that always takes the last place is such a fold.
LEMMA OneByOne ==
  ASSUME NEW N \in Nat, NEW V, NEW base, NEW step, NEW h,
         Iterates(h, 1..N, V, base, Greatest(1..N), step)
  PROVE  Counts([i \in 0..N |-> h[1..i]], N, V, base, step)
<1> DEFINE g == [i \in 0..N |-> h[1..i]]
<1>0. \A i \in 0..N : 1..i \in SUBSET (1..N)
  OBVIOUS
<1>1. g \in [0..N -> V]
  BY <1>0 DEF Iterates
<1>2. g[0] = base
  <2>1. 1..0 = {} /\ 0 \in 0..N /\ 1..0 \in SUBSET (1..N)
    BY <1>0
  <2>2. h[1..0] = base
    BY <2>1 DEF Iterates
  <2> QED
    BY <2>1, <2>2
<1>3. ASSUME NEW i \in 1..N PROVE g[i] = step[i, g[i - 1]]
  <2>1. 1..i \in SUBSET (1..N) /\ 1..i # {} /\ i \in 1..i
    OBVIOUS
  <2>2. Max(1..i) = i
    <3>1. Max(1..i) \in 1..i /\ i <= Max(1..i)
      BY <2>1, MaxOfSome
    <3> QED
      BY <3>1
  <2>3. Greatest(1..N)[1..i] = i
    BY <2>1, <2>2 DEF Greatest
  <2>4. (1..i) \ {i} = 1..(i - 1) /\ i - 1 \in 0..N /\ i \in 0..N
    OBVIOUS
  <2>5. h[1..i] = step[i, h[1..(i - 1)]]
    BY <2>1, <2>3, <2>4 DEF Iterates
  <2>6. g[i] = h[1..i] /\ g[i - 1] = h[1..(i - 1)]
    BY <2>4
  <2> QED
    BY <2>5, <2>6
<1>4. Counts(g, N, V, base, step)
  <2> HIDE DEF g
  <2> QED
    BY <1>1, <1>2, <1>3 DEF Counts
<1> QED
  BY <1>4

\* The same with what the provers ask about its domain.
Counting(g, N, V, base, step) ==
  /\ g[0] = base /\ g[N] \in V /\ 0 \in 0..N
  /\ \A i \in 1..N : /\ i \in 0..N /\ i - 1 \in 0..N /\ g[i] \in V /\ g[i - 1] \in V
                     /\ g[i] = step[i, g[i - 1]]
LEMMA Counted ==
  ASSUME NEW N \in Nat, NEW V, NEW base, NEW step, NEW g, Counts(g, N, V, base, step)
  PROVE  Counting(g, N, V, base, step)
<1>1. 0 \in 0..N /\ N \in 0..N /\ \A i \in 1..N : i \in 0..N /\ i - 1 \in 0..N
  OBVIOUS
<1> QED
  BY <1>1 DEF Counts, Counting

\* The last place is one of them.
LEMMA GreatestChooses == ASSUME NEW N \in Nat PROVE Chooses(Greatest(1..N), 1..N)
  BY MaxOfSome DEF Chooses, Greatest

-----------------------------------------------------------------------------
(* A sale.                                                                 *)

Lot  == [amount : Nat, unit_cost : Nat]
Sale == [remaining : Nat, cost : Nat, queue : Seq(Lot)]

\* Selling from a lot makes a sale of a sale.
LEMMA SellingFromLot ==
  ASSUME NEW sale \in Sale, NEW lot \in Lot
  PROVE  SellFromLot(sale, lot) \in Sale
<1> DEFINE sold == Lesser(sale.remaining, lot.amount)
<1>1. sale.remaining \in Nat /\ sale.cost \in Nat /\ sale.queue \in Seq(Lot)
  BY DEF Sale
<1>2. lot.amount \in Nat /\ lot.unit_cost \in Nat /\ lot = [amount |-> lot.amount, unit_cost |-> lot.unit_cost]
  BY DEF Lot
<1>3. sold \in Nat /\ sale.remaining - sold \in Nat /\ lot.amount - sold \in Nat
  BY <1>1, <1>2 DEF Lesser
<1>4. [lot EXCEPT !.amount = @ - sold] \in Lot
  BY <1>2, <1>3 DEF Lot
<1>5. sold * lot.unit_cost \in Nat
  BY <1>2, <1>3
<1>6. SellFromLot(sale, lot) =
        [remaining |-> sale.remaining - sold, cost |-> sale.cost + sold * lot.unit_cost,
         queue |-> IF sold = lot.amount THEN sale.queue
                   ELSE Append(sale.queue, [lot EXCEPT !.amount = @ - sold])]
  BY DEF SellFromLot
<1>7. sale.cost + sold * lot.unit_cost \in Nat
  BY <1>1, <1>5
<1>8. Append(sale.queue, [lot EXCEPT !.amount = @ - sold]) \in Seq(Lot)
  BY <1>1, <1>4
<1> HIDE DEF sold
<1> QED
  BY <1>1, <1>3, <1>6, <1>7, <1>8 DEF Sale

\* Sell goes through the lots one by one.
SaleStep(q) == [z \in (1..Len(q)) \X Sale |-> SellFromLot(z[2], q[z[1]])]
LEMMA SellCounts ==
  ASSUME NEW q \in Seq(Lot), NEW a \in Nat
  PROVE  \E g : /\ Counts(g, Len(q), Sale, [remaining |-> a, cost |-> 0, queue |-> <<>>], SaleStep(q))
                /\ Sell(q, a) = g[Len(q)]
<1> DEFINE N == Len(q)
           base == [remaining |-> a, cost |-> 0, queue |-> <<>>]
           Body(s, f) == IF s = {} THEN base
                         ELSE LET x == Max(s) IN SellFromLot(f[s \ {x}], q[x])
           fold == CHOOSE f : f = [s \in SUBSET DOMAIN q |-> Body(s, f)]
<1>0. N \in Nat /\ DOMAIN q = 1..N /\ IsFiniteSet(1..N) /\ base \in Sale
  <2>1. N \in Nat /\ DOMAIN q = 1..N /\ 1 \in Int
    OBVIOUS
  <2>2. <<>> \in Seq(Lot)
    OBVIOUS
  <2>3. base \in Sale
    BY <2>2 DEF Sale
  <2> QED
    BY <2>1, <2>3, FS_Interval
<1>1. Sell(q, a) = fold[1..N]
  BY <1>0 DEF Sell, FoldLeft, MapThenFoldSet
<1>2. SaleStep(q) \in [(1..N) \X Sale -> Sale]
  <2>1. \A i \in 1..N : q[i] \in Lot
    BY <1>0
  <2> QED
    BY <2>1, SellingFromLot DEF SaleStep
<1>3. PICK h : Iterates(h, 1..N, Sale, base, Greatest(1..N), SaleStep(q))
  <2> HIDE DEF N, base, Body
  <2> QED
    BY <1>0, <1>2, GreatestChooses, Iteration, Zenon
<1>4. \A s \in SUBSET (1..N) : s # {} =>
        Max(s) \in 1..N /\ h[s \ {Max(s)}] \in Sale /\ h[s] = SellFromLot(h[s \ {Max(s)}], q[Max(s)])
  <2> SUFFICES ASSUME NEW s \in SUBSET (1..N), s # {}
               PROVE Max(s) \in 1..N /\ h[s \ {Max(s)}] \in Sale
                     /\ h[s] = SellFromLot(h[s \ {Max(s)}], q[Max(s)])
    OBVIOUS
  <2>1. Max(s) \in 1..N /\ s \ {Max(s)} \in SUBSET (1..N)
    BY <1>0, MaxOfSome
  <2>2. h[s \ {Max(s)}] \in Sale
    BY <1>3, <2>1 DEF Iterates
  <2>3. h[s] = SaleStep(q)[Max(s), h[s \ {Max(s)}]]
    BY <1>3 DEF Iterates, Greatest
  <2> QED
    BY <2>1, <2>2, <2>3 DEF SaleStep
<1>5. h = [s \in SUBSET (1..N) |-> Body(s, h)]
  BY <1>3, <1>4 DEF Iterates
<1>6. fold = [s \in SUBSET (1..N) |-> Body(s, fold)]
  <2> HIDE DEF Body
  <2> QED
    BY <1>0, <1>5
<1>7. SUBSET (1..N) \subseteq {s \in SUBSET (1..N) : fold[s] = h[s]}
  <2> DEFINE P == {s \in SUBSET (1..N) : fold[s] = h[s]}
  <2>1. {} \in P
    BY <1>5, <1>6
  <2>2. ASSUME NEW U \in SUBSET (1..N), U # {}, \A y \in U : U \ {y} \in P PROVE U \in P
    <3>1. Max(U) \in U
      BY <1>0, <2>2, MaxOfSome
    <3>2. fold[U \ {Max(U)}] = h[U \ {Max(U)}]
      BY <2>2, <3>1
    <3>3. Body(U, fold) = Body(U, h)
      BY <2>2, <3>2
    <3> HIDE DEF Body, fold
    <3> QED
      BY <1>5, <1>6, <3>3
  <2>3. SUBSET (1..N) \subseteq P
    <3> DEFINE D == 1..N
    <3>1. IsFiniteSet(D) /\ {} \in P
      BY <1>0, <2>1
    <3>2. \A U \in SUBSET D : U # {} /\ (\A y \in U : U \ {y} \in P) => U \in P
      <4> HIDE DEF P
      <4> QED
        BY <2>2
    <3> HIDE DEF P, D
    <3>3. SUBSET D \subseteq P
      BY <3>1, <3>2, FinInduct
    <3> QED
      BY <3>3 DEF D
  <2> QED
    BY <2>3 DEF P
<1>8. fold[1..N] = h[1..N]
  BY <1>7
<1>9. Counts([i \in 0..N |-> h[1..i]], N, Sale, base, SaleStep(q))
  <2> HIDE DEF N, base, Body, fold
  <2> QED
    BY <1>0, <1>3, OneByOne
<1>10. [i \in 0..N |-> h[1..i]][N] = h[1..N]
  BY <1>0
<1> HIDE DEF fold, Body
<1> QED
  BY <1>1, <1>8, <1>9, <1>10

-----------------------------------------------------------------------------
(* What lots hold.                                                         *)

\* Induction over the places of a sequence.
LEMMA IntervalInduct ==
  ASSUME NEW N \in Nat, NEW P, 0 \in P, \A i \in 1..N : i - 1 \in P => i \in P
  PROVE  0..N \subseteq P
<1> DEFINE Q == {n \in Nat : n <= N => n \in P}
<1>1. 0 \in Q
  OBVIOUS
<1>2. ASSUME NEW n \in Nat, n \in Q PROVE n + 1 \in Q
  <2> SUFFICES ASSUME n + 1 <= N PROVE n + 1 \in P
    OBVIOUS
  <2>1. n \in P /\ n + 1 \in 1..N /\ (n + 1) - 1 = n
    BY <1>2
  <2> QED
    BY <2>1
<1>3. Nat \subseteq Q
  <2> HIDE DEF Q
  <2> QED
    BY <1>1, <1>2, NatInduct
<1> QED
  BY <1>3

\* What the first lots of a queue hold, and all of them.
Amounts(q) == [k \in DOMAIN q |-> q[k].amount]
Upto(q, i) == SumFunctionOnSet(Amounts(q), 1..i)
Held(q)    == Upto(q, Len(q))

\* Amounts are numbers, and so is their sum.
LEMMA AmountsAreNat ==
  ASSUME NEW q \in Seq(Lot), NEW i \in 0..Len(q)
  PROVE  /\ IsFiniteSet(1..i) /\ (\A k \in 1..i : Amounts(q)[k] = q[k].amount /\ Amounts(q)[k] \in Nat)
         /\ Integral(Amounts(q), 1..i) /\ Upto(q, i) \in Nat
<1>1. \A k \in 1..i : q[k] \in Lot /\ k \in DOMAIN q
  OBVIOUS
<1>2. \A k \in 1..i : Amounts(q)[k] = q[k].amount /\ Amounts(q)[k] \in Nat
  BY <1>1 DEF Amounts, Lot
<1>3. IsFiniteSet(1..i)
  <2>1. 1 \in Int /\ i \in Int
    OBVIOUS
  <2> QED
    BY <2>1, FS_Interval
<1>4. Integral(Amounts(q), 1..i)
  BY <1>2 DEF Integral
<1>5. Upto(q, i) \in Nat
  <2> DEFINE D == 1..i
             f == Amounts(q)
  <2>1. D \in SUBSET D /\ IsFiniteSet(D) /\ \A k \in D : f[k] \in Nat
    BY <1>2, <1>3
  <2> HIDE DEF D, f
  <2>2. SumFunctionOnSet(f, D) \in Nat
    BY <2>1, SumGrows
  <2> QED
    BY <2>2 DEF D, f, Upto
<1> QED
  BY <1>2, <1>3, <1>4, <1>5

\* One lot more adds its amount.
LEMMA UptoNext ==
  ASSUME NEW q \in Seq(Lot), NEW i \in 1..Len(q)
  PROVE  Upto(q, i) = q[i].amount + Upto(q, i - 1)
<1> DEFINE D == 1..(i - 1)
           f == Amounts(q)
<1>1. /\ IsFiniteSet(D) /\ Integral(f, D) /\ f[i] = q[i].amount /\ f[i] \in Int
      /\ i \notin D /\ 1..i = D \cup {i}
  <2>1. i - 1 \in 0..Len(q) /\ i \in 0..Len(q) /\ i \in 1..i
    OBVIOUS
  <2>2. i \notin D /\ 1..i = D \cup {i}
    OBVIOUS
  <2> QED
    BY <2>1, <2>2, AmountsAreNat
<1> HIDE DEF D, f
<1>2. SumFunctionOnSet(f, D \cup {i}) = f[i] + SumFunctionOnSet(f, D)
  BY <1>1, SumWithOneMore
<1> QED
  BY <1>1, <1>2 DEF Upto, D, f

\* No lots hold nothing.
LEMMA HeldNone == Held(<<>>) = 0
<1>1. 1..Len(<<>>) = {}
  OBVIOUS
<1> QED
  BY <1>1, SumOfNone DEF Held, Upto

\* A lot that is opened adds its amount.
LEMMA HeldWithOneMore ==
  ASSUME NEW q \in Seq(Lot), NEW lot \in Lot
  PROVE  Held(Append(q, lot)) = Held(q) + lot.amount
<1> DEFINE p == Append(q, lot)
           n == Len(q)
<1>1. p \in Seq(Lot) /\ Len(p) = n + 1 /\ p[n + 1] = lot /\ n \in Nat
  OBVIOUS
<1>2. Upto(p, n + 1) = p[n + 1].amount + Upto(p, n)
  <2>1. n + 1 \in 1..Len(p) /\ (n + 1) - 1 = n
    BY <1>1
  <2> HIDE DEF p, n
  <2> QED
    BY <1>1, <2>1, UptoNext
<1>3. Upto(p, n) = Upto(q, n)
  <2> DEFINE D == 1..n
  <2>1. \A k \in D : k \in DOMAIN p /\ k \in DOMAIN q /\ p[k] = q[k]
    OBVIOUS
  <2>2. \A k \in D : Amounts(p)[k] = Amounts(q)[k]
    BY <2>1 DEF Amounts
  <2>3. IsFiniteSet(D) /\ \A k \in D : Amounts(q)[k] \in Int
    <3>1. n \in 0..Len(q)
      OBVIOUS
    <3> QED
      BY <3>1, AmountsAreNat
  <2> HIDE DEF D, p
  <2>4. SumFunctionOnSet(Amounts(q), D) = SumFunctionOnSet(Amounts(p), D)
    BY <2>2, <2>3, SumOfSame
  <2> QED
    BY <2>4 DEF D, Upto
<1>4. Upto(p, n) \in Nat /\ lot.amount \in Nat
  <2>1. n \in 0..Len(q)
    OBVIOUS
  <2> HIDE DEF p
  <2> QED
    BY <1>3, <2>1, AmountsAreNat DEF Lot
<1>5. Held(p) = Upto(p, n + 1) /\ Held(q) = Upto(q, n)
  BY <1>1 DEF Held
<1> HIDE DEF p, n
<1>6. Held(p) = lot.amount + Held(q) /\ Held(q) \in Nat
  BY <1>1, <1>2, <1>3, <1>4, <1>5
<1> QED
  BY <1>4, <1>6 DEF p

\* What a sale takes is no longer there, and nothing else is lost.
LEMMA SellTakes ==
  ASSUME NEW q \in Seq(Lot), NEW a \in Nat
  PROVE  /\ Sell(q, a) \in Sale
         /\ Sell(q, a).remaining <= a
         /\ Held(Sell(q, a).queue) + (a - Sell(q, a).remaining) = Held(q)
<1> DEFINE N == Len(q)
           base == [remaining |-> a, cost |-> 0, queue |-> <<>>]
<1>0. N \in Nat
  OBVIOUS
<1>b. PICK g : /\ Counts(g, Len(q), Sale, [remaining |-> a, cost |-> 0, queue |-> <<>>], SaleStep(q))
               /\ Sell(q, a) = g[Len(q)]
  BY SellCounts, Zenon
<1>1. Counts(g, N, Sale, base, SaleStep(q)) /\ Sell(q, a) = g[N]
  BY <1>b
<1>c. Counting(g, N, Sale, base, SaleStep(q))
  <2> HIDE DEF N, base
  <2> QED
    BY <1>0, <1>1, Counted, Zenon
<1>a. /\ g[0] = base /\ g[N] \in Sale /\ 0 \in 0..N
      /\ \A i \in 1..N : /\ i \in 0..N /\ i - 1 \in 0..N /\ g[i] \in Sale /\ g[i - 1] \in Sale
                         /\ g[i] = SaleStep(q)[i, g[i - 1]]
  <2> HIDE DEF N, base
  <2> QED
    BY <1>c DEF Counting
<1> DEFINE Kept(i) == g[i].remaining <= a /\ Held(g[i].queue) + (a - g[i].remaining) = Upto(q, i)
           P == {i \in 0..N : Kept(i)}
<1>2. 0 \in P
  <2>1. g[0] = base /\ 0 \in 0..N
    BY <1>a
  <2>2. Upto(q, 0) = 0
    <3>1. 1..0 = {}
      OBVIOUS
    <3> QED
      BY <3>1, SumOfNone DEF Upto
  <2> QED
    BY <2>1, <2>2, HeldNone
<1>3. ASSUME NEW i \in 1..N, i - 1 \in P PROVE i \in P
  <2> DEFINE s == g[i - 1]
             lot == q[i]
             sold == Lesser(s.remaining, lot.amount)
  <2>0. lot \in Lot
    OBVIOUS
  <2>1. /\ s \in Sale /\ lot \in Lot /\ i - 1 \in 0..N /\ i \in 0..N
    <3> HIDE DEF N, lot
    <3> QED
      BY <1>a, <2>0
  <2>2. g[i] = SellFromLot(s, lot)
    <3>1. g[i] = SaleStep(q)[i, s]
      BY <1>a
    <3> HIDE DEF s
    <3> QED
      BY <2>1, <3>1 DEF SaleStep
  <2>3. /\ s.remaining \in Nat /\ s.queue \in Seq(Lot) /\ lot.amount \in Nat
    <3> HIDE DEF s, lot
    <3> QED
      BY <2>1 DEF Sale, Lot
  <2>4. s.remaining <= a /\ Held(s.queue) + (a - s.remaining) = Upto(q, i - 1)
    BY <1>3
  <2>5. Upto(q, i) = lot.amount + Upto(q, i - 1)
    BY UptoNext
  <2>6. Held(s.queue) \in Nat /\ Upto(q, i - 1) \in Nat
    <3>1. Len(s.queue) \in 0..Len(s.queue)
      BY <2>3
    <3> HIDE DEF s
    <3> QED
      BY <2>1, <2>3, <3>1, AmountsAreNat DEF Held
  <2>7. sold \in Nat /\ sold <= s.remaining /\ sold <= lot.amount
    <3> HIDE DEF s, lot
    <3> QED
      BY <2>3 DEF Lesser
  <2>8. g[i].remaining = s.remaining - sold
    <3> HIDE DEF s, lot
    <3> QED
      BY <2>2 DEF SellFromLot
  <2>9. Held(g[i].queue) = Held(s.queue) + (lot.amount - sold)
    <3>1. CASE sold = lot.amount
      <4>1. g[i].queue = s.queue
        BY <2>2, <3>1 DEF SellFromLot
      <4> HIDE DEF s, lot, sold
      <4> QED
        BY <2>3, <2>6, <3>1, <4>1
    <3>2. CASE sold # lot.amount
      <4> DEFINE rest == [lot EXCEPT !.amount = @ - sold]
      <4>1. g[i].queue = Append(s.queue, rest)
        BY <2>2, <3>2 DEF SellFromLot
      <4>2. rest \in Lot /\ rest.amount = lot.amount - sold
        <5>1. lot.amount - sold \in Nat
          <6> HIDE DEF s, lot, sold
          <6> QED
            BY <2>3, <2>7
        <5> HIDE DEF sold, lot
        <5> QED
          BY <2>1, <5>1 DEF Lot
      <4> HIDE DEF s, lot, sold, rest
      <4> QED
        BY <2>3, <4>1, <4>2, HeldWithOneMore
    <3> QED
      BY <3>1, <3>2
  <2>10. Kept(i)
    <3>1. ASSUME NEW R \in Int, NEW c \in Int, NEW x \in Int, NEW h \in Int, NEW u \in Int,
                 x <= R, 0 <= x, R <= a, h + (a - R) = u
          PROVE  R - x <= a /\ (h + (c - x)) + (a - (R - x)) = c + u
      BY <3>1
    <3> HIDE DEF s, lot, sold
    <3>2. s.remaining \in Int /\ lot.amount \in Int /\ sold \in Int /\ Held(s.queue) \in Int
          /\ Upto(q, i - 1) \in Int /\ 0 <= sold
      BY <2>3, <2>6, <2>7
    <3>3. s.remaining - sold <= a
          /\ (Held(s.queue) + (lot.amount - sold)) + (a - (s.remaining - sold))
               = lot.amount + Upto(q, i - 1)
      BY <2>4, <2>7, <3>1, <3>2
    <3> QED
      BY <2>5, <2>8, <2>9, <3>3
  <2> QED
    BY <2>1, <2>10
<1>4. N \in P
  <2> HIDE DEF P, N
  <2>1. 0..N \subseteq P
    BY <1>0, <1>2, <1>3, IntervalInduct
  <2> QED
    BY <1>0, <2>1
<1> QED
  BY <1>1, <1>4, <1>a DEF Held

-----------------------------------------------------------------------------
(* The columns of an outcome.                                              *)

LEMMA UnresolvedRow ==
  Unresolved = [is_profitable |-> <<>>, return_usd |-> <<>>, return_percentage |-> <<>>]
  BY DEF Unresolved, Columns

LEMMA UnresolvedType == Unresolved \in Outcomes
  BY UnresolvedRow DEF Outcomes, Columns

LEMMA UnresolvedEmpty == Unresolved.is_profitable = <<>>
  BY DEF Unresolved, Columns

\* Three columns that are NULL together are an outcome.
LEMMA RowType ==
  ASSUME NEW p \in {<<>>, <<TRUE>>, <<FALSE>>}, NEW d \in Seq(Int), NEW e \in Seq(Int),
         Len(d) = Len(p), Len(e) = Len(p)
  PROVE  [is_profitable |-> p, return_usd |-> d, return_percentage |-> e] \in Outcomes
<1> DEFINE o == [is_profitable |-> p, return_usd |-> d, return_percentage |-> e]
<1>1. \A c \in Columns : Len(o[c]) = Len(o.is_profitable)
  BY DEF Columns
<1>2. o \in [is_profitable : {<<>>, <<TRUE>>, <<FALSE>>},
          return_usd : Seq(Int),
          return_percentage : Seq(Int)]
  OBVIOUS
<1> QED
  BY <1>1, <1>2 DEF Outcomes

\* A sale with a cost gets an outcome.
LEMMA ResolvedType ==
  ASSUME NEW u \in Int, NEW c \in Nat, c > 0
  PROVE  Resolved(u, c) \in Outcomes /\ Resolved(u, c).is_profitable # <<>>
<1>1. (100 * (u - c)) \div c \in Int
  OBVIOUS
<1> DEFINE p == u > c
<1>2. <<p>> \in {<<>>, <<TRUE>>, <<FALSE>>} /\ <<p>> # <<>>
  <2>1. p \in BOOLEAN
    OBVIOUS
  <2> HIDE DEF p
  <2>2. p = TRUE \/ p = FALSE
    BY <2>1, Zenon
  <2> QED
    BY <2>2
<1> DEFINE d == <<u - c>>
           e == <<(100 * (u - c)) \div c>>
<1>3. d \in Seq(Int) /\ e \in Seq(Int) /\ Len(d) = 1 /\ Len(e) = 1 /\ Len(<<p>>) = 1
  BY <1>1
<1>4. Resolved(u, c) = [is_profitable |-> <<p>>, return_usd |-> d, return_percentage |-> e]
  BY DEF Resolved
<1> HIDE DEF p, d, e
<1>5. [is_profitable |-> <<p>>, return_usd |-> d, return_percentage |-> e] \in Outcomes
  BY <1>2, <1>3, RowType, Zenon
<1> QED
  BY <1>2, <1>4, <1>5

\* An outcome is its columns.
LEMMA RowColumns == ASSUME NEW o \in Outcomes PROVE [c \in Columns |-> o[c]] = o
  BY DEF Outcomes, Columns

-----------------------------------------------------------------------------
(* The books of a wallet.                                                  *)

Trade(T) == [in : T, paid : Nat, out : T, got : Nat \ {0}, usd : Nat]
Books(T) == [open : [T -> Seq(Lot)], outcomes : Seq(Outcomes)]

\* The sales that have an outcome, the buys so far, and their amounts.
SoldAt(trades, outcomes, x) ==
  {j \in DOMAIN outcomes : trades[j].in = x /\ outcomes[j].is_profitable # <<>>}
BoughtAt(trades, i, x) == {j \in 1..i : trades[j].out = x}

SoldOf(trades, outcomes, x) == SumFunctionOnSet(PaidOf(trades), SoldAt(trades, outcomes, x))
BoughtOf(trades, i, x) == SumFunctionOnSet(GotOf(trades), BoughtAt(trades, i, x))

\* What is sold and what is left was bought.
Balanced(trades, i, books, T) ==
  /\ Len(books.outcomes) = i
  /\ \A x \in T : Held(books.open[x]) + SoldOf(trades, books.outcomes, x)
                    <= BoughtOf(trades, i, x)

\* A trade adds to what is sold if it gets an outcome.
LEMMA SoldNext ==
  ASSUME NEW T, NEW trades \in Seq(Trade(T)), NEW i \in 1..Len(trades),
         NEW outcomes \in Seq(Outcomes), Len(outcomes) = i - 1, NEW o \in Outcomes, NEW x
  PROVE  /\ SoldOf(trades, outcomes, x) \in Nat
         /\ SoldOf(trades, Append(outcomes, o), x) =
              SoldOf(trades, outcomes, x)
                + IF trades[i].in = x /\ o.is_profitable # <<>> THEN trades[i].paid ELSE 0
<1> DEFINE S == SoldAt(trades, outcomes, x)
           f == PaidOf(trades)
           sold == trades[i].in = x /\ o.is_profitable # <<>>
<1>1. /\ DOMAIN outcomes = 1..(i - 1) /\ DOMAIN Append(outcomes, o) = 1..i
      /\ Append(outcomes, o)[i] = o /\ \A j \in 1..(i - 1) : Append(outcomes, o)[j] = outcomes[j]
      /\ 1..i = 1..(i - 1) \cup {i} /\ i \notin 1..(i - 1) /\ i \in DOMAIN trades
      /\ 1..(i - 1) \subseteq DOMAIN trades /\ 1..(i - 1) \subseteq 1..i
  OBVIOUS
<1>2. SoldAt(trades, Append(outcomes, o), x) = IF sold THEN S \cup {i} ELSE S
  BY <1>1 DEF SoldAt
<1>3. IsFiniteSet(S) /\ i \notin S /\ S \subseteq DOMAIN trades
  <2>1. IsFiniteSet(1..(i - 1))
    <3>1. 1 \in Int /\ i - 1 \in Int
      OBVIOUS
    <3> QED
      BY <3>1, FS_Interval
  <2>2. S \subseteq 1..(i - 1)
    BY <1>1 DEF SoldAt
  <2> QED
    BY <1>1, <2>1, <2>2, FS_Subset
<1>4. \A j \in DOMAIN trades : f[j] = trades[j].paid /\ f[j] \in Nat
  <2>1. \A j \in DOMAIN trades : trades[j] \in Trade(T)
    OBVIOUS
  <2> QED
    BY <2>1 DEF PaidOf, Trade
<1> HIDE DEF S, f
<1>5. \A j \in S : f[j] \in Nat
  BY <1>3, <1>4
<1>6. Integral(f, S) /\ f[i] \in Int
  BY <1>1, <1>4, <1>5 DEF Integral
<1>7. SumFunctionOnSet(f, S) \in Nat
  <2>1. S \in SUBSET S
    OBVIOUS
  <2> QED
    BY <1>3, <1>5, <2>1, SumGrows
<1>8. SumFunctionOnSet(f, S \cup {i}) = trades[i].paid + SumFunctionOnSet(f, S)
  <2>1. SumFunctionOnSet(f, S \cup {i}) = f[i] + SumFunctionOnSet(f, S)
    BY <1>3, <1>6, SumWithOneMore
  <2> QED
    BY <1>1, <1>4, <2>1
<1>9. SoldOf(trades, outcomes, x) = SumFunctionOnSet(f, S)
  BY DEF SoldOf, S, f
<1>10. SoldOf(trades, Append(outcomes, o), x) = SumFunctionOnSet(f, IF sold THEN S \cup {i} ELSE S)
  BY <1>2 DEF SoldOf, f
<1>11. trades[i].paid \in Nat
  BY <1>1, <1>4
<1> HIDE DEF sold
<1>12. SoldOf(trades, Append(outcomes, o), x)
         = SumFunctionOnSet(f, S) + IF sold THEN trades[i].paid ELSE 0
  <2>1. CASE sold
    BY <1>7, <1>8, <1>10, <1>11, <2>1
  <2>2. CASE ~sold
    BY <1>7, <1>10, <2>2
  <2> QED
    BY <2>1, <2>2
<1> QED
  BY <1>7, <1>9, <1>12 DEF sold

\* Every trade adds to what is bought.
LEMMA BoughtNext ==
  ASSUME NEW T, NEW trades \in Seq(Trade(T)), NEW i \in 1..Len(trades), NEW x
  PROVE  /\ BoughtOf(trades, i - 1, x) \in Nat
         /\ BoughtOf(trades, i, x) =
              BoughtOf(trades, i - 1, x) + IF trades[i].out = x THEN trades[i].got ELSE 0
<1> DEFINE S == BoughtAt(trades, i - 1, x)
           f == GotOf(trades)
           new == trades[i].out = x
<1>1. /\ 1..i = 1..(i - 1) \cup {i} /\ i \notin 1..(i - 1) /\ i \in DOMAIN trades
      /\ 1..(i - 1) \subseteq DOMAIN trades
  OBVIOUS
<1>2. BoughtAt(trades, i, x) = IF new THEN S \cup {i} ELSE S
  BY <1>1 DEF BoughtAt
<1>3. IsFiniteSet(S) /\ i \notin S /\ S \subseteq DOMAIN trades
  <2>1. IsFiniteSet(1..(i - 1))
    <3>1. 1 \in Int /\ i - 1 \in Int
      OBVIOUS
    <3> QED
      BY <3>1, FS_Interval
  <2>2. S \subseteq 1..(i - 1)
    BY <1>1 DEF BoughtAt
  <2> QED
    BY <1>1, <2>1, <2>2, FS_Subset
<1>4. \A j \in DOMAIN trades : f[j] = trades[j].got /\ f[j] \in Nat
  <2>1. \A j \in DOMAIN trades : trades[j] \in Trade(T)
    OBVIOUS
  <2> QED
    BY <2>1 DEF GotOf, Trade
<1> HIDE DEF S, f
<1>5. \A j \in S : f[j] \in Nat
  BY <1>3, <1>4
<1>6. Integral(f, S) /\ f[i] \in Int
  BY <1>1, <1>4, <1>5 DEF Integral
<1>7. SumFunctionOnSet(f, S) \in Nat
  <2>1. S \in SUBSET S
    OBVIOUS
  <2> QED
    BY <1>3, <1>5, <2>1, SumGrows
<1>8. SumFunctionOnSet(f, S \cup {i}) = trades[i].got + SumFunctionOnSet(f, S)
  <2>1. SumFunctionOnSet(f, S \cup {i}) = f[i] + SumFunctionOnSet(f, S)
    BY <1>3, <1>6, SumWithOneMore
  <2> QED
    BY <1>1, <1>4, <2>1
<1>9. BoughtOf(trades, i - 1, x) = SumFunctionOnSet(f, S)
  BY DEF BoughtOf, S, f
<1>10. BoughtOf(trades, i, x) = SumFunctionOnSet(f, IF new THEN S \cup {i} ELSE S)
  BY <1>2 DEF BoughtOf, f
<1>11. trades[i].got \in Nat
  BY <1>1, <1>4
<1> HIDE DEF new
<1>12. BoughtOf(trades, i, x) = SumFunctionOnSet(f, S) + IF new THEN trades[i].got ELSE 0
  <2>1. CASE new
    BY <1>7, <1>8, <1>10, <1>11, <2>1
  <2>2. CASE ~new
    BY <1>7, <1>10, <2>2
  <2> QED
    BY <2>1, <2>2
<1> QED
  BY <1>7, <1>9, <1>12 DEF new

\* The update of one field, as a record.
LEMMA OutcomesUpdated ==
  ASSUME NEW T, NEW books \in Books(T), NEW o
  PROVE  [books EXCEPT !.outcomes = Append(@, o)]
           = [open |-> books.open, outcomes |-> Append(books.outcomes, o)]
<1> DEFINE O == [T -> Seq(Lot)]
           R == Seq(Outcomes)
<1>1. books \in [open : O, outcomes : R]
  BY DEF Books
<1> HIDE DEF O, R
<1>2. ASSUME NEW v PROVE [books EXCEPT !.outcomes = v] = [open |-> books.open, outcomes |-> v]
  BY <1>1
<1> QED
  BY <1>2

\* The open lots after a trade: queue is left of those of token a, and there is a
\* new lot of token b.
AfterTrade(open, a, b, queue, lot) ==
  LET held == [open EXCEPT ![a] = queue]
  IN [held EXCEPT ![b] = Append(@, lot)]

\* The n units a queue has lost.
Leaves(T, open, a, queue, n) ==
  /\ open \in [T -> Seq(Lot)] /\ a \in T /\ queue \in Seq(Lot) /\ n \in Nat
  /\ Held(queue) + n = Held(open[a])

\* Every token holds n less or the new lot more, and both if a = b.
HeldChanges(T, open, a, b, queue, lot, n) ==
  LET next == AfterTrade(open, a, b, queue, lot)
  IN /\ next \in [T -> Seq(Lot)]
     /\ \A x \in T : Held(next[x]) + (IF a = x THEN n ELSE 0)
                       = Held(open[x]) + (IF b = x THEN lot.amount ELSE 0)

LEMMA HeldAfter ==
  ASSUME NEW T, NEW open, NEW a, NEW b \in T, NEW queue, NEW lot \in Lot, NEW n,
         Leaves(T, open, a, queue, n)
  PROVE  HeldChanges(T, open, a, b, queue, lot, n)
<1> USE DEF Leaves
<1> SUFFICES ASSUME NEW x \in T
             PROVE  /\ AfterTrade(open, a, b, queue, lot) \in [T -> Seq(Lot)]
                    /\ Held(AfterTrade(open, a, b, queue, lot)[x]) + (IF a = x THEN n ELSE 0)
                         = Held(open[x]) + (IF b = x THEN lot.amount ELSE 0)
  BY DEF HeldChanges
<1> DEFINE held == [open EXCEPT ![a] = queue]
           next == [held EXCEPT ![b] = Append(@, lot)]
<1>1. \A q \in Seq(Lot) : Held(q) \in Nat
  <2> TAKE q \in Seq(Lot)
  <2>1. Len(q) \in 0..Len(q)
    OBVIOUS
  <2> QED
    BY <2>1, AmountsAreNat DEF Held
<1>2. held \in [T -> Seq(Lot)] /\ next \in [T -> Seq(Lot)]
  <2>1. held \in [T -> Seq(Lot)]
    OBVIOUS
  <2> HIDE DEF held
  <2>2. Append(held[b], lot) \in Seq(Lot)
    BY <2>1
  <2> QED
    BY <2>1, <2>2
<1>3. Held(held[x]) + (IF a = x THEN n ELSE 0) = Held(open[x])
  <2>1. CASE a = x
    BY <2>1
  <2>2. CASE a # x
    <3>1. Held(open[x]) \in Nat
      BY <1>1
    <3> QED
      BY <2>2, <3>1
  <2> QED
    BY <2>1, <2>2
<1>4. Held(next[x]) = Held(held[x]) + (IF b = x THEN lot.amount ELSE 0)
  <2>1. Held(held[x]) \in Nat /\ held[x] \in Seq(Lot)
    BY <1>1, <1>2
  <2>2. CASE b = x
    <3>1. next[x] = Append(held[x], lot)
      BY <1>2, <2>2
    <3> HIDE DEF next, held
    <3>2. Held(next[x]) = Held(held[x]) + lot.amount
      BY <2>1, <3>1, HeldWithOneMore
    <3> QED
      BY <2>2, <3>2
  <2>3. CASE b # x
    <3>1. next[x] = held[x]
      BY <1>2, <2>3
    <3> HIDE DEF next, held
    <3> QED
      BY <2>1, <2>3, <3>1
  <2> QED
    BY <2>2, <2>3
<1>5. Held(held[x]) \in Nat /\ Held(open[x]) \in Nat /\ lot.amount \in Nat
  BY <1>1, <1>2 DEF Lot
<1> HIDE DEF held, next
<1>6. Held(next[x]) + (IF a = x THEN n ELSE 0)
        = Held(open[x]) + (IF b = x THEN lot.amount ELSE 0)
  <2>1. ASSUME NEW h \in Int, NEW y \in Int, NEW z \in Int, NEW k \in Int, h + y = z
        PROVE  (h + k) + y = z + k
    BY <2>1
  <2>2. (IF a = x THEN n ELSE 0) \in Int /\ (IF b = x THEN lot.amount ELSE 0) \in Int
    BY <1>5
  <2> HIDE DEF Held
  <2> QED
    BY <1>3, <1>4, <1>5, <2>1, <2>2
<1> QED
  BY <1>2, <1>6 DEF held, next, AfterTrade

\* Lots hold a number of units.
LEMMA HeldIsNat == ASSUME NEW q \in Seq(Lot) PROVE Held(q) \in Nat
<1>1. Len(q) \in 0..Len(q)
  OBVIOUS
<1> QED
  BY <1>1, AmountsAreNat DEF Held

\* A trade as the books see it: n units are taken for the sale, all it asks for if it
\* gets an outcome, and at most as many are added as it buys.
Booked(T, books, t, open, o, n) ==
  /\ Account(books, t) = [open |-> open, outcomes |-> Append(books.outcomes, o)]
  /\ o.is_profitable # <<>> => n = t.paid
  /\ \A x \in T : Held(open[x]) + (IF t.in = x THEN n ELSE 0)
                    <= Held(books.open[x]) + (IF t.out = x THEN t.got ELSE 0)

\* What Account does, with a price and without.
LEMMA AccountBooks ==
  ASSUME NEW T, NEW t \in Trade(T), NEW books \in Books(T)
  PROVE  \E open \in [T -> Seq(Lot)], o \in Outcomes, n \in Nat : Booked(T, books, t, open, o, n)
<1> DEFINE sale == Sell(books.open[t.in], t.paid)
           lot  == [amount |-> t.got, unit_cost |-> t.usd \div t.got]
           row == IF sale.remaining = 0 /\ sale.cost > 0 THEN Resolved(t.usd, sale.cost)
                  ELSE Unresolved
           next == AfterTrade(books.open, t.in, t.out, sale.queue, lot)
<1>1. t.in \in T /\ t.out \in T /\ t.paid \in Nat /\ t.got \in Nat \ {0} /\ t.usd \in Nat
  BY DEF Trade
<1>2. books.open \in [T -> Seq(Lot)]
  BY DEF Books
<1>4. books.open[t.in] \in Seq(Lot)
  BY <1>1, <1>2
<1>5. /\ sale \in Sale /\ sale.remaining <= t.paid
      /\ Held(sale.queue) + (t.paid - sale.remaining) = Held(books.open[t.in])
  <2> DEFINE q == books.open[t.in]
  <2> HIDE DEF q
  <2>1. q \in Seq(Lot) /\ t.paid \in Nat
    BY <1>1, <1>4 DEF q
  <2>2. /\ Sell(q, t.paid) \in Sale
        /\ Sell(q, t.paid).remaining <= t.paid
        /\ Held(Sell(q, t.paid).queue) + (t.paid - Sell(q, t.paid).remaining) = Held(q)
    BY <2>1, SellTakes
  <2> QED
    BY <2>2 DEF q
<1>6. Account(books, t) =
        IF t.usd = 0
        THEN [open |-> books.open, outcomes |-> Append(books.outcomes, Unresolved)]
        ELSE [open |-> next, outcomes |-> Append(books.outcomes, row)]
  <2> HIDE DEF sale
  <2>1. [books EXCEPT !.outcomes = Append(@, Unresolved)]
          = [open |-> books.open, outcomes |-> Append(books.outcomes, Unresolved)]
    BY OutcomesUpdated
  <2> QED
    BY <2>1 DEF Account, AfterTrade, sale
<1> HIDE DEF sale
<1>7. sale.remaining \in Nat /\ sale.cost \in Nat /\ sale.queue \in Seq(Lot)
  BY <1>5 DEF Sale
<1>8. /\ Unresolved \in Outcomes /\ Unresolved.is_profitable = <<>>
      /\ row \in Outcomes /\ (row.is_profitable # <<>> => sale.remaining = 0)
  <2>1. sale.cost > 0 => Resolved(t.usd, sale.cost) \in Outcomes
    BY <1>1, <1>7, ResolvedType
  <2> QED
    BY <2>1, UnresolvedType, UnresolvedEmpty
<1>9. lot \in Lot /\ lot.amount = t.got
  <2>1. t.usd \div t.got \in Nat
    BY <1>1
  <2> QED
    BY <1>1, <2>1 DEF Lot
<1> HIDE DEF lot, row
<1>10. \A q \in Seq(Lot) : Held(q) \in Nat
  BY HeldIsNat
<1>11. \A x \in T : Held(books.open[x]) \in Nat
  BY <1>2, <1>10
<1>12. CASE t.usd = 0
  <2>1. \A x \in T : Held(books.open[x]) + (IF t.in = x THEN 0 ELSE 0)
                       <= Held(books.open[x]) + (IF t.out = x THEN t.got ELSE 0)
    BY <1>1, <1>11
  <2>2. Booked(T, books, t, books.open, Unresolved, 0)
    BY <1>6, <1>8, <1>12, <2>1 DEF Booked
  <2> QED
    BY <1>2, <1>8, <2>2
<1>13. CASE t.usd # 0
  <2> DEFINE n == t.paid - sale.remaining
  <2>1. n \in Nat /\ (row.is_profitable # <<>> => n = t.paid)
    BY <1>1, <1>5, <1>7, <1>8
  <2>2. HeldChanges(T, books.open, t.in, t.out, sale.queue, lot, n)
    <3>1. Leaves(T, books.open, t.in, sale.queue, n)
      BY <1>1, <1>2, <1>5, <1>7, <2>1 DEF Leaves
    <3> HIDE DEF n
    <3> QED
      BY <1>1, <1>9, <3>1, HeldAfter, Zenon
  <2> HIDE DEF n
  <2>3. /\ next \in [T -> Seq(Lot)]
        /\ \A x \in T : Held(next[x]) + (IF t.in = x THEN n ELSE 0)
                          = Held(books.open[x]) + (IF t.out = x THEN t.got ELSE 0)
    BY <1>9, <2>2 DEF HeldChanges
  <2> HIDE DEF next
  <2>4. \A x \in T : Held(next[x]) + (IF t.in = x THEN n ELSE 0)
                       <= Held(books.open[x]) + (IF t.out = x THEN t.got ELSE 0)
    BY <1>1, <1>11, <2>3
  <2>5. Booked(T, books, t, next, row, n)
    BY <1>6, <1>13, <2>1, <2>4 DEF Booked
  <2> QED
    BY <1>8, <2>1, <2>3, <2>5
<1> QED
  BY <1>12, <1>13

\* Account makes books of books.
LEMMA AccountType ==
  ASSUME NEW T, NEW t \in Trade(T), NEW books \in Books(T)
  PROVE  Account(books, t) \in Books(T)
<1> PICK open \in [T -> Seq(Lot)], o \in Outcomes, n \in Nat : Booked(T, books, t, open, o, n)
  BY AccountBooks
<1>1. Append(books.outcomes, o) \in Seq(Outcomes)
  BY DEF Books
<1> QED
  BY <1>1 DEF Books, Booked

\* The books stay balanced.
LEMMA AccountKeeps ==
  ASSUME NEW T, NEW trades \in Seq(Trade(T)), NEW i \in 1..Len(trades),
         NEW books \in Books(T), Balanced(trades, i - 1, books, T)
  PROVE  Balanced(trades, i, Account(books, trades[i]), T)
<1> DEFINE t == trades[i]
<1>1. t \in Trade(T)
  OBVIOUS
<1> HIDE DEF t
<1> PICK open \in [T -> Seq(Lot)], o \in Outcomes, n \in Nat : Booked(T, books, t, open, o, n)
  BY <1>1, AccountBooks
<1>2. /\ books.outcomes \in Seq(Outcomes) /\ books.open \in [T -> Seq(Lot)]
      /\ Len(books.outcomes) = i - 1
  BY DEF Books, Balanced
<1>3. Account(books, t) = [open |-> open, outcomes |-> Append(books.outcomes, o)]
  BY DEF Booked
<1>4. Len(Append(books.outcomes, o)) = i
  BY <1>2
<1>5. t.paid \in Nat /\ t.got \in Nat
  BY <1>1 DEF Trade
<1>6. ASSUME NEW x \in T
      PROVE  Held(open[x]) + SoldOf(trades, Append(books.outcomes, o), x)
               <= BoughtOf(trades, i, x)
  <2> DEFINE y == IF t.in = x /\ o.is_profitable # <<>> THEN t.paid ELSE 0
             z == IF t.in = x THEN n ELSE 0
             g == IF t.out = x THEN t.got ELSE 0
  <2>1. y \in Nat /\ z \in Nat /\ g \in Nat /\ y <= z
    <3>1. o.is_profitable # <<>> => n = t.paid
      BY DEF Booked
    <3> QED
      BY <1>5, <3>1
  <2>2. /\ SoldOf(trades, books.outcomes, x) \in Nat
        /\ SoldOf(trades, Append(books.outcomes, o), x) = SoldOf(trades, books.outcomes, x) + y
    BY <1>2, SoldNext DEF t
  <2>3. /\ BoughtOf(trades, i - 1, x) \in Nat
        /\ BoughtOf(trades, i, x) = BoughtOf(trades, i - 1, x) + g
    BY BoughtNext DEF t
  <2>4. Held(open[x]) + z <= Held(books.open[x]) + g
    BY DEF Booked
  <2>5. Held(books.open[x]) + SoldOf(trades, books.outcomes, x) <= BoughtOf(trades, i - 1, x)
    BY DEF Balanced
  <2>6. Held(open[x]) \in Nat /\ Held(books.open[x]) \in Nat
    <3>1. open[x] \in Seq(Lot) /\ books.open[x] \in Seq(Lot)
      BY <1>2
    <3> QED
      BY <3>1, HeldIsNat
  <2> HIDE DEF y, z, g
  <2> QED
    BY <2>1, <2>2, <2>3, <2>4, <2>5, <2>6
<1>7. Balanced(trades, i, Account(books, t), T)
  BY <1>3, <1>4, <1>6 DEF Balanced
<1> QED
  BY <1>7 DEF t

\* Fifo goes through the trades one by one.
AccountStep(trades, T) == [z \in (1..Len(trades)) \X Books(T) |-> Account(z[2], trades[z[1]])]
NoBooks(T) == [open |-> [x \in T |-> <<>>], outcomes |-> <<>>]
LEMMA FifoCounts ==
  ASSUME NEW trades, trades \in Seq(Trade(Tokens(trades)))
  PROVE  \E g : /\ Counts(g, Len(trades), Books(Tokens(trades)), NoBooks(Tokens(trades)),
                          AccountStep(trades, Tokens(trades)))
                /\ Fifo(trades) = g[Len(trades)].outcomes
<1> DEFINE N == Len(trades)
           T == Tokens(trades)
           V == Books(T)
           base == [open |-> [x \in Tokens(trades) |-> <<>>], outcomes |-> <<>>]
           step == AccountStep(trades, T)
           Body(s, f) == IF s = {} THEN base
                         ELSE LET x == Max(s) IN Account(f[s \ {x}], trades[x])
           fold == CHOOSE f : f = [s \in SUBSET DOMAIN trades |-> Body(s, f)]
<1>0. N \in Nat /\ DOMAIN trades = 1..N /\ IsFiniteSet(1..N) /\ base \in V
  <2>1. N \in Nat /\ DOMAIN trades = 1..N /\ 1 \in Int
    OBVIOUS
  <2>2. [x \in T |-> <<>>] \in [T -> Seq(Lot)] /\ <<>> \in Seq(Outcomes)
    <3> HIDE DEF T
    <3> QED
      OBVIOUS
  <2>3. base \in V
    <3> HIDE DEF T
    <3> QED
      BY <2>2 DEF Books, T
  <2> QED
    BY <2>1, <2>3, FS_Interval
<1>1. Fifo(trades) = fold[1..N].outcomes
  BY <1>0 DEF Fifo, FoldLeft, MapThenFoldSet
<1>2. step \in [(1..N) \X V -> V]
  <2>1. \A i \in 1..N : trades[i] \in Trade(T)
    <3> HIDE DEF T
    <3>1. trades \in Seq(Trade(T))
      BY DEF T
    <3> QED
      BY <1>0, <3>1
  <2> QED
    BY <2>1, AccountType DEF AccountStep
<1>3. PICK h : Iterates(h, 1..N, V, base, Greatest(1..N), step)
  <2> HIDE DEF N, base, Body, V, step
  <2> QED
    BY <1>0, <1>2, GreatestChooses, Iteration, Zenon
<1>4. \A s \in SUBSET (1..N) : s # {} =>
        Max(s) \in 1..N /\ h[s \ {Max(s)}] \in V /\ h[s] = Account(h[s \ {Max(s)}], trades[Max(s)])
  <2> SUFFICES ASSUME NEW s \in SUBSET (1..N), s # {}
               PROVE Max(s) \in 1..N /\ h[s \ {Max(s)}] \in V
                     /\ h[s] = Account(h[s \ {Max(s)}], trades[Max(s)])
    OBVIOUS
  <2>1. Max(s) \in 1..N /\ s \ {Max(s)} \in SUBSET (1..N)
    BY <1>0, MaxOfSome
  <2> HIDE DEF V, base
  <2>2. h[s \ {Max(s)}] \in V
    BY <1>3, <2>1 DEF Iterates
  <2>3. h[s] = step[Max(s), h[s \ {Max(s)}]]
    <3> HIDE DEF step
    <3> QED
      BY <1>3 DEF Iterates, Greatest
  <2> QED
    BY <2>1, <2>2, <2>3 DEF AccountStep, V
<1>5. h = [s \in SUBSET (1..N) |-> Body(s, h)]
  <2> HIDE DEF V, base, step
  <2> QED
    BY <1>3, <1>4 DEF Iterates
<1>6. fold = [s \in SUBSET (1..N) |-> Body(s, fold)]
  <2> HIDE DEF Body
  <2> QED
    BY <1>0, <1>5
<1>7. SUBSET (1..N) \subseteq {s \in SUBSET (1..N) : fold[s] = h[s]}
  <2> DEFINE P == {s \in SUBSET (1..N) : fold[s] = h[s]}
  <2> HIDE DEF base
  <2>1. {} \in P
    BY <1>5, <1>6
  <2>2. ASSUME NEW U \in SUBSET (1..N), U # {}, \A y \in U : U \ {y} \in P PROVE U \in P
    <3>1. Max(U) \in U
      BY <1>0, <2>2, MaxOfSome
    <3>2. fold[U \ {Max(U)}] = h[U \ {Max(U)}]
      BY <2>2, <3>1
    <3>3. Body(U, fold) = Body(U, h)
      BY <2>2, <3>2
    <3> HIDE DEF Body, fold
    <3> QED
      BY <1>5, <1>6, <3>3
  <2>3. SUBSET (1..N) \subseteq P
    <3> DEFINE D == 1..N
    <3>1. IsFiniteSet(D) /\ {} \in P
      BY <1>0, <2>1
    <3>2. \A U \in SUBSET D : U # {} /\ (\A y \in U : U \ {y} \in P) => U \in P
      <4> HIDE DEF P
      <4> QED
        BY <2>2
    <3> HIDE DEF P, D
    <3>3. SUBSET D \subseteq P
      BY <3>1, <3>2, FinInduct
    <3> QED
      BY <3>3 DEF D
  <2> QED
    BY <2>3 DEF P
<1>8. fold[1..N] = h[1..N]
  <2> HIDE DEF fold
  <2> QED
    BY <1>7
<1>9. Counts([i \in 0..N |-> h[1..i]], N, V, base, step)
  <2> HIDE DEF N, base, Body, fold, V, step
  <2> QED
    BY <1>0, <1>3, OneByOne
<1>10. [i \in 0..N |-> h[1..i]][N] = h[1..N]
  BY <1>0
<1> HIDE DEF fold, Body, V, step
<1>11. base = NoBooks(T)
  BY DEF NoBooks
<1> HIDE DEF base, T
<1>12. Counts([i \in 0..N |-> h[1..i]], N, V, NoBooks(T), step)
       /\ Fifo(trades) = [i \in 0..N |-> h[1..i]][N].outcomes
  BY <1>1, <1>8, <1>9, <1>10, <1>11
<1> QED
  BY <1>12, Zenon DEF V, step, T

\* Before the first trade nothing is sold or bought.
LEMMA SoldOfNone ==
  ASSUME NEW trades, NEW x
  PROVE  SoldOf(trades, <<>>, x) = 0 /\ BoughtOf(trades, 0, x) = 0
<1>1. SoldAt(trades, <<>>, x) = {} /\ BoughtAt(trades, 0, x) = {}
  BY DEF SoldAt, BoughtAt
<1> QED
  BY <1>1, SumOfNone DEF SoldOf, BoughtOf

\* resolve_pending_trade_outcomes, the loop over the trades of a wallet: each gets
\* one outcome, and of no token do the sales with an outcome exceed the purchases.
THEOREM FifoBalances ==
  ASSUME NEW trades, trades \in Seq(Trade(Tokens(trades)))
  PROVE  /\ Fifo(trades) \in Seq(Outcomes) /\ Len(Fifo(trades)) = Len(trades)
         /\ \A x \in Tokens(trades) :
              SoldOf(trades, Fifo(trades), x) <= BoughtOf(trades, Len(trades), x)
<1> DEFINE N == Len(trades)
           T == Tokens(trades)
           V == Books(T)
           step == AccountStep(trades, T)
<1>1. PICK g : Counts(g, N, V, NoBooks(T), step) /\ Fifo(trades) = g[N].outcomes
  BY FifoCounts
<1>2. N \in Nat /\ trades \in Seq(Trade(T))
  OBVIOUS
<1> HIDE DEF T
<1>3. Counting(g, N, V, NoBooks(T), step)
  <2> HIDE DEF N, V, step
  <2> QED
    BY <1>1, <1>2, Counted, Zenon
<1> DEFINE P == {i \in 0..N : Balanced(trades, i, g[i], T)}
<1>4. 0 \in P
  <2>1. g[0] = NoBooks(T) /\ 0 \in 0..N
    BY <1>3 DEF Counting
  <2>2. \A x \in T : Held(<<>>) + SoldOf(trades, <<>>, x) <= BoughtOf(trades, 0, x)
    BY HeldNone, SoldOfNone
  <2>3. Balanced(trades, 0, NoBooks(T), T)
    BY <2>2 DEF Balanced, NoBooks
  <2> QED
    BY <2>1, <2>3
<1>5. ASSUME NEW i \in 1..N, i - 1 \in P PROVE i \in P
  <2>1. /\ i \in 0..N /\ i - 1 \in 0..N /\ g[i - 1] \in V /\ g[i] = step[i, g[i - 1]]
    <3> HIDE DEF N, V, step
    <3> QED
      BY <1>3 DEF Counting
  <2>2. g[i] = Account(g[i - 1], trades[i])
    <3> HIDE DEF V
    <3> QED
      BY <2>1 DEF AccountStep, V
  <2>3. Balanced(trades, i, Account(g[i - 1], trades[i]), T)
    <3>1. Balanced(trades, i - 1, g[i - 1], T)
      BY <1>5
    <3> QED
      BY <1>2, <2>1, <3>1, AccountKeeps
  <2> QED
    BY <2>1, <2>2, <2>3
<1>6. N \in P
  <2> HIDE DEF P, N
  <2>1. 0..N \subseteq P
    BY <1>2, <1>4, <1>5, IntervalInduct
  <2> QED
    BY <1>2, <2>1
<1>7. g[N] \in V
  BY <1>3 DEF Counting
<1>8. g[N].outcomes \in Seq(Outcomes) /\ Len(g[N].outcomes) = N
      /\ \A x \in T : Held(g[N].open[x]) \in Nat
  <2>1. g[N].open \in [T -> Seq(Lot)] /\ g[N].outcomes \in Seq(Outcomes)
    BY <1>7 DEF Books
  <2> QED
    BY <1>6, <2>1, HeldIsNat DEF Balanced
<1>9. ASSUME NEW x \in T
      PROVE  SoldOf(trades, g[N].outcomes, x) <= BoughtOf(trades, N, x)
  <2>1. Held(g[N].open[x]) + SoldOf(trades, g[N].outcomes, x) <= BoughtOf(trades, N, x)
    BY <1>6 DEF Balanced
  <2>2. Held(g[N].open[x]) \in Nat
    BY <1>8
  <2>3. SoldOf(trades, g[N].outcomes, x) \in Nat
    <3> DEFINE o == g[N].outcomes
               S == SoldAt(trades, o, x)
               f == PaidOf(trades)
    <3>1. IsFiniteSet(S) /\ S \in SUBSET (1..N)
      <4>1. IsFiniteSet(1..N)
        BY <1>2, FS_Interval, 1 \in Int, N \in Int
      <4>2. S \in SUBSET (1..N)
        BY <1>8 DEF SoldAt
      <4> QED
        BY <4>1, <4>2, FS_Subset
    <3>2. \A j \in 1..N : f[j] \in Nat
      <4>1. \A j \in 1..N : trades[j] \in Trade(T) /\ j \in DOMAIN trades
        BY <1>2
      <4> QED
        BY <4>1 DEF PaidOf, Trade
    <3> HIDE DEF S, f, N
    <3>3. S \in SUBSET S /\ \A j \in S : f[j] \in Nat
      BY <3>1, <3>2
    <3>4. SumFunctionOnSet(f, S) \in Nat
      BY <3>1, <3>3, SumGrows
    <3> QED
      BY <3>4 DEF SoldOf, S, f
  <2>4. BoughtOf(trades, N, x) \in Nat
    <3> DEFINE S == BoughtAt(trades, N, x)
               f == GotOf(trades)
    <3>1. IsFiniteSet(S) /\ S \in SUBSET (1..N)
      <4>1. IsFiniteSet(1..N)
        BY <1>2, FS_Interval, 1 \in Int, N \in Int
      <4>2. S \in SUBSET (1..N)
        BY DEF BoughtAt
      <4> QED
        BY <4>1, <4>2, FS_Subset
    <3>2. \A j \in 1..N : f[j] \in Nat
      <4>1. \A j \in 1..N : trades[j] \in Trade(T) /\ j \in DOMAIN trades
        BY <1>2
      <4> QED
        BY <4>1 DEF GotOf, Trade
    <3> HIDE DEF S, f, N
    <3>3. S \in SUBSET S /\ \A j \in S : f[j] \in Nat
      BY <3>1, <3>2
    <3>4. SumFunctionOnSet(f, S) \in Nat
      BY <3>1, <3>3, SumGrows
    <3> QED
      BY <3>4 DEF BoughtOf, S, f
  <2> HIDE DEF N
  <2> QED
    BY <2>1, <2>2, <2>3, <2>4
<1> QED
  BY <1>1, <1>8, <1>9 DEF T, N

-----------------------------------------------------------------------------
(* What the units of a history are.                                        *)

\* A trade whose value is a multiple of what it buys.
Priced(T) == {t \in Trade(T) : t.paid > 0 /\ t.usd % t.got = 0}

\* Trade i adds to the purchases, and to what the sales ask for.
Buys(trades, i, x)  == trades[i].usd > 0 /\ trades[i].out = x
Sells(trades, i, x) == trades[i].usd > 0 /\ trades[i].in = x

\* The amounts that are summed up, and their sums.
LEMMA AmountsOfTrades ==
  ASSUME NEW T, NEW trades \in Seq(Trade(T)), NEW S, S \subseteq DOMAIN trades
  PROVE  /\ IsFiniteSet(S)
         /\ \A j \in S : /\ GotOf(trades)[j] = trades[j].got /\ GotOf(trades)[j] \in Nat
                         /\ PaidOf(trades)[j] = trades[j].paid /\ PaidOf(trades)[j] \in Nat
         /\ Integral(GotOf(trades), S) /\ Integral(PaidOf(trades), S)
         /\ SumFunctionOnSet(GotOf(trades), S) \in Nat
         /\ SumFunctionOnSet(PaidOf(trades), S) \in Nat
<1>1. IsFiniteSet(S)
  <2>1. IsFiniteSet(DOMAIN trades)
    <3>1. DOMAIN trades = 1..Len(trades) /\ 1 \in Int /\ Len(trades) \in Int
      OBVIOUS
    <3> QED
      BY <3>1, FS_Interval
  <2> QED
    BY <2>1, FS_Subset
<1>2. \A j \in S : /\ GotOf(trades)[j] = trades[j].got /\ GotOf(trades)[j] \in Nat
                   /\ PaidOf(trades)[j] = trades[j].paid /\ PaidOf(trades)[j] \in Nat
  <2> TAKE j \in S
  <2>1. j \in DOMAIN trades /\ trades[j] \in Trade(T)
    OBVIOUS
  <2> QED
    BY <2>1 DEF GotOf, PaidOf, Trade
<1>3. Integral(GotOf(trades), S) /\ Integral(PaidOf(trades), S)
  BY <1>2 DEF Integral
<1>4. S \in SUBSET S
  OBVIOUS
<1>5. SumFunctionOnSet(GotOf(trades), S) \in Nat
  BY <1>1, <1>2, <1>4, SumGrows
<1>6. SumFunctionOnSet(PaidOf(trades), S) \in Nat
  BY <1>1, <1>2, <1>4, SumGrows
<1> QED
  BY <1>1, <1>2, <1>3, <1>5, <1>6

\* What the next trade adds to the purchases.
LEMMA BoughtGrows ==
  ASSUME NEW T, NEW trades \in Seq(Trade(T)), NEW i \in 1..Len(trades), NEW x
  PROVE  /\ Bought(trades, i, x) \in Nat
         /\ Bought(trades, i + 1, x) =
              Bought(trades, i, x) + IF Buys(trades, i, x) THEN trades[i].got ELSE 0
<1> DEFINE S == BuysBefore(trades, i, x)
           f == GotOf(trades)
<1>1. /\ 1..((i + 1) - 1) = 1..(i - 1) \cup {i} /\ i \notin 1..(i - 1) /\ i \in DOMAIN trades
      /\ 1..(i - 1) \subseteq DOMAIN trades
  OBVIOUS
<1>2. BuysBefore(trades, i + 1, x) = IF Buys(trades, i, x) THEN S \cup {i} ELSE S
  BY <1>1 DEF BuysBefore, Buys
<1>3. i \notin S /\ S \subseteq DOMAIN trades
  BY <1>1 DEF BuysBefore
<1>4. IsFiniteSet(S) /\ Integral(f, S) /\ SumFunctionOnSet(f, S) \in Nat
  BY <1>3, AmountsOfTrades
<1>5. f[i] = trades[i].got /\ f[i] \in Nat
  <2>1. {i} \subseteq DOMAIN trades
    BY <1>1
  <2> QED
    BY <2>1, AmountsOfTrades
<1> HIDE DEF S, f
<1>6. SumFunctionOnSet(f, S \cup {i}) = trades[i].got + SumFunctionOnSet(f, S)
  <2>1. f[i] \in Int
    BY <1>5
  <2>2. SumFunctionOnSet(f, S \cup {i}) = f[i] + SumFunctionOnSet(f, S)
    BY <1>3, <1>4, <2>1, SumWithOneMore
  <2> QED
    BY <1>5, <2>2
<1>7. Bought(trades, i, x) = SumFunctionOnSet(f, S)
  BY DEF Bought, f, S
<1>8. Bought(trades, i + 1, x) = SumFunctionOnSet(f, IF Buys(trades, i, x) THEN S \cup {i} ELSE S)
  BY <1>2 DEF Bought, f
<1>9. CASE Buys(trades, i, x)
  BY <1>4, <1>5, <1>6, <1>7, <1>8, <1>9
<1>10. CASE ~Buys(trades, i, x)
  BY <1>4, <1>7, <1>8, <1>10
<1> QED
  BY <1>9, <1>10

\* What the next trade adds to the sales.
LEMMA AskedGrows ==
  ASSUME NEW T, NEW trades \in Seq(Trade(T)), NEW i \in 1..Len(trades), NEW x
  PROVE  /\ Asked(trades, i, x) \in Nat
         /\ Asked(trades, i + 1, x) =
              Asked(trades, i, x) + IF Sells(trades, i, x) THEN trades[i].paid ELSE 0
         /\ SalesBefore(trades, i + 1, x) =
              SalesBefore(trades, i, x) \cup IF Sells(trades, i, x) THEN {i} ELSE {}
<1> DEFINE S == SalesBefore(trades, i, x)
           f == PaidOf(trades)
<1>1. /\ 1..((i + 1) - 1) = 1..(i - 1) \cup {i} /\ i \notin 1..(i - 1) /\ i \in DOMAIN trades
      /\ 1..(i - 1) \subseteq DOMAIN trades
  OBVIOUS
<1>2. SalesBefore(trades, i + 1, x) = IF Sells(trades, i, x) THEN S \cup {i} ELSE S
  BY <1>1 DEF SalesBefore, Sells
<1>3. i \notin S /\ S \subseteq DOMAIN trades
  BY <1>1 DEF SalesBefore
<1>4. IsFiniteSet(S) /\ Integral(f, S) /\ SumFunctionOnSet(f, S) \in Nat
  BY <1>3, AmountsOfTrades
<1>5. f[i] = trades[i].paid /\ f[i] \in Nat
  <2>1. {i} \subseteq DOMAIN trades
    BY <1>1
  <2> QED
    BY <2>1, AmountsOfTrades
<1> HIDE DEF S, f
<1>6. SumFunctionOnSet(f, S \cup {i}) = trades[i].paid + SumFunctionOnSet(f, S)
  <2>1. f[i] \in Int
    BY <1>5
  <2>2. SumFunctionOnSet(f, S \cup {i}) = f[i] + SumFunctionOnSet(f, S)
    BY <1>3, <1>4, <2>1, SumWithOneMore
  <2> QED
    BY <1>5, <2>2
<1>7. Asked(trades, i, x) = SumFunctionOnSet(f, S)
  BY DEF Asked, f, S
<1>8. Asked(trades, i + 1, x) = SumFunctionOnSet(f, IF Sells(trades, i, x) THEN S \cup {i} ELSE S)
  BY <1>2 DEF Asked, f
<1>9. CASE Sells(trades, i, x)
  BY <1>2, <1>4, <1>5, <1>6, <1>7, <1>8, <1>9 DEF S
<1>10. CASE ~Sells(trades, i, x)
  BY <1>2, <1>4, <1>7, <1>8, <1>10 DEF S
<1> QED
  BY <1>9, <1>10

\* Trades i to k - 1 can only add to the purchases.
LEMMA BoughtIsMonotonic ==
  ASSUME NEW T, NEW trades \in Seq(Trade(T)), NEW x,
         NEW i \in 1..(Len(trades) + 1), NEW k \in i..(Len(trades) + 1)
  PROVE  /\ Bought(trades, i, x) \in Nat /\ Bought(trades, k, x) \in Nat
         /\ Bought(trades, i, x) <= Bought(trades, k, x)
<1> DEFINE S == BuysBefore(trades, k, x)
           U == BuysBefore(trades, i, x)
           f == GotOf(trades)
<1>1. U \in SUBSET S /\ S \subseteq DOMAIN trades
  <2>1. 1..(i - 1) \subseteq 1..(k - 1) /\ 1..(k - 1) \subseteq DOMAIN trades
    OBVIOUS
  <2> QED
    BY <2>1 DEF BuysBefore
<1>2. IsFiniteSet(S) /\ \A j \in S : f[j] \in Nat
  BY <1>1, AmountsOfTrades
<1>3. SumFunctionOnSet(f, S) \in Nat
  BY <1>1, AmountsOfTrades
<1> HIDE DEF S, U, f
<1>4. SumFunctionOnSet(f, U) \in Nat /\ SumFunctionOnSet(f, U) <= SumFunctionOnSet(f, S)
  BY <1>1, <1>2, SumGrows
<1> QED
  BY <1>3, <1>4 DEF Bought, S, U, f

\* The units a trade buys cost what it says.
LEMMA UnitsOfTrade ==
  ASSUME NEW T, NEW trades \in Seq(Trade(T)), NEW i \in 1..Len(trades), NEW x,
         Buys(trades, i, x), NEW n \in Nat, n - Bought(trades, i, x) \in 1..trades[i].got
  PROVE  UnitCost(trades, n, x) = trades[i].usd \div trades[i].got
<1> DEFINE N == Len(trades)
           S == BuysBefore(trades, N + 1, x)
           Has(k) == n - Bought(trades, k, x) \in 1..trades[k].got
<1>1. i \in S /\ Has(i)
  <2>1. i \in 1..((N + 1) - 1)
    OBVIOUS
  <2> QED
    BY <2>1 DEF BuysBefore, Buys
<1>2. \A k \in S : k \in 1..N /\ Buys(trades, k, x)
  BY DEF BuysBefore, Buys
<1>3. \A k \in 1..N : trades[k].got \in Nat
  <2>1. \A k \in 1..N : trades[k] \in Trade(T)
    OBVIOUS
  <2> QED
    BY <2>1 DEF Trade
<1>4. ASSUME NEW k \in 1..N, NEW l \in 1..N, k < l, Buys(trades, k, x), Has(k), Has(l)
      PROVE  FALSE
  <2>1. Bought(trades, k + 1, x) = Bought(trades, k, x) + trades[k].got /\ Bought(trades, k, x) \in Nat
    BY <1>4, BoughtGrows
  <2>2. Bought(trades, k + 1, x) <= Bought(trades, l, x) /\ Bought(trades, l, x) \in Nat
    <3>1. k + 1 \in 1..(N + 1) /\ l \in (k + 1)..(N + 1)
      BY <1>4
    <3> HIDE DEF N
    <3> QED
      BY <3>1, BoughtIsMonotonic DEF N
  <2>3. trades[k].got \in Nat /\ trades[l].got \in Nat
    BY <1>3
  <2>4. n - Bought(trades, k, x) <= trades[k].got /\ 1 <= n - Bought(trades, l, x)
    BY <1>4, <2>1, <2>2, <2>3
  <2> QED
    BY <2>1, <2>2, <2>3, <2>4
<1>5. \A k \in S : Has(k) => k = i
  <2> SUFFICES ASSUME NEW k \in S, Has(k), k # i PROVE FALSE
    OBVIOUS
  <2>1. k \in 1..N /\ Buys(trades, k, x)
    BY <1>2
  <2>2. k < i \/ i < k
    BY <2>1
  <2> HIDE DEF N, S, Has
  <2>3. i \in 1..N
    BY DEF N
  <2> QED
    BY <1>1, <1>4, <2>1, <2>2, <2>3
<1>6. (CHOOSE k \in S : Has(k)) = i
  <2> HIDE DEF S, Has
  <2> QED
    BY <1>1, <1>5
<1> QED
  BY <1>6 DEF UnitCost

-----------------------------------------------------------------------------
(* What is gone.                                                           *)

\* The bounds on the units gone before trade i, the least of which counts.
Bounds(trades, i, x) ==
  {Asked(trades, i, x)} \cup
    {Bought(trades, j, x) + Asked(trades, i, x) - Asked(trades, j + 1, x) :
       j \in SalesBefore(trades, i, x)}

IsLeast(m, S) == m \in S /\ S \subseteq Int /\ \A y \in S : m <= y

\* Min is the least there is.
LEMMA LeastIsMin ==
  ASSUME NEW S, NEW m, IsLeast(m, S)
  PROVE  Min(S) = m
<1>1. \E y \in S : \A z \in S : y <= z
  BY DEF IsLeast
<1>2. Min(S) \in S /\ \A z \in S : Min(S) <= z
  BY <1>1 DEF Min
<1>3. Min(S) <= m /\ m <= Min(S) /\ m \in Int /\ Min(S) \in Int
  BY <1>2 DEF IsLeast
<1> QED
  BY <1>3

\* Gone, of the set with a name.
LEMMA GoneIsMin ==
  ASSUME NEW trades, NEW i, NEW x
  PROVE  Gone(trades, i, x) = Min(Bounds(trades, i, x))
  BY DEF Gone, Bounds

\* What is gone is the least bound, and was bought.
GoneFits(trades, i, x) ==
  /\ IsLeast(Gone(trades, i, x), Bounds(trades, i, x))
  /\ Gone(trades, i, x) \in Nat
  /\ Gone(trades, i, x) <= Bought(trades, i, x)

\* Before the first trade there is nothing that could be gone.
LEMMA NothingGone ==
  ASSUME NEW trades, NEW x
  PROVE  /\ GoneFits(trades, 1, x) /\ Gone(trades, 1, x) = 0
         /\ Bought(trades, 1, x) = 0
<1>1. SalesBefore(trades, 1, x) = {} /\ BuysBefore(trades, 1, x) = {}
  BY DEF SalesBefore, BuysBefore
<1>2. Asked(trades, 1, x) = 0 /\ Bought(trades, 1, x) = 0
  BY <1>1, SumOfNone DEF Asked, Bought
<1>3. Bounds(trades, 1, x) = {0}
  BY <1>1, <1>2 DEF Bounds
<1>4. IsLeast(0, Bounds(trades, 1, x))
  BY <1>3 DEF IsLeast
<1>5. Gone(trades, 1, x) = 0
  BY <1>4, LeastIsMin, GoneIsMin
<1> QED
  BY <1>2, <1>4, <1>5 DEF GoneFits

\* A sale takes what it asks for, but no more than is there.
LEMMA GoneGrows ==
  ASSUME NEW T, NEW trades \in Seq(Trade(T)), NEW i \in 1..Len(trades), NEW x,
         GoneFits(trades, i, x)
  PROVE  /\ GoneFits(trades, i + 1, x)
         /\ Gone(trades, i + 1, x) =
              IF Sells(trades, i, x)
              THEN Lesser(Gone(trades, i, x) + trades[i].paid, Bought(trades, i, x))
              ELSE Gone(trades, i, x)
<1> DEFINE A == Asked(trades, i, x)
           B == Bought(trades, i, x)
           G == Gone(trades, i, x)
           S == SalesBefore(trades, i, x)
           paid == trades[i].paid
           left(j) == Bought(trades, j, x) - Asked(trades, j + 1, x)
<1>1. /\ A \in Nat /\ B \in Nat /\ paid \in Nat /\ trades[i].got \in Nat
      /\ Asked(trades, i + 1, x) = A + (IF Sells(trades, i, x) THEN paid ELSE 0)
      /\ SalesBefore(trades, i + 1, x) = S \cup (IF Sells(trades, i, x) THEN {i} ELSE {})
      /\ Bought(trades, i + 1, x) = B + (IF Buys(trades, i, x) THEN trades[i].got ELSE 0)
  <2>1. trades[i] \in Trade(T)
    OBVIOUS
  <2> QED
    BY <2>1, AskedGrows, BoughtGrows DEF Trade
<1>2. \A j \in S : Bought(trades, j, x) \in Int /\ Asked(trades, j + 1, x) \in Int
  <2> TAKE j \in S
  <2>1. j \in 1..Len(trades)
    BY DEF SalesBefore
  <2>2. Bought(trades, j, x) \in Nat /\ Asked(trades, j, x) \in Nat
        /\ Asked(trades, j + 1, x) = Asked(trades, j, x) + (IF Sells(trades, j, x) THEN trades[j].paid ELSE 0)
    BY <2>1, AskedGrows, BoughtGrows
  <2>3. trades[j] \in Trade(T)
    BY <2>1
  <2> QED
    BY <2>2, <2>3 DEF Trade
<1>3. /\ G \in Nat /\ G <= B /\ G \in Bounds(trades, i, x)
      /\ \A y \in Bounds(trades, i, x) : y \in Int /\ G <= y
  BY DEF GoneFits, IsLeast
<1>4. Bounds(trades, i, x) =
        {A} \cup {Bought(trades, j, x) + A - Asked(trades, j + 1, x) : j \in S}
  BY DEF Bounds
<1>5. ASSUME ~Sells(trades, i, x)
      PROVE  GoneFits(trades, i + 1, x) /\ Gone(trades, i + 1, x) = G
  <2>1. Asked(trades, i + 1, x) = A /\ SalesBefore(trades, i + 1, x) = S
    <3> HIDE DEF A, S, B
    <3>1. S \cup {} = S /\ A + 0 = A
      BY <1>1
    <3> QED
      BY <1>1, <1>5, <3>1
  <2>2. Bounds(trades, i + 1, x) = Bounds(trades, i, x)
    BY <2>1 DEF Bounds
  <2>3. Gone(trades, i + 1, x) = G
    BY <2>2, GoneIsMin
  <2>4. B <= Bought(trades, i + 1, x)
    BY <1>1
  <2> QED
    <3>1. Bought(trades, i + 1, x) \in Nat
      BY <1>1
    <3> QED
      BY <1>1, <1>3, <2>2, <2>3, <2>4, <3>1 DEF GoneFits
<1>6. ASSUME Sells(trades, i, x)
      PROVE  /\ GoneFits(trades, i + 1, x)
             /\ Gone(trades, i + 1, x) = Lesser(G + paid, B)
  <2>1. Asked(trades, i + 1, x) = A + paid /\ SalesBefore(trades, i + 1, x) = S \cup {i}
    BY <1>1, <1>6
  <2> DEFINE after(j) == Bought(trades, j, x) + (A + paid) - Asked(trades, j + 1, x)
  <2>2. Bounds(trades, i + 1, x) = {A + paid} \cup {after(j) : j \in S \cup {i}}
    BY <2>1 DEF Bounds
  <2>3. after(i) = B
    BY <1>1, <2>1
  <2>4. \A j \in S : after(j) = (Bought(trades, j, x) + A - Asked(trades, j + 1, x)) + paid
    BY <1>1, <1>2
  <2> DEFINE before(j) == Bought(trades, j, x) + A - Asked(trades, j + 1, x)
             m == Lesser(G + paid, B)
  <2>5. Bounds(trades, i, x) = {A} \cup {before(j) : j \in S}
    BY <1>4
  <2>6. \A j \in S : after(j) = before(j) + paid
    BY <2>4
  <2> HIDE DEF after, before
  <2>7. G + paid \in Bounds(trades, i + 1, x)
    BY <1>3, <2>2, <2>5, <2>6
  <2>8. B \in Bounds(trades, i + 1, x)
    BY <2>2, <2>3
  <2>9. \A y \in Bounds(trades, i + 1, x) : y = B \/ \E z \in Bounds(trades, i, x) : y = z + paid
    BY <2>2, <2>3, <2>5, <2>6
  <2> HIDE DEF A, B, G, S, paid
  <2>10. m \in Bounds(trades, i + 1, x) /\ m \in Nat /\ m <= B /\ m <= G + paid
    BY <1>1, <1>3, <2>7, <2>8 DEF Lesser
  <2>11. \A y \in Bounds(trades, i + 1, x) : y \in Int /\ m <= y
    <3> TAKE y \in Bounds(trades, i + 1, x)
    <3>1. CASE y = B
      BY <1>1, <2>10, <3>1
    <3>2. CASE \E z \in Bounds(trades, i, x) : y = z + paid
      <4>1. PICK z \in Bounds(trades, i, x) : y = z + paid
        BY <3>2
      <4>2. z \in Int /\ G <= z
        BY <1>3
      <4> HIDE DEF m
      <4> QED
        BY <1>1, <1>3, <2>10, <4>1, <4>2
    <3> QED
      BY <2>9, <3>1, <3>2
  <2> HIDE DEF m
  <2>12. IsLeast(m, Bounds(trades, i + 1, x))
    BY <2>10, <2>11 DEF IsLeast
  <2>13. Gone(trades, i + 1, x) = m
    BY <2>12, LeastIsMin, GoneIsMin
  <2>14. Bought(trades, i + 1, x) \in Nat /\ B <= Bought(trades, i + 1, x)
    BY <1>1
  <2>15. m <= Bought(trades, i + 1, x)
    BY <1>1, <2>10, <2>14
  <2> QED
    BY <2>10, <2>12, <2>13, <2>15 DEF GoneFits, m, G, B, paid
<1> QED
  BY <1>5, <1>6

-----------------------------------------------------------------------------
(* What a sale costs.                                                      *)

\* The costs of the units after the first g, up to the first h.
Cost(U, g, h) == SumFunctionOnSet(U, (g + 1)..h)

\* U has the costs of these units.
Priceable(U, g, h) == \A n \in (g + 1)..h : U[n] \in Nat \ {0}

\* No units cost nothing.
LEMMA NoCost == ASSUME NEW U, NEW g \in Nat PROVE Cost(U, g, g) = 0
<1>1. (g + 1)..g = {}
  OBVIOUS
<1> QED
  BY <1>1, SumOfNone DEF Cost

\* The next unit adds its cost.
LEMMA OneMoreUnit ==
  ASSUME NEW U, NEW g \in Nat, NEW h \in Nat, g <= h, Priceable(U, g, h + 1)
  PROVE  Cost(U, g, h) \in Nat /\ Cost(U, g, h + 1) = Cost(U, g, h) + U[h + 1]
<1> DEFINE D == (g + 1)..h
<1>1. (g + 1)..(h + 1) = D \cup {h + 1} /\ h + 1 \notin D /\ h + 1 \in (g + 1)..(h + 1)
  OBVIOUS
<1>2. IsFiniteSet(D)
  <2>1. g + 1 \in Int /\ h \in Int
    OBVIOUS
  <2> QED
    BY <2>1, FS_Interval
<1>3. \A n \in D : U[n] \in Nat
  <2>1. D \subseteq (g + 1)..(h + 1)
    OBVIOUS
  <2> HIDE DEF D
  <2> QED
    BY <2>1 DEF Priceable
<1>4. U[h + 1] \in Nat
  BY <1>1 DEF Priceable
<1> HIDE DEF D
<1>5. Integral(U, D) /\ D \in SUBSET D
  BY <1>3 DEF Integral
<1>6. SumFunctionOnSet(U, D) \in Nat
  BY <1>2, <1>3, <1>5, SumGrows
<1> DEFINE y == h + 1
<1>7. SumFunctionOnSet(U, D \cup {y}) = U[y] + SumFunctionOnSet(U, D)
  <2>1. y \notin D /\ U[y] \in Int
    BY <1>1, <1>4
  <2> HIDE DEF y
  <2> QED
    BY <1>2, <1>5, <2>1, SumWithOneMore
<1>8. Cost(U, g, h) = SumFunctionOnSet(U, D)
  BY DEF Cost, D
<1>9. Cost(U, g, h + 1) = SumFunctionOnSet(U, D \cup {h + 1})
  BY <1>1 DEF Cost
<1> QED
  BY <1>4, <1>6, <1>7, <1>8, <1>9

\* What units cost is more than nothing.
LEMMA SomeCost ==
  ASSUME NEW U, NEW g \in Nat, NEW h \in Nat, g < h, Priceable(U, g, h)
  PROVE  Cost(U, g, h) \in Nat /\ Cost(U, g, h) > 0
<1> DEFINE l == h - 1
<1>1. l \in Nat /\ g <= l /\ l + 1 = h
  OBVIOUS
<1> HIDE DEF l
<1>2. Cost(U, g, l) \in Nat /\ Cost(U, g, h) = Cost(U, g, l) + U[h]
  BY <1>1, OneMoreUnit
<1>3. U[h] \in Nat /\ U[h] > 0
  <2>1. h \in (g + 1)..h
    OBVIOUS
  <2>2. U[h] \in Nat \ {0}
    BY <2>1 DEF Priceable
  <2> QED
    BY <2>2
<1> QED
  BY <1>2, <1>3

\* The next t units cost c each.
Level(U, h, t, c) == \A n \in (h + 1)..(h + t) : U[n] = c

CostsMore(U, g, h, t, c) ==
  /\ Priceable(U, g, h + t)
  /\ Cost(U, g, h) \in Nat
  /\ Cost(U, g, h + t) = Cost(U, g, h) + t * c

\* So many units of the same cost add so many times that cost.
LEMMA SameCost ==
  ASSUME NEW U, NEW g \in Nat, NEW h \in Nat, g <= h, NEW t \in Nat, NEW c \in Nat \ {0},
         Priceable(U, g, h), Level(U, h, t, c)
  PROVE  CostsMore(U, g, h, t, c)
<1> USE DEF Level, CostsMore
<1>1. Priceable(U, g, h + t)
  <2>1. \A n \in (g + 1)..(h + t) : n \in (g + 1)..h \/ n \in (h + 1)..(h + t)
    OBVIOUS
  <2> QED
    BY <2>1 DEF Priceable
<1>2. ASSUME NEW k \in 0..t PROVE Priceable(U, g, h + k)
  <2>1. (g + 1)..(h + k) \subseteq (g + 1)..(h + t)
    OBVIOUS
  <2> QED
    BY <1>1, <2>1 DEF Priceable
<1>0. Cost(U, g, h) \in Nat
  <2>1. CASE g = h
    BY <2>1, NoCost
  <2>2. CASE g < h
    <3> DEFINE l == h - 1
    <3>1. l \in Nat /\ g <= l /\ l + 1 = h
      BY <2>2
    <3> HIDE DEF l
    <3>2. Cost(U, g, l) \in Nat /\ Cost(U, g, h) = Cost(U, g, l) + U[h]
      BY <3>1, OneMoreUnit
    <3>3. U[h] \in Nat
      <4>1. h \in (g + 1)..h
        BY <2>2
      <4> QED
        BY <4>1 DEF Priceable
    <3> QED
      BY <3>2, <3>3
  <2> QED
    BY <2>1, <2>2
<1> DEFINE P == {k \in 0..t : Cost(U, g, h + k) = Cost(U, g, h) + k * c}
<1>3. 0 \in P
  BY <1>0
<1>4. ASSUME NEW k \in 1..t, k - 1 \in P PROVE k \in P
  <2> DEFINE l == k - 1
  <2>1. l \in Nat /\ l \in 0..t /\ k \in 0..t /\ l + 1 = k /\ Cost(U, g, h + l) = Cost(U, g, h) + l * c
    BY <1>4
  <2>2. U[h + k] = c
    <3>1. h + k \in (h + 1)..(h + t)
      OBVIOUS
    <3> QED
      BY <3>1
  <2>3. Cost(U, g, h + k) = Cost(U, g, h + l) + U[h + k]
    <3> DEFINE m == h + l
    <3>1. m \in Nat /\ g <= m /\ m + 1 = h + k
      BY <2>1
    <3>2. Priceable(U, g, h + k)
      BY <1>2, <2>1
    <3> HIDE DEF m
    <3>3. Cost(U, g, m + 1) = Cost(U, g, m) + U[m + 1]
      BY <3>1, <3>2, OneMoreUnit
    <3> QED
      BY <3>1, <3>3 DEF m
  <2>4. k * c = l * c + c
    BY <2>1
  <2>5. l * c \in Nat
    BY <2>1
  <2> HIDE DEF l
  <2>6. Cost(U, g, h + k) = Cost(U, g, h) + (l * c + c)
    BY <1>0, <2>1, <2>2, <2>3, <2>5
  <2>7. Cost(U, g, h + k) = Cost(U, g, h) + k * c
    BY <2>4, <2>6
  <2> QED
    BY <2>1, <2>7
<1>5. t \in P
  <2> HIDE DEF P
  <2>1. 0..t \subseteq P
    BY <1>3, <1>4, IntervalInduct
  <2> QED
    BY <2>1
<1> QED
  BY <1>0, <1>1, <1>5

\* The lots of q are the units after the first g.
Covers(q, U, g) ==
  \A j \in DOMAIN q :
    /\ q[j].unit_cost > 0
    /\ \A n \in Nat :
         g + Upto(q, j - 1) < n /\ n <= g + Upto(q, j) => U[n] = q[j].unit_cost

\* No lots cover no units.
LEMMA CoversNone == ASSUME NEW U, NEW g PROVE Covers(<<>>, U, g)
  BY DEF Covers

\* A lot at the end changes nothing before it.
LEMMA UptoOfAppended ==
  ASSUME NEW q \in Seq(Lot), NEW lot \in Lot, NEW j \in 0..Len(q)
  PROVE  Upto(Append(q, lot), j) = Upto(q, j)
<1> DEFINE D == 1..j
           p == Append(q, lot)
<1>1. \A k \in D : k \in DOMAIN p /\ k \in DOMAIN q /\ p[k] = q[k]
  OBVIOUS
<1>2. \A k \in D : Amounts(p)[k] = Amounts(q)[k]
  BY <1>1 DEF Amounts
<1>3. IsFiniteSet(D) /\ \A k \in D : Amounts(q)[k] \in Int
  BY AmountsAreNat
<1> HIDE DEF D, p
<1>4. SumFunctionOnSet(Amounts(q), D) = SumFunctionOnSet(Amounts(p), D)
  BY <1>2, <1>3, SumOfSame
<1> QED
  BY <1>4 DEF D, p, Upto

\* A lot at the end covers the units that come next.
LEMMA CoversAppended ==
  ASSUME NEW q \in Seq(Lot), NEW lot \in Lot, NEW U, NEW g \in Nat, Covers(q, U, g),
         lot.unit_cost > 0,
         \A n \in (g + Held(q) + 1)..(g + Held(q) + lot.amount) : U[n] = lot.unit_cost
  PROVE  Covers(Append(q, lot), U, g)
<1> DEFINE p == Append(q, lot)
           N == Len(q)
<1>1. N \in Nat /\ DOMAIN q = 1..N /\ DOMAIN p = 1..(N + 1) /\ p[N + 1] = lot
      /\ \A j \in 1..N : p[j] = q[j]
  OBVIOUS
<1>2. \A j \in 0..N : Upto(p, j) = Upto(q, j)
  BY UptoOfAppended
<1>3. Upto(p, N) = Held(q)
  <2>1. N \in 0..N
    BY <1>1
  <2> QED
    BY <1>2, <2>1 DEF Held
<1>4. Upto(p, N + 1) = Held(q) + lot.amount
  <2>1. Len(p) = N + 1
    OBVIOUS
  <2>2. Held(p) = Held(q) + lot.amount
    BY HeldWithOneMore
  <2> QED
    BY <2>1, <2>2 DEF Held
<1>5. Held(q) \in Nat /\ lot.amount \in Nat
  BY HeldIsNat DEF Lot
<1> HIDE DEF p, N
<1>8. \A j \in 1..(N + 1) : p[j].unit_cost > 0
  <2> TAKE j \in 1..(N + 1)
  <2>1. j = N + 1 \/ j \in 1..N
    BY <1>1
  <2> QED
    BY <1>1, <2>1 DEF Covers
<1> SUFFICES ASSUME NEW j \in 1..(N + 1), NEW n \in Nat,
                    g + Upto(p, j - 1) < n, n <= g + Upto(p, j)
             PROVE  U[n] = p[j].unit_cost
  BY <1>1, <1>8 DEF Covers, p
<1>6. CASE j = N + 1
  <2>1. j - 1 = N
    BY <1>1, <1>6
  <2>2. n \in (g + Held(q) + 1)..(g + Held(q) + lot.amount)
    BY <1>3, <1>4, <1>5, <1>6, <2>1
  <2> QED
    BY <1>1, <1>6, <2>2
<1>7. CASE j # N + 1
  <2>1. j \in 1..N /\ j \in 0..N /\ j - 1 \in 0..N
    BY <1>1, <1>7
  <2>2. Upto(p, j) = Upto(q, j) /\ Upto(p, j - 1) = Upto(q, j - 1) /\ p[j] = q[j]
    BY <1>1, <1>2, <2>1
  <2> QED
    BY <1>1, <2>1, <2>2 DEF Covers
<1> QED
  BY <1>6, <1>7

\* A sale on its way through the lots q, the units after the first g: i of them are
\* behind it.
Selling(q, U, g, a, i, sale) ==
  LET s == Lesser(a, Upto(q, i))
  IN /\ sale \in Sale
     /\ sale.remaining = a - s
     /\ sale.cost = Cost(U, g, g + s) /\ Priceable(U, g, g + s)
     /\ Held(sale.queue) = Upto(q, i) - s
     /\ Covers(sale.queue, U, g + s)
     /\ s < a => sale.queue = <<>>

\* No lot has been looked at.
LEMMA SellingStarts ==
  ASSUME NEW q, NEW U, NEW g \in Nat, NEW a \in Nat
  PROVE  Selling(q, U, g, a, 0, [remaining |-> a, cost |-> 0, queue |-> <<>>])
<1>1. Upto(q, 0) = 0
  <2>1. 1..0 = {}
    OBVIOUS
  <2> QED
    BY <2>1, SumOfNone DEF Upto
<1>2. Lesser(a, 0) = 0
  BY DEF Lesser
<1>3. Cost(U, g, g + 0) = 0 /\ Priceable(U, g, g + 0)
  <2>1. g + 0 = g /\ (g + 1)..g = {}
    OBVIOUS
  <2> QED
    BY <2>1, NoCost DEF Priceable
<1>4. <<>> \in Seq(Lot)
  OBVIOUS
<1> QED
  BY <1>1, <1>2, <1>3, <1>4, HeldNone, CoversNone DEF Selling, Sale

\* The sale looks at the next lot.
LEMMA SellingGoesOn ==
  ASSUME NEW q \in Seq(Lot), NEW U, NEW g \in Nat, NEW a \in Nat, Covers(q, U, g),
         NEW i \in 1..Len(q), NEW sale, Selling(q, U, g, a, i - 1, sale)
  PROVE  Selling(q, U, g, a, i, SellFromLot(sale, q[i]))
<1> DEFINE lot == q[i]
           u == Upto(q, i - 1)
           s == Lesser(a, u)
           v == Upto(q, i)
           z == Lesser(a, v)
           t == Lesser(sale.remaining, lot.amount)
           next == SellFromLot(sale, lot)
<1>1. lot \in Lot /\ lot.amount \in Nat /\ lot.unit_cost \in Nat \ {0} /\ i \in DOMAIN q
  <2>1. lot \in Lot /\ i \in DOMAIN q
    OBVIOUS
  <2>2. lot.unit_cost > 0
    BY <2>1 DEF Covers
  <2> QED
    BY <2>1, <2>2 DEF Lot
<1>2. u \in Nat /\ v = lot.amount + u
  <2>1. i - 1 \in 0..Len(q)
    OBVIOUS
  <2> QED
    BY <2>1, AmountsAreNat, UptoNext
<1>3. /\ sale \in Sale /\ sale.remaining = a - s
      /\ sale.cost = Cost(U, g, g + s) /\ Priceable(U, g, g + s)
      /\ Held(sale.queue) = u - s
      /\ Covers(sale.queue, U, g + s)
      /\ s < a => sale.queue = <<>>
  BY DEF Selling
<1>4. \A n \in Nat : g + u < n /\ n <= g + v => U[n] = lot.unit_cost
  BY <1>1 DEF Covers
<1>5. next \in Sale
  BY <1>1, <1>3, SellingFromLot
<1> HIDE DEF lot, u, v
<1>6. /\ next.remaining = sale.remaining - t
      /\ next.cost = sale.cost + t * lot.unit_cost
      /\ next.queue = IF t = lot.amount THEN sale.queue
                      ELSE Append(sale.queue, [lot EXCEPT !.amount = @ - t])
  BY DEF SellFromLot
<1> HIDE DEF next
<1>7. /\ s \in Nat /\ z \in Nat /\ t \in Nat /\ s <= a /\ s <= u /\ z = s + t
      /\ sale.remaining = a - s /\ t <= lot.amount /\ v \in Nat
      /\ (z < a => t = lot.amount /\ s < a)
      /\ (s < a => s = u)
      /\ (s = a => t = 0)
  <2>1. s \in Nat /\ s = IF a < u THEN a ELSE u
    BY <1>2 DEF Lesser
  <2>2. v \in Nat /\ z \in Nat /\ z = IF a < v THEN a ELSE v
    BY <1>1, <1>2 DEF Lesser
  <2>3. sale.remaining = a - s
    BY <1>3
  <2> HIDE DEF s, z
  <2>4. t \in Nat /\ t = IF a - s < lot.amount THEN a - s ELSE lot.amount
    <3>1. a - s \in Nat
      BY <1>2, <2>1
    <3> QED
      BY <1>1, <2>3, <3>1 DEF Lesser
  <2> HIDE DEF t
  <2> QED
    BY <1>1, <1>2, <2>1, <2>2, <2>3, <2>4
<1> HIDE DEF s, t, z
<1>8. \A n \in (g + s + 1)..(g + s + t) : U[n] = lot.unit_cost
  <2>1. CASE s < a
    BY <1>1, <1>2, <1>4, <1>7, <2>1
  <2>2. CASE s = a
    BY <1>7, <2>2
  <2> QED
    BY <1>7, <2>1, <2>2
<1>9. next.cost = Cost(U, g, g + z) /\ Priceable(U, g, g + z)
  <2> DEFINE h == g + s
  <2>1. h \in Nat /\ g <= h /\ h + t = g + z
    BY <1>7
  <2>2. Priceable(U, g, h) /\ Level(U, h, t, lot.unit_cost)
    BY <1>3, <1>8 DEF Level
  <2> HIDE DEF h
  <2>3. Priceable(U, g, h + t) /\ Cost(U, g, h + t) = Cost(U, g, h) + t * lot.unit_cost
    <3>1. t \in Nat /\ lot.unit_cost \in Nat \ {0} /\ h \in Nat /\ g <= h
      BY <1>1, <1>7, <2>1
    <3>2. CostsMore(U, g, h, t, lot.unit_cost)
      BY <2>2, <3>1, SameCost, Zenon
    <3> QED
      BY <3>2 DEF CostsMore
  <2> QED
    BY <1>3, <1>6, <2>1, <2>3 DEF h
<1>10. sale.queue \in Seq(Lot)
  BY <1>3 DEF Sale
<1>11. Covers(sale.queue, U, g + z)
  <2>1. CASE s < a
    BY <1>3, <2>1, CoversNone
  <2>2. CASE s = a
    BY <1>3, <1>7, <2>2
  <2> QED
    BY <1>7, <2>1, <2>2
<1>12. CASE t = lot.amount
  <2>1. next.queue = sale.queue
    BY <1>6, <1>12
  <2>2. Held(sale.queue) = v - z
    BY <1>1, <1>2, <1>3, <1>7, <1>12
  <2>3. z < a => next.queue = <<>>
    BY <1>3, <1>7, <2>1
  <2>4. next.remaining = a - z
    BY <1>6, <1>7
  <2> QED
    BY <1>5, <1>9, <1>11, <2>1, <2>2, <2>3, <2>4 DEF Selling, lot, next, v, z
<1>13. CASE t # lot.amount
  <2> DEFINE rest == [lot EXCEPT !.amount = @ - t]
  <2>1. next.queue = Append(sale.queue, rest)
    BY <1>6, <1>13
  <2>2. lot.amount - t \in Nat
    BY <1>1, <1>7
  <2>3. rest \in Lot /\ rest.amount = lot.amount - t /\ rest.unit_cost = lot.unit_cost
    BY <1>1, <2>2 DEF Lot
  <2> HIDE DEF rest
  <2>4. Held(next.queue) = v - z
    <3>1. Held(next.queue) = Held(sale.queue) + (lot.amount - t)
      BY <1>10, <2>1, <2>3, HeldWithOneMore
    <3> QED
      BY <1>1, <1>2, <1>3, <1>7, <3>1
  <2>5. ~(z < a)
    BY <1>7, <1>13
  <2>6. Covers(next.queue, U, g + z)
    <3> DEFINE h == g + z
               Q == sale.queue
    <3>1. \A n \in (h + Held(Q) + 1)..(h + Held(Q) + rest.amount) : U[n] = rest.unit_cost
      <4>1. Held(Q) = u - s
        BY <1>3
      <4>2. \A n \in (h + Held(Q) + 1)..(h + Held(Q) + rest.amount) :
              n \in Nat /\ g + u < n /\ n <= g + v
        <5> HIDE DEF Q
        <5> QED
          BY <1>1, <1>2, <1>7, <2>3, <4>1
      <4> HIDE DEF Q, h
      <4> QED
        BY <1>4, <2>3, <4>2
    <3>2. h \in Nat
      BY <1>7
    <3> HIDE DEF Q, h
    <3>3. Covers(Append(Q, rest), U, h)
      <4>1. Q \in Seq(Lot) /\ Covers(Q, U, h)
        BY <1>10, <1>11 DEF Q, h
      <4>2. rest.unit_cost > 0
        BY <1>1, <2>3
      <4> QED
        BY <2>3, <3>1, <3>2, <4>1, <4>2, CoversAppended
    <3> QED
      BY <2>1, <3>3 DEF Q, h
  <2>7. next.remaining = a - z
    BY <1>6, <1>7
  <2> QED
    BY <1>5, <1>9, <2>4, <2>5, <2>6, <2>7 DEF Selling, lot, next, v, z
<1> QED
  BY <1>12, <1>13

\* Sell takes the first units there are, and costs what they do.
LEMMA SellCosts ==
  ASSUME NEW q \in Seq(Lot), NEW U, NEW g \in Nat, NEW a \in Nat, Covers(q, U, g)
  PROVE  Selling(q, U, g, a, Len(q), Sell(q, a))
<1> DEFINE N == Len(q)
           base == [remaining |-> a, cost |-> 0, queue |-> <<>>]
<1>1. PICK f : /\ Counts(f, Len(q), Sale, [remaining |-> a, cost |-> 0, queue |-> <<>>], SaleStep(q))
               /\ Sell(q, a) = f[Len(q)]
  BY SellCounts, Zenon
<1>2. N \in Nat
  OBVIOUS
<1>3. Counts(f, N, Sale, base, SaleStep(q)) /\ Sell(q, a) = f[N]
  BY <1>1
<1>4. Counting(f, N, Sale, base, SaleStep(q))
  <2> HIDE DEF N, base
  <2> QED
    BY <1>2, <1>3, Counted, Zenon
<1> DEFINE P == {i \in 0..N : Selling(q, U, g, a, i, f[i])}
<1>5. 0 \in P
  <2>1. f[0] = base /\ 0 \in 0..N
    BY <1>4 DEF Counting
  <2> QED
    BY <2>1, SellingStarts
<1>6. ASSUME NEW i \in 1..N, i - 1 \in P PROVE i \in P
  <2>1. i \in 0..N /\ f[i - 1] \in Sale /\ f[i] = SaleStep(q)[i, f[i - 1]]
    <3> HIDE DEF N, base
    <3> QED
      BY <1>4 DEF Counting
  <2>2. f[i] = SellFromLot(f[i - 1], q[i])
    BY <2>1 DEF SaleStep
  <2>3. Selling(q, U, g, a, i - 1, f[i - 1])
    BY <1>6
  <2>4. Selling(q, U, g, a, i, SellFromLot(f[i - 1], q[i]))
    BY <2>3, SellingGoesOn
  <2> QED
    BY <2>1, <2>2, <2>4
<1>7. N \in P
  <2> HIDE DEF P, N
  <2>1. 0..N \subseteq P
    BY <1>2, <1>5, <1>6, IntervalInduct
  <2> QED
    BY <1>2, <2>1
<1> QED
  BY <1>3, <1>7

-----------------------------------------------------------------------------
(* The books follow the units.                                             *)

Units(trades, x) == [n \in Nat |-> UnitCost(trades, n, x)]

\* Before trade i the lots of x are the units bought and not gone.
Tracked(trades, i, open, x) ==
  /\ GoneFits(trades, i, x)
  /\ Held(open[x]) = Bought(trades, i, x) - Gone(trades, i, x)
  /\ Covers(open[x], Units(trades, x), Gone(trades, i, x))

\* Between, a sale may have taken its lots already.
SoldOff(trades, i, held, x) ==
  /\ GoneFits(trades, i + 1, x)
  /\ Held(held[x]) = Bought(trades, i, x) - Gone(trades, i + 1, x)
  /\ Covers(held[x], Units(trades, x), Gone(trades, i + 1, x))

\* What CostOf sums up.
LEMMA CostOfUnits ==
  ASSUME NEW trades, NEW x, NEW g \in Nat, NEW h \in Nat, Priceable(Units(trades, x), g, h)
  PROVE  CostOf(trades, x, (g + 1)..h) = Cost(Units(trades, x), g, h)
<1> DEFINE D == (g + 1)..h
           U == Units(trades, x)
           F == [n \in D |-> UnitCost(trades, n, x)]
<1>1. IsFiniteSet(D)
  <2>1. g + 1 \in Int /\ h \in Int
    OBVIOUS
  <2> QED
    BY <2>1, FS_Interval
<1>2. \A n \in D : U[n] = F[n] /\ U[n] \in Int
  <2>1. \A n \in D : n \in Nat /\ U[n] \in Nat \ {0}
    BY DEF Priceable
  <2> QED
    BY <2>1 DEF Units
<1> HIDE DEF U, F, D
<1>3. SumFunctionOnSet(U, D) = SumFunctionOnSet(F, D)
  BY <1>1, <1>2, SumOfSame
<1> QED
  BY <1>3 DEF Cost, CostOf, U, F, D

\* A priced sale gets the outcome of Reference, and takes the units that go.
SaleOutcome(sale, usd) ==
  IF sale.remaining = 0 /\ sale.cost > 0 THEN Resolved(usd, sale.cost) ELSE Unresolved

\* A sale has the outcome of Reference, and leaves the units that are not gone.
LEMMA SaleAgrees ==
  ASSUME NEW T, NEW trades \in Seq(Trade(T)), NEW i \in 1..Len(trades),
         trades[i].usd > 0, trades[i].paid > 0,
         NEW open, open[trades[i].in] \in Seq(Lot), Tracked(trades, i, open, trades[i].in)
  PROVE  LET x    == trades[i].in
             sale == Sell(open[x], trades[i].paid)
         IN /\ SaleOutcome(sale, trades[i].usd) = Reference(trades)[i]
            /\ sale.queue \in Seq(Lot)
            /\ Held(sale.queue) = Bought(trades, i, x) - Gone(trades, i + 1, x)
            /\ Covers(sale.queue, Units(trades, x), Gone(trades, i + 1, x))
<1> DEFINE x == trades[i].in
           q == open[x]
           a == trades[i].paid
           U == Units(trades, x)
           G == Gone(trades, i, x)
           B == Bought(trades, i, x)
           sale == Sell(q, a)
           s == Lesser(a, Held(q))
<1>1. i \in DOMAIN trades /\ a \in Nat /\ a > 0 /\ trades[i].usd \in Nat
  <2>1. i \in DOMAIN trades /\ trades[i] \in Trade(T)
    OBVIOUS
  <2> QED
    BY <2>1 DEF Trade
<1>2. G \in Nat /\ B \in Nat /\ G <= B /\ Held(q) = B - G /\ Covers(q, U, G)
  BY BoughtGrows DEF Tracked, GoneFits
<1>3. Gone(trades, i + 1, x) = Lesser(G + a, B)
  <2>1. Sells(trades, i, x) /\ GoneFits(trades, i, x)
    BY DEF Sells, Tracked
  <2> HIDE DEF x
  <2> QED
    BY <2>1, GoneGrows
<1>4. q \in Seq(Lot)
  OBVIOUS
<1> HIDE DEF x, q, G, B, U
<1>5. Selling(q, U, G, a, Len(q), sale)
  <2> HIDE DEF a, sale
  <2>1. Selling(q, U, G, a, Len(q), Sell(q, a))
    BY <1>1, <1>2, <1>4, SellCosts
  <2> QED
    BY <2>1 DEF sale
<1> HIDE DEF sale
<1>6. /\ sale \in Sale /\ sale.remaining = a - s
      /\ sale.cost = Cost(U, G, G + s) /\ Priceable(U, G, G + s)
      /\ Held(sale.queue) = Held(q) - s
      /\ Covers(sale.queue, U, G + s)
  BY <1>5 DEF Selling, Held
<1> HIDE DEF a
<1>7. s \in Nat /\ G + s = Lesser(G + a, B) /\ Held(q) - s = B - Lesser(G + a, B)
      /\ (a - s = 0 <=> G + a <= B) /\ (a - s = 0 => s = a)
  BY <1>1, <1>2 DEF Lesser
<1> HIDE DEF s
<1>8. sale.queue \in Seq(Lot)
  BY <1>6 DEF Sale
<1>9. Reference(trades)[i] =
        IF G + a <= B THEN Resolved(trades[i].usd, CostOf(trades, x, (G + 1)..(G + a)))
        ELSE Unresolved
  BY <1>1 DEF Reference, G, B, a, x
<1>10. SaleOutcome(sale, trades[i].usd) = Reference(trades)[i]
  <2>1. CASE G + a <= B
    <3>1. s = a /\ sale.remaining = 0
      BY <1>6, <1>7, <2>1
    <3> DEFINE h == G + a
    <3>2. h \in Nat /\ G < h
      BY <1>1, <1>2
    <3> HIDE DEF h
    <3>3. Priceable(U, G, h) /\ sale.cost = Cost(U, G, h)
      BY <1>6, <3>1 DEF h
    <3>4. sale.cost > 0
      BY <1>2, <3>2, <3>3, SomeCost
    <3>5. CostOf(trades, x, (G + 1)..h) = Cost(U, G, h)
      BY <1>2, <3>2, <3>3, CostOfUnits DEF U
    <3> QED
      BY <1>9, <2>1, <3>1, <3>3, <3>4, <3>5 DEF SaleOutcome, h
  <2>2. CASE ~(G + a <= B)
    <3>1. sale.remaining # 0
      BY <1>6, <1>7, <2>2
    <3> QED
      BY <1>9, <2>2, <3>1 DEF SaleOutcome
  <2> QED
    BY <2>1, <2>2
<1>11. /\ Held(sale.queue) = B - Gone(trades, i + 1, x)
       /\ Covers(sale.queue, U, Gone(trades, i + 1, x))
  BY <1>3, <1>6, <1>7
<1> QED
  BY <1>8, <1>10, <1>11 DEF sale, B, U, q, a, x

\* A value that divides is at least one for each unit.
LEMMA UnitsHaveACost ==
  ASSUME NEW usd \in Nat, NEW n \in Nat \ {0}, usd > 0, usd % n = 0
  PROVE  usd \div n \in Nat /\ usd \div n > 0
<1>1. usd \div n \in Nat
  OBVIOUS
<1>2. usd >= n
  <2>1. usd < n => usd % n = usd
    OBVIOUS
  <2> QED
    BY <2>1
<1>3. usd \div n > 0
  BY <1>2
<1> QED
  BY <1>1, <1>3

\* The purchase adds its units at the end.
LEMMA PurchaseTracked ==
  ASSUME NEW T, NEW trades \in Seq(Trade(T)), NEW i \in 1..Len(trades),
         trades[i].usd > 0, trades[i].usd % trades[i].got = 0,
         NEW held \in [T -> Seq(Lot)], NEW x \in T, SoldOff(trades, i, held, x),
         NEW lot, lot = [amount |-> trades[i].got, unit_cost |-> trades[i].usd \div trades[i].got]
  PROVE  Tracked(trades, i + 1, [held EXCEPT ![trades[i].out] = Append(@, lot)], x)
<1> DEFINE b == trades[i].out
           open == [held EXCEPT ![b] = Append(@, lot)]
           B == Bought(trades, i, x)
           G == Gone(trades, i + 1, x)
           U == Units(trades, x)
<1>1. trades[i] \in Trade(T)
  OBVIOUS
<1>2. b \in T /\ trades[i].got \in Nat \ {0} /\ trades[i].usd \in Nat
  BY <1>1 DEF Trade
<1>3. lot \in Lot /\ lot.amount = trades[i].got
      /\ lot.unit_cost = trades[i].usd \div trades[i].got /\ lot.unit_cost > 0
  <2> DEFINE c == trades[i].usd \div trades[i].got
  <2>1. c \in Nat /\ c > 0
    BY <1>2, UnitsHaveACost
  <2> HIDE DEF c
  <2>2. lot = [amount |-> trades[i].got, unit_cost |-> c]
    BY DEF c
  <2> QED
    BY <1>2, <2>1, <2>2 DEF Lot, c
<1>4. /\ B \in Nat /\ G \in Nat /\ G <= B /\ Held(held[x]) = B - G /\ Covers(held[x], U, G)
      /\ GoneFits(trades, i + 1, x)
      /\ Bought(trades, i + 1, x) = B + (IF b = x THEN trades[i].got ELSE 0)
  <2>1. B \in Nat /\ Bought(trades, i + 1, x) = B + (IF Buys(trades, i, x) THEN trades[i].got ELSE 0)
    BY BoughtGrows
  <2>2. Buys(trades, i, x) <=> b = x
    BY DEF Buys
  <2>3. G \in Nat /\ Held(held[x]) = B - G /\ Covers(held[x], U, G) /\ GoneFits(trades, i + 1, x)
    BY DEF SoldOff, GoneFits
  <2>4. G <= B
    <3>1. Held(held[x]) \in Nat
      <4>1. held[x] \in Seq(Lot)
        OBVIOUS
      <4> QED
        BY <4>1, HeldIsNat
    <3> HIDE DEF B, G
    <3> QED
      BY <2>1, <2>3, <3>1
  <2> HIDE DEF B, G, U
  <2> QED
    BY <2>1, <2>2, <2>3, <2>4
<1>5. held[x] \in Seq(Lot)
  OBVIOUS
<1>6. CASE b = x
  <2> DEFINE q == held[x]
  <2>1. open[x] = Append(q, lot)
    BY <1>2, <1>6
  <2>2. \A n \in (G + Held(q) + 1)..(G + Held(q) + lot.amount) : U[n] = lot.unit_cost
    <3> TAKE n \in (G + Held(q) + 1)..(G + Held(q) + lot.amount)
    <3>1. n \in Nat /\ n - B \in 1..trades[i].got
      <4> HIDE DEF B, G, q
      <4>1. Held(q) = B - G
        BY <1>4 DEF q
      <4> QED
        BY <1>2, <1>3, <1>4, <4>1
    <3>2. Buys(trades, i, x)
      BY <1>6 DEF Buys
    <3>3. UnitCost(trades, n, x) = trades[i].usd \div trades[i].got
      BY <3>1, <3>2, UnitsOfTrade
    <3> QED
      BY <1>3, <3>1, <3>3 DEF Units
  <2> HIDE DEF open, U, G, q, B
  <2>3. Covers(Append(q, lot), U, G)
    BY <1>3, <1>4, <1>5, <2>2, CoversAppended DEF q
  <2>4. Held(Append(q, lot)) = Held(q) + lot.amount
    BY <1>3, <1>5, HeldWithOneMore DEF q
  <2>5. Held(open[x]) = Bought(trades, i + 1, x) - G
    BY <1>2, <1>3, <1>4, <1>6, <2>1, <2>4 DEF q
  <2> QED
    BY <1>4, <2>1, <2>3, <2>5 DEF Tracked, open, U, G, b
<1>7. CASE b # x
  <2>1. open[x] = held[x]
    BY <1>2, <1>7
  <2> HIDE DEF open, U, G, B
  <2>2. Held(open[x]) = Bought(trades, i + 1, x) - G
    BY <1>4, <1>7, <2>1
  <2> QED
    BY <1>4, <2>1, <2>2 DEF Tracked, open, U, G, b
<1> QED
  BY <1>6, <1>7

\* What a trade without a price, or of other tokens, leaves alone.
LEMMA NotSold ==
  ASSUME NEW T, NEW trades \in Seq(Trade(T)), NEW i \in 1..Len(trades), NEW open, NEW x,
         Tracked(trades, i, open, x), ~Sells(trades, i, x)
  PROVE  SoldOff(trades, i, open, x)
<1>1. GoneFits(trades, i + 1, x) /\ Gone(trades, i + 1, x) = Gone(trades, i, x)
  BY GoneGrows DEF Tracked
<1> QED
  BY <1>1 DEF Tracked, SoldOff

\* The books after i trades: outcomes as in Reference, lots as units.
Agrees(trades, i, books, T) ==
  /\ Len(books.outcomes) = i
  /\ \A j \in 1..i : books.outcomes[j] = Reference(trades)[j]
  /\ \A x \in T : Tracked(trades, i + 1, books.open, x)

\* The next outcome, of the history so far.
LEMMA OutcomesAgree ==
  ASSUME NEW trades, NEW i \in Nat \ {0}, NEW outcomes \in Seq(Outcomes), NEW o,
         Len(outcomes) = i - 1, \A j \in 1..(i - 1) : outcomes[j] = Reference(trades)[j],
         o = Reference(trades)[i]
  PROVE  /\ Len(Append(outcomes, o)) = i
         /\ \A j \in 1..i : Append(outcomes, o)[j] = Reference(trades)[j]
<1> DEFINE R == Reference(trades)
<1>1. \A j \in 1..(i - 1) : outcomes[j] = R[j]
  OBVIOUS
<1>2. o = R[i]
  OBVIOUS
<1> HIDE DEF R
<1>3. \A j \in 1..i : Append(outcomes, o)[j] = R[j]
  <2> TAKE j \in 1..i
  <2>1. CASE j = i
    BY <1>2, <2>1
  <2>2. CASE j # i
    <3>1. j \in 1..(i - 1)
      BY <2>2
    <3> QED
      BY <1>1, <3>1
  <2> QED
    BY <2>1, <2>2
<1> QED
  BY <1>3 DEF R

\* A step of the accounting keeps to Reference.
LEMMA AccountAgrees ==
  ASSUME NEW T, NEW trades \in Seq(Trade(T)), NEW i \in 1..Len(trades),
         trades[i].paid > 0, trades[i].usd % trades[i].got = 0,
         NEW books \in Books(T), Agrees(trades, i - 1, books, T)
  PROVE  Agrees(trades, i, Account(books, trades[i]), T)
<1> DEFINE t == trades[i]
           open == books.open
           sale == Sell(open[t.in], t.paid)
           lot  == [amount |-> t.got, unit_cost |-> t.usd \div t.got]
           held == [open EXCEPT ![t.in] = sale.queue]
           row == SaleOutcome(sale, t.usd)
<1>1. t \in Trade(T) /\ i \in DOMAIN trades /\ i \in Nat \ {0} /\ (i - 1) + 1 = i
  OBVIOUS
<1>2. t.in \in T /\ t.out \in T /\ t.usd \in Nat
  BY <1>1 DEF Trade
<1>3. books.outcomes \in Seq(Outcomes) /\ open \in [T -> Seq(Lot)]
  BY DEF Books
<1>4. /\ Len(books.outcomes) = i - 1
      /\ \A j \in 1..(i - 1) : books.outcomes[j] = Reference(trades)[j]
      /\ \A x \in T : Tracked(trades, i, open, x)
  BY <1>1 DEF Agrees
<1>5. Account(books, t) =
        IF t.usd = 0
        THEN [open |-> open, outcomes |-> Append(books.outcomes, Unresolved)]
        ELSE [open |-> [held EXCEPT ![t.out] = Append(@, lot)],
              outcomes |-> Append(books.outcomes, row)]
  <2> HIDE DEF sale
  <2>1. [books EXCEPT !.outcomes = Append(@, Unresolved)]
          = [open |-> books.open, outcomes |-> Append(books.outcomes, Unresolved)]
    BY OutcomesUpdated
  <2> QED
    BY <2>1 DEF Account, SaleOutcome, sale
<1>6. CASE t.usd = 0
  <2>1. Unresolved = Reference(trades)[i]
    BY <1>1, <1>6 DEF Reference
  <2>2. ASSUME NEW x \in T PROVE Tracked(trades, i + 1, open, x)
    <3>1. ~Sells(trades, i, x) /\ ~Buys(trades, i, x)
      BY <1>6 DEF Sells, Buys
    <3>2. SoldOff(trades, i, open, x)
      BY <1>4, <3>1, NotSold
    <3>3. Bought(trades, i + 1, x) = Bought(trades, i, x)
      BY <3>1, BoughtGrows
    <3> QED
      BY <3>2, <3>3 DEF SoldOff, Tracked
  <2> HIDE DEF t, open
  <2>3. /\ Len(Append(books.outcomes, Unresolved)) = i
        /\ \A j \in 1..i : Append(books.outcomes, Unresolved)[j] = Reference(trades)[j]
    BY <1>1, <1>3, <1>4, <2>1, OutcomesAgree
  <2>4. Account(books, t) = [open |-> open, outcomes |-> Append(books.outcomes, Unresolved)]
    BY <1>5, <1>6
  <2>5. Agrees(trades, i, Account(books, t), T)
    BY <2>2, <2>3, <2>4 DEF Agrees
  <2> QED
    BY <2>5 DEF t
<1>7. CASE t.usd # 0
  <2>0. t.usd > 0
    BY <1>2, <1>7
  <2>1. /\ row = Reference(trades)[i]
        /\ sale.queue \in Seq(Lot)
        /\ Held(sale.queue) = Bought(trades, i, t.in) - Gone(trades, i + 1, t.in)
        /\ Covers(sale.queue, Units(trades, t.in), Gone(trades, i + 1, t.in))
    <3>1. open[t.in] \in Seq(Lot) /\ Tracked(trades, i, open, t.in)
      BY <1>2, <1>3, <1>4
    <3> HIDE DEF open
    <3> QED
      BY <2>0, <3>1, SaleAgrees
  <2> HIDE DEF sale, row
  <2>2. held \in [T -> Seq(Lot)]
    BY <1>3, <2>1
  <2>3. ASSUME NEW x \in T PROVE SoldOff(trades, i, held, x)
    <3>1. CASE x = t.in
      <4>1. held[x] = sale.queue
        BY <1>2, <1>3, <3>1
      <4>2. GoneFits(trades, i + 1, x)
        BY <1>4, GoneGrows DEF Tracked
      <4> QED
        BY <2>1, <3>1, <4>1, <4>2 DEF SoldOff
    <3>2. CASE x # t.in
      <4>1. held[x] = open[x]
        BY <1>2, <1>3, <3>2
      <4>2. ~Sells(trades, i, x)
        BY <3>2 DEF Sells
      <4>3. SoldOff(trades, i, open, x)
        BY <1>4, <4>2, NotSold
      <4> QED
        BY <4>1, <4>3 DEF SoldOff
    <3> QED
      BY <3>1, <3>2
  <2> HIDE DEF held, open
  <2>4. ASSUME NEW x \in T
        PROVE  Tracked(trades, i + 1, [held EXCEPT ![t.out] = Append(@, lot)], x)
    BY <2>0, <2>2, <2>3, PurchaseTracked
  <2> HIDE DEF lot, t
  <2>5. /\ Len(Append(books.outcomes, row)) = i
        /\ \A j \in 1..i : Append(books.outcomes, row)[j] = Reference(trades)[j]
    BY <1>1, <1>3, <1>4, <2>1, OutcomesAgree
  <2> DEFINE next == [held EXCEPT ![t.out] = Append(@, lot)]
  <2>6. Account(books, t) = [open |-> next, outcomes |-> Append(books.outcomes, row)]
    BY <1>5, <1>7
  <2>7. \A x \in T : Tracked(trades, i + 1, next, x)
    BY <2>4
  <2> HIDE DEF next
  <2>8. Agrees(trades, i, Account(books, t), T)
    BY <2>5, <2>6, <2>7 DEF Agrees
  <2> QED
    BY <2>8 DEF t
<1> QED
  BY <1>6, <1>7

\* The queues of lots give every trade the outcome that numbering the units gives.
THEOREM FifoEqualsReference ==
  ASSUME NEW trades, trades \in Seq(Priced(Tokens(trades)))
  PROVE  Fifo(trades) = Reference(trades)
<1> DEFINE N == Len(trades)
           T == Tokens(trades)
           V == Books(T)
           step == AccountStep(trades, T)
<1>1. trades \in Seq(Trade(T)) /\ N \in Nat /\ DOMAIN trades = 1..N
  <2>1. Priced(T) \subseteq Trade(T)
    BY DEF Priced
  <2> HIDE DEF T
  <2>2. trades \in Seq(Priced(T))
    BY DEF T
  <2> QED
    BY <2>1, <2>2
<1>2. \A i \in 1..N : trades[i].paid > 0 /\ trades[i].usd % trades[i].got = 0
  <2> TAKE i \in 1..N
  <2>1. trades[i] \in Priced(T)
    <3> HIDE DEF T
    <3>1. trades \in Seq(Priced(T))
      BY DEF T
    <3> QED
      BY <3>1
  <2> QED
    BY <2>1 DEF Priced
<1>3. PICK g : Counts(g, N, V, NoBooks(T), step) /\ Fifo(trades) = g[N].outcomes
  BY <1>1, FifoCounts
<1> HIDE DEF T
<1>4. Counting(g, N, V, NoBooks(T), step)
  <2> HIDE DEF N, V, step
  <2> QED
    BY <1>1, <1>3, Counted, Zenon
<1> DEFINE P == {i \in 0..N : Agrees(trades, i, g[i], T)}
<1>5. 0 \in P
  <2>1. g[0] = NoBooks(T) /\ 0 \in 0..N
    BY <1>4 DEF Counting
  <2>2. ASSUME NEW x \in T PROVE Tracked(trades, 1, [y \in T |-> <<>>], x)
    BY HeldNone, CoversNone, NothingGone DEF Tracked
  <2>3. Agrees(trades, 0, NoBooks(T), T)
    BY <2>2 DEF Agrees, NoBooks
  <2> QED
    BY <2>1, <2>3
<1>6. ASSUME NEW i \in 1..N, i - 1 \in P PROVE i \in P
  <2>1. /\ i \in 0..N /\ i - 1 \in 0..N /\ g[i - 1] \in V /\ g[i] = step[i, g[i - 1]]
    <3> HIDE DEF N, V, step
    <3> QED
      BY <1>4 DEF Counting
  <2>2. g[i] = Account(g[i - 1], trades[i])
    <3> HIDE DEF V
    <3> QED
      BY <2>1 DEF AccountStep, V
  <2>3. Agrees(trades, i, Account(g[i - 1], trades[i]), T)
    <3>1. Agrees(trades, i - 1, g[i - 1], T)
      BY <1>6
    <3> QED
      BY <1>1, <1>2, <2>1, <3>1, AccountAgrees
  <2> QED
    BY <2>1, <2>2, <2>3
<1>7. N \in P
  <2> HIDE DEF P, N
  <2>1. 0..N \subseteq P
    BY <1>1, <1>5, <1>6, IntervalInduct
  <2> QED
    BY <1>1, <2>1
<1>8. g[N] \in V
  BY <1>4 DEF Counting
<1>9. /\ g[N].outcomes \in Seq(Outcomes) /\ Len(g[N].outcomes) = N
      /\ \A j \in 1..N : g[N].outcomes[j] = Reference(trades)[j]
  BY <1>7, <1>8 DEF Books, Agrees
<1> DEFINE F == Fifo(trades)
           R == Reference(trades)
<1>10. DOMAIN R = 1..N /\ R = [j \in 1..N |-> R[j]]
  BY <1>1 DEF Reference
<1>11. F \in Seq(Outcomes) /\ Len(F) = N /\ \A j \in 1..N : F[j] = R[j]
  BY <1>3, <1>9
<1> HIDE DEF F, R, N
<1>12. F = [j \in 1..N |-> F[j]]
  BY <1>11
<1> QED
  BY <1>10, <1>11, <1>12 DEF F, R
=============================================================================
