------------------------------ MODULE Induction ------------------------------
(***************************************************************************)
(* Induction over numbers and over finite sets in first-order form: what    *)
(* holds of a number or of a set is given as the set of those it holds of.  *)
(* All of it follows from the well-foundedness of the natural numbers, and  *)
(* from it what the sums of the models do.                                  *)
(***************************************************************************)
EXTENDS Integers, Functions, FiniteSetTheorems, WellFoundedInduction, NaturalsInduction, TLAPS

(* a set of numbers that is not empty has a least one *)
LEMMA LeastExists ==
    ASSUME NEW S \in SUBSET Nat, S # {}
    PROVE  \E m \in S : \A x \in S : m <= x
<1>1. PICK m \in S : \A x \in S : ~ (<<x, m>> \in OpToRel(<, Nat))
    BY WFMin, NatLessThanWellFounded
<1>2. \A x \in S : ~ (x < m)
    BY <1>1 DEF OpToRel
<1> QED
    BY <1>2

(* a set with zero, and with the successor of every number in it, has all *)
LEMMA NumberInduction ==
    ASSUME NEW S, 0 \in S, \A n \in Nat : n \in S => n + 1 \in S
    PROVE  Nat \subseteq S
<1> SUFFICES ASSUME Nat \ S # {} PROVE FALSE
    OBVIOUS
<1>1. PICK m \in Nat \ S : \A x \in Nat \ S : m <= x
    BY LeastExists
<1>2. m # 0 /\ m - 1 \in Nat
    BY <1>1
<1>3. m - 1 \in S
    BY <1>1, <1>2
<1>4. m - 1 + 1 = m
    BY <1>1
<1> QED
    BY <1>1, <1>2, <1>3, <1>4

(* the same up to a bound *)
LEMMA BoundedInduction ==
    ASSUME NEW k \in Nat, NEW S, 0 \in S, \A n \in 1 .. k : n - 1 \in S => n \in S
    PROVE  0 .. k \subseteq S
<1> DEFINE T == {n \in Nat : n <= k => n \in S}
<1>1. 0 \in T
    OBVIOUS
<1>2. ASSUME NEW n \in Nat, n \in T PROVE n + 1 \in T
  <2>1. CASE n + 1 <= k
    <3>1. n + 1 \in 1 .. k /\ n + 1 - 1 = n /\ n \in S
        BY <1>2, <2>1
    <3> QED
        BY <3>1
  <2> QED
      BY <2>1
<1>3. Nat \subseteq T
    BY <1>1, <1>2, NumberInduction
<1> QED
    BY <1>3

(* a set of sets with the empty one, and with every part of F all of whose  *)
(* parts that lack one element it has, has every part of F                  *)
LEMMA ElementInduction ==
    ASSUME NEW F, IsFiniteSet(F), NEW Good, {} \in Good,
           \A T \in SUBSET F : T # {} /\ (\A x \in T : T \ {x} \in Good) => T \in Good
    PROVE  SUBSET F \subseteq Good
<1> DEFINE Sized(n) == \A T \in SUBSET F : Cardinality(T) = n => T \in Good
           Sizes == {n \in Nat : Sized(n)}
<1>1. \A T \in SUBSET F : IsFiniteSet(T) /\ Cardinality(T) \in Nat
    BY FS_Subset, FS_CardinalityType
<1>2. 0 \in Sizes
    BY <1>1, FS_EmptySet
<1>3. ASSUME NEW n \in Nat, n \in Sizes PROVE n + 1 \in Sizes
  <2>1. SUFFICES ASSUME NEW T \in SUBSET F, Cardinality(T) = n + 1 PROVE T \in Good
      OBVIOUS
  <2>2. T # {}
      BY <1>1, <2>1, FS_EmptySet
  <2>3. ASSUME NEW x \in T PROVE T \ {x} \in Good
    <3>1. Cardinality(T \ {x}) = Cardinality(T) - 1
        BY <1>1, FS_RemoveElement
    <3>2. Cardinality(T \ {x}) = n
        BY <2>1, <3>1
    <3> QED
        BY <1>3, <3>2
  <2> QED
      BY <2>2, <2>3
<1>4. Nat \subseteq Sizes
  <2> HIDE DEF Sizes
  <2> QED
      BY <1>2, <1>3, NumberInduction
<1> QED
    BY <1>1, <1>4

(* a set of sets with the empty one, and with every one of its sets that is *)
(* not all of F larger by any element of F, has F                           *)
LEMMA SubsetInduction ==
    ASSUME NEW F, IsFiniteSet(F), NEW Good, {} \in Good,
           \A T \in SUBSET F : \A x \in F \ T : T \in Good => T \cup {x} \in Good
    PROVE  F \in Good
<1>1. ASSUME NEW T \in SUBSET F, T # {}, \A x \in T : T \ {x} \in Good PROVE T \in Good
  <2>1. PICK x \in T : TRUE
      BY <1>1
  <2>2. (T \ {x}) \cup {x} = T /\ x \in F \ (T \ {x}) /\ T \ {x} \in SUBSET F
      BY <2>1
  <2> QED
      BY <1>1, <2>2
<1>2. SUBSET F \subseteq Good
    BY <1>1, ElementInduction
<1> QED
    BY <1>2

(* of finitely many integers, if there are any, one is the largest *)
LEMMA GreatestExists ==
    ASSUME NEW S, IsFiniteSet(S), S # {}, NEW f, \A x \in S : f[x] \in Int
    PROVE  \E m \in S : \A x \in S : f[x] <= f[m]
<1> DEFINE Good == {T \in SUBSET S : T # {} => \E m \in T : \A x \in T : f[x] <= f[m]}
<1>1. {} \in Good
    OBVIOUS
<1>2. ASSUME NEW T \in SUBSET S, NEW y \in S \ T, T \in Good
      PROVE  T \cup {y} \in Good
  <2>1. CASE T = {}
    <3>1. \A x \in T \cup {y} : f[x] <= f[y]
        BY <2>1
    <3> QED
        BY <3>1
  <2>2. CASE T # {}
    <3>1. PICK m \in T : \A x \in T : f[x] <= f[m]
        BY <1>2, <2>2
    <3>2. CASE f[y] <= f[m]
        BY <3>1, <3>2
    <3>3. CASE f[m] < f[y]
      <4>1. \A x \in T \cup {y} : f[x] <= f[y]
          BY <3>1, <3>3
      <4> QED
          BY <4>1
    <3> QED
        BY <3>2, <3>3
  <2> QED
      BY <2>1, <2>2
<1>3. S \in Good
  <2> HIDE DEF Good
  <2> QED
      BY <1>1, <1>2, SubsetInduction
<1> QED
    BY <1>3

(***************************************************************************)
(* Powers, the way Scoring computes them.                                   *)
(***************************************************************************)
Multiplies(base, n, p) == p = [i \in 0 .. n |-> IF i = 0 THEN 1 ELSE base * p[i - 1]]

LEMMA PowersExist ==
    ASSUME NEW base, NEW n \in Nat
    PROVE  \E p : Multiplies(base, n, p)
<1> DEFINE Sizes == {k \in Nat : \E p : Multiplies(base, k, p)}
<1>1. 0 \in Sizes
  <2> DEFINE p == [i \in 0 .. 0 |-> 1]
  <2>1. \A i \in 0 .. 0 : i = 0
      OBVIOUS
  <2>2. Multiplies(base, 0, p)
      BY <2>1 DEF Multiplies
  <2> HIDE DEF p
  <2> QED
      BY <2>2
<1>2. ASSUME NEW k \in Nat, k \in Sizes PROVE k + 1 \in Sizes
  <2>1. PICK p : Multiplies(base, k, p)
      BY <1>2
  <2> DEFINE q == [i \in 0 .. k + 1 |-> IF i = 0 THEN 1 ELSE base * p[i - 1]]
  <2>2. \A i \in 0 .. k : q[i] = p[i]
      BY <2>1 DEF Multiplies
  <2>3. \A i \in 0 .. k + 1 : i # 0 => i - 1 \in 0 .. k
      OBVIOUS
  <2>4. q = [i \in 0 .. k + 1 |-> IF i = 0 THEN 1 ELSE base * q[i - 1]]
    <3> DEFINE r == [i \in 0 .. k + 1 |-> IF i = 0 THEN 1 ELSE base * q[i - 1]]
    <3>1. \A i \in 0 .. k + 1 : q[i] = r[i]
        BY <2>2, <2>3
    <3> QED
        BY <3>1
  <2>5. Multiplies(base, k + 1, q)
    <3> HIDE DEF q
    <3> QED
        BY <2>4 DEF Multiplies
  <2> HIDE DEF q
  <2> QED
      BY <2>5
<1>3. Nat \subseteq Sizes
  <2> HIDE DEF Sizes
  <2> QED
      BY <1>1, <1>2, NumberInduction
<1> QED
    BY <1>3

(***************************************************************************)
(* Sums.  SumFunctionOnSet picks the elements in an order of its own, with  *)
(* a function over all parts of the set; that there is one is what makes    *)
(* the sum defined.                                                         *)
(***************************************************************************)
Pick(s) == CHOOSE x \in s : TRUE
Added(f, g, s) == IF s = {} THEN 0 ELSE f[Pick(s)] + g[s \ {Pick(s)}]
Adds(f, S, g) == g = [s \in SUBSET S |-> Added(f, g, s)]

LEMMA SumOfParts ==
    ASSUME NEW f, NEW S
    PROVE  SumFunctionOnSet(f, S) = (CHOOSE g : Adds(f, S, g))[S]
BY DEF SumFunctionOnSet, FoldFunctionOnSet, MapThenFoldSet, Adds, Added, Pick

LEMMA PartsExist ==
    ASSUME NEW f, NEW S, IsFiniteSet(S)
    PROVE  \E g : Adds(f, S, g)
<1> DEFINE Small(n) == {s \in SUBSET S : Cardinality(s) <= n}
           Serves(n, g) == g = [s \in Small(n) |-> Added(f, g, s)]
           Sizes == {n \in Nat : \E g : Serves(n, g)}
<1>1. \A s \in SUBSET S : IsFiniteSet(s) /\ Cardinality(s) \in Nat /\ Cardinality(s) <= Cardinality(S)
    BY FS_Subset, FS_CardinalityType
<1>2. \A s \in SUBSET S : s # {} => /\ Pick(s) \in s
                                    /\ Cardinality(s \ {Pick(s)}) = Cardinality(s) - 1
  <2>1. ASSUME NEW s \in SUBSET S, s # {} PROVE Pick(s) \in s
      BY <2>1 DEF Pick
  <2> QED
      BY <1>1, <2>1, FS_RemoveElement
<1>3. 0 \in Sizes
  <2>1. \A s \in Small(0) : s = {}
      BY <1>1, FS_EmptySet
  <2> DEFINE g == [s \in Small(0) |-> 0]
  <2>2. \A s \in Small(0) : Added(f, g, s) = 0
      BY <2>1 DEF Added
  <2>3. Serves(0, g)
      BY <2>2
  <2> QED
      BY <2>3
<1>4. ASSUME NEW n \in Nat, n \in Sizes PROVE n + 1 \in Sizes
  <2>1. PICK g : Serves(n, g)
      BY <1>4
  <2> DEFINE h == [s \in Small(n + 1) |-> Added(f, g, s)]
  <2>2. Small(n) \subseteq Small(n + 1)
      BY <1>1
  <2>3. \A s \in Small(n) : h[s] = g[s]
      BY <2>1, <2>2
  <2>4. ASSUME NEW s \in Small(n + 1) PROVE Added(f, h, s) = Added(f, g, s)
    <3>1. CASE s = {}
        BY <3>1 DEF Added
    <3>2. CASE s # {}
      <4>1. s \ {Pick(s)} \in Small(n)
          BY <1>1, <1>2, <3>2
      <4>2. h[s \ {Pick(s)}] = g[s \ {Pick(s)}]
          BY <2>3, <4>1
      <4> HIDE DEF h
      <4> QED
          BY <3>2, <4>2 DEF Added
    <3> QED
        BY <3>1, <3>2
  <2>5. Serves(n + 1, h)
    <3>1. h = [s \in Small(n + 1) |-> Added(f, g, s)]
        OBVIOUS
    <3> HIDE DEF h
    <3> QED
        BY <2>4, <3>1
  <2> HIDE DEF h
  <2>6. \E k : Serves(n + 1, k)
      BY <2>5
  <2> HIDE DEF Serves
  <2> QED
      BY <2>6
<1>5. Nat \subseteq Sizes
  <2> HIDE DEF Sizes
  <2> QED
      BY <1>3, <1>4, NumberInduction
<1>6. Cardinality(S) \in Nat /\ Small(Cardinality(S)) = SUBSET S
    BY <1>1, FS_CardinalityType
<1>7. PICK g : Serves(Cardinality(S), g)
    BY <1>5, <1>6
<1>8. Adds(f, S, g)
    BY <1>6, <1>7 DEF Adds
<1> QED
    BY <1>8

(* The sum of a part is the same within any set that has it. *)
LEMMA PartsAgree ==
    ASSUME NEW f, NEW S, IsFiniteSet(S), NEW g, Adds(f, S, g), NEW s \in SUBSET S
    PROVE  SumFunctionOnSet(f, s) = g[s]
<1> DEFINE h == CHOOSE k : Adds(f, s, k)
           Good == {t \in SUBSET s : h[t] = g[t]}
<1>1. IsFiniteSet(s)
    BY FS_Subset
<1>2. Adds(f, s, h)
    BY <1>1, PartsExist
<1> HIDE DEF h
<1>3. /\ \A t \in SUBSET s : h[t] = Added(f, h, t)
      /\ \A t \in SUBSET s : g[t] = Added(f, g, t)
    BY <1>2 DEF Adds
<1>4. {} \in Good
    BY <1>3 DEF Added
<1>5. ASSUME NEW t \in SUBSET s, t # {}, \A x \in t : t \ {x} \in Good PROVE t \in Good
  <2>1. Pick(t) \in t
      BY <1>5 DEF Pick
  <2>2. h[t \ {Pick(t)}] = g[t \ {Pick(t)}]
      BY <1>5, <2>1
  <2>3. h[t] = g[t]
      BY <1>3, <1>5, <2>2 DEF Added
  <2> QED
      BY <2>3
<1>6. SUBSET s \subseteq Good
  <2> HIDE DEF Good
  <2> QED
      BY <1>1, <1>4, <1>5, ElementInduction
<1> QED
    BY <1>6, SumOfParts DEF h

(* Nothing sums up to nothing, and a sum is what is picked and the rest. *)
LEMMA SumSteps ==
    ASSUME NEW f, NEW S, IsFiniteSet(S)
    PROVE  /\ SumFunctionOnSet(f, {}) = 0
           /\ S # {} => /\ Pick(S) \in S
                        /\ SumFunctionOnSet(f, S) = f[Pick(S)] + SumFunctionOnSet(f, S \ {Pick(S)})
<1>1. PICK g : Adds(f, S, g)
    BY PartsExist
<1>2. \A s \in SUBSET S : SumFunctionOnSet(f, s) = g[s] /\ g[s] = Added(f, g, s)
  <2>1. \A s \in SUBSET S : SumFunctionOnSet(f, s) = g[s]
      BY <1>1, PartsAgree
  <2>2. \A s \in SUBSET S : g[s] = Added(f, g, s)
      BY <1>1 DEF Adds
  <2> QED
      BY <2>1, <2>2
<1>3. SumFunctionOnSet(f, {}) = 0
    BY <1>2 DEF Added
<1>4. S # {} => Pick(S) \in S
    BY DEF Pick
<1>5. S # {} => SumFunctionOnSet(f, S) = f[Pick(S)] + SumFunctionOnSet(f, S \ {Pick(S)})
    BY <1>2 DEF Added
<1> QED
    BY <1>3, <1>4, <1>5

(* A sum of natural numbers is one. *)
LEMMA SumType ==
    ASSUME NEW f, NEW S, IsFiniteSet(S), \A x \in S : f[x] \in Nat
    PROVE  SumFunctionOnSet(f, S) \in Nat
<1> DEFINE Good == {s \in SUBSET S : SumFunctionOnSet(f, s) \in Nat}
<1>1. {} \in Good
  <2>1. SumFunctionOnSet(f, {}) = 0
      BY SumSteps
  <2> QED
      BY <2>1
<1>2. ASSUME NEW s \in SUBSET S, s # {}, \A x \in s : s \ {x} \in Good PROVE s \in Good
  <2>1. IsFiniteSet(s)
      BY FS_Subset
  <2>2. Pick(s) \in s /\ SumFunctionOnSet(f, s) = f[Pick(s)] + SumFunctionOnSet(f, s \ {Pick(s)})
      BY <1>2, <2>1, SumSteps
  <2>3. f[Pick(s)] \in Nat /\ SumFunctionOnSet(f, s \ {Pick(s)}) \in Nat
      BY <1>2, <2>2
  <2> QED
      BY <2>2, <2>3
<1>3. SUBSET S \subseteq Good
  <2> HIDE DEF Good
  <2> QED
      BY <1>1, <1>2, ElementInduction
<1> QED
    BY <1>3

(* Whichever element is taken out, the rest lacks what it adds. *)
LEMMA SumWithout ==
    ASSUME NEW f, NEW S, IsFiniteSet(S), \A y \in S : f[y] \in Nat, NEW x \in S
    PROVE  SumFunctionOnSet(f, S) = f[x] + SumFunctionOnSet(f, S \ {x})
<1> DEFINE Sum(s) == SumFunctionOnSet(f, s)
           Good == {s \in SUBSET S : \A y \in s : Sum(s) = f[y] + Sum(s \ {y})}
<1>1. {} \in Good
    OBVIOUS
<1>2. ASSUME NEW s \in SUBSET S, s # {}, \A y \in s : s \ {y} \in Good PROVE s \in Good
  <2> DEFINE p == Pick(s)
  <2>1. IsFiniteSet(s)
      BY FS_Subset
  <2>2. p \in s /\ Sum(s) = f[p] + Sum(s \ {p})
      BY <1>2, <2>1, SumSteps
  <2>3. \A t \in SUBSET S : Sum(t) \in Nat
      BY FS_Subset, SumType
  <2> HIDE DEF p, Sum
  <2>4. ASSUME NEW y \in s, y # p PROVE Sum(s) = f[y] + Sum(s \ {y})
    <3>1. y \in s \ {p} /\ p \in s \ {y} /\ (s \ {p}) \ {y} = (s \ {y}) \ {p}
        BY <2>2, <2>4
    <3>2. Sum(s \ {p}) = f[y] + Sum((s \ {p}) \ {y})
        BY <1>2, <2>2, <3>1
    <3>3. Sum(s \ {y}) = f[p] + Sum((s \ {p}) \ {y})
        BY <1>2, <3>1
    <3>4. f[y] \in Nat /\ f[p] \in Nat /\ Sum((s \ {p}) \ {y}) \in Nat
        BY <2>2, <2>3
    <3> QED
        BY <2>2, <3>2, <3>3, <3>4
  <2> QED
      BY <2>2, <2>4
<1>3. SUBSET S \subseteq Good
  <2> HIDE DEF Good
  <2> QED
      BY <1>1, <1>2, ElementInduction
<1> QED
    BY <1>3

(* Equal summands make equal sums. *)
LEMMA SumSame ==
    ASSUME NEW f, NEW g, NEW S, IsFiniteSet(S), \A x \in S : f[x] = g[x]
    PROVE  SumFunctionOnSet(f, S) = SumFunctionOnSet(g, S)
<1> DEFINE Good == {s \in SUBSET S : SumFunctionOnSet(f, s) = SumFunctionOnSet(g, s)}
<1>1. {} \in Good
    BY SumSteps
<1>2. ASSUME NEW s \in SUBSET S, s # {}, \A x \in s : s \ {x} \in Good PROVE s \in Good
  <2>1. IsFiniteSet(s)
      BY FS_Subset
  <2>2. /\ Pick(s) \in s
        /\ SumFunctionOnSet(f, s) = f[Pick(s)] + SumFunctionOnSet(f, s \ {Pick(s)})
        /\ SumFunctionOnSet(g, s) = g[Pick(s)] + SumFunctionOnSet(g, s \ {Pick(s)})
      BY <1>2, <2>1, SumSteps
  <2> QED
      BY <1>2, <2>2
<1>3. SUBSET S \subseteq Good
  <2> HIDE DEF Good
  <2> QED
      BY <1>1, <1>2, ElementInduction
<1> QED
    BY <1>3

(* What adds nothing can be left out. *)
LEMMA SumSupport ==
    ASSUME NEW f, NEW S, IsFiniteSet(S), \A x \in S : f[x] \in Nat,
           NEW T \in SUBSET S, \A x \in S \ T : f[x] = 0
    PROVE  SumFunctionOnSet(f, S) = SumFunctionOnSet(f, T)
<1> DEFINE Sum(s) == SumFunctionOnSet(f, s)
           Good == {s \in SUBSET (S \ T) : Sum(T \cup s) = Sum(T)}
<1>1. IsFiniteSet(S \ T)
    BY FS_Subset
<1>2. {} \in Good
  <2>1. T \cup {} = T
      OBVIOUS
  <2> QED
      BY <2>1
<1>3. ASSUME NEW s \in SUBSET (S \ T), NEW x \in (S \ T) \ s, s \in Good
      PROVE  s \cup {x} \in Good
  <2>1. /\ T \cup (s \cup {x}) \in SUBSET S /\ x \in T \cup (s \cup {x})
        /\ (T \cup (s \cup {x})) \ {x} = T \cup s
      OBVIOUS
  <2>2. IsFiniteSet(T \cup (s \cup {x})) /\ \A y \in T \cup (s \cup {x}) : f[y] \in Nat
      BY <2>1, FS_Subset
  <2>3. Sum(T \cup (s \cup {x})) = f[x] + Sum(T \cup s)
    <3> DEFINE whole == T \cup (s \cup {x})
    <3>1. SumFunctionOnSet(f, whole) = f[x] + SumFunctionOnSet(f, whole \ {x})
      <4> HIDE DEF whole
      <4> QED
          BY <2>1, <2>2, SumWithout DEF whole
    <3> QED
        BY <2>1, <3>1
  <2>4. Sum(T) \in Nat
      BY FS_Subset, SumType
  <2> QED
      BY <1>3, <2>3, <2>4
<1>4. S \ T \in Good
  <2> HIDE DEF Good
  <2> QED
      BY <1>1, <1>2, <1>3, SubsetInduction
<1>5. T \cup (S \ T) = S
    OBVIOUS
<1> QED
    BY <1>4, <1>5
=============================================================================
