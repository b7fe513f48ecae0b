------------------------------ MODULE DataInduction ------------------------------
(***************************************************************************)
(* Induction over data for the provers at hand.  The induction theorems of *)
(* the library take a predicate as a parameter; here the predicate is a set, *)
(* so that a prover can instantiate it.  What a recursive function computes *)
(* for every argument can then be proved: the set of the arguments for which *)
(* it does contains 0 and the successor of each of its members.            *)
(***************************************************************************)
EXTENDS Integers, Sequences, WellFoundedInduction, TLAPS

\* The order of the natural numbers as a set of pairs.
Below == {ss \in Nat \X Nat : ss[1] < ss[2]}

\* Every set of natural numbers that is not empty has a least element.
LEMMA LeastElement ==
    ASSUME NEW T, T \subseteq Nat, T # {}
    PROVE  \E x \in T : \A y \in T : x <= y
<1>1. IsWellFoundedOn(Below, Nat)
  BY Zenon, NatLessThanWellFounded DEF OpToRel, Below
<1>2. PICK x \in T : \A y \in T : <<y, x>> \notin Below
  BY <1>1, WFMin
<1>3. \A y \in T : ~(y < x)
  BY <1>2 DEF Below
<1> QED
  BY <1>3

\* A bounded set of natural numbers that is not empty has a greatest element.
LEMMA GreatestElement ==
    ASSUME NEW n \in Nat, NEW T, T \subseteq 0..n, T # {}
    PROVE  \E x \in T : \A y \in T : x >= y
<1> DEFINE U == {n - x : x \in T}
<1>1. U \subseteq Nat /\ U # {}
  <2>1. \A x \in T : x \in 0..n /\ n - x \in Nat
    OBVIOUS
  <2> QED BY <2>1
<1>2. PICK u \in U : \A v \in U : u <= v
  <2> HIDE DEF U
  <2> QED BY <1>1, LeastElement
<1>3. PICK x \in T : u = n - x
  OBVIOUS
<1>4. \A y \in T : n - y \in U
  OBVIOUS
<1>5. \A y \in T : x >= y
  <2> HIDE DEF U
  <2> QED BY <1>2, <1>3, <1>4
<1> QED BY <1>5

\* Induction over the natural numbers.
LEMMA SetInduction ==
    ASSUME NEW T, 0 \in T, \A n \in Nat : n \in T => n + 1 \in T
    PROVE  Nat \subseteq T
<1> DEFINE Rest == Nat \ T
<1> SUFFICES ASSUME Rest # {} PROVE FALSE
  OBVIOUS
<1>1. PICK n \in Rest : \A m \in Rest : n <= m
  BY LeastElement
<1>2. n # 0 /\ n - 1 \in Nat /\ n - 1 \notin Rest
  BY <1>1
<1> QED
  BY <1>1, <1>2

\* What a primitive recursion does at a place with the value of the place before.
Steps(S) == [Nat \X S -> S]

\* The functions that satisfy a primitive recursion up to N.
Run(S, a, g, N) ==
    {f \in [0..N -> S] : f[0] = a /\ \A i \in 1..N : f[i] = g[<<i, f[i - 1]>>]}

\* A primitive recursion defines a function.
LEMMA PrimitiveRecursion ==
    \A S, a, g, N :
        a \in S /\ g \in Steps(S) /\ N \in Nat => Run(S, a, g, N) # {}
<1> SUFFICES ASSUME NEW S, NEW a \in S, NEW g \in [Nat \X S -> S], NEW N \in Nat
             PROVE  Run(S, a, g, N) # {}
  BY DEF Steps
<1> DEFINE Good(n, f) == f[0] = a /\ \A i \in 1..n : f[i] = g[<<i, f[i - 1]>>]
           T == {n \in Nat : \E f \in [0..n -> S] : Good(n, f)}
<1>1. 0 \in T
  <2>1. [i \in 0..0 |-> a] \in [0..0 -> S] /\ Good(0, [i \in 0..0 |-> a])
    OBVIOUS
  <2> QED BY <2>1
<1>2. ASSUME NEW n \in Nat, n \in T PROVE n + 1 \in T
  <2>1. PICK f \in [0..n -> S] : Good(n, f)
    BY <1>2
  <2> DEFINE h == [i \in 0..(n + 1) |-> IF i = n + 1 THEN g[<<i, f[n]>>] ELSE f[i]]
  <2>2. h \in [0..(n + 1) -> S]
    OBVIOUS
  <2>3. Good(n + 1, h)
    BY <2>1
  <2>4. \E e \in [0..(n + 1) -> S] : Good(n + 1, e)
    <3> HIDE DEF Good, h
    <3> QED BY <2>2, <2>3
  <2> HIDE DEF Good, h
  <2> QED BY <2>4
<1>3. Nat \subseteq T
  <2> HIDE DEF T
  <2> QED BY <1>1, <1>2, SetInduction
<1> QED BY <1>3 DEF Run

\* A sequence over a set is one over every larger set.
LEMMA SeqWider ==
    ASSUME NEW A, NEW B, A \subseteq B, NEW s \in Seq(A)
    PROVE  s \in Seq(B)
OBVIOUS
=============================================================================
