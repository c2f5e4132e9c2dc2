---------------------------- MODULE FoldTheorems ----------------------------
(***************************************************************************)
(* Facts about sums over finite sets, as MapThenSumSet and the folds of    *)
(* the community modules compute them: by a recursive function that takes  *)
(* out one chosen element at a time.  That such a function exists, and     *)
(* what it computes, is shown by induction.  A set of numbers, or a set of *)
(* sets, stands for the predicate: a set of numbers has a least one.       *)
(***************************************************************************)
EXTENDS Integers, Sequences, FiniteSets, FiniteSetTheorems, WellFoundedInduction, TLAPS

-----------------------------------------------------------------------------
(* Induction.                                                              *)

LEMMA LeastNat ==
  ASSUME NEW T, T \subseteq Nat, T # {}
  PROVE  \E m \in T : \A n \in T : m <= n
<1> DEFINE R == OpToRel(<, Nat)
<1>1. IsWellFoundedOn(R, Nat)
  BY NatLessThanWellFounded
<1> HIDE DEF R
<1>2. PICK m \in T : \A n \in T : ~ (<<n, m>> \in R)
  BY <1>1, WFMin
<1>3. \A n \in T : ~ (n < m)
  BY <1>2 DEF R, OpToRel
<1> QED BY <1>2, <1>3

(* A set with zero, and with the next of each of its numbers, has them all. *)
LEMMA Reaches ==
  ASSUME NEW T, 0 \in T, \A n \in Nat : n \in T => n + 1 \in T
  PROVE  \A n \in Nat : n \in T
<1> SUFFICES ASSUME Nat \ T # {} PROVE FALSE
  OBVIOUS
<1>1. PICK m \in Nat \ T : \A n \in Nat \ T : m <= n
  BY LeastNat
<1>2. m # 0 /\ m - 1 \in Nat /\ ~(m <= m - 1) /\ (m - 1) + 1 = m
  BY <1>1
<1>3. m - 1 \in T
  BY <1>1, <1>2
<1> QED BY <1>1, <1>2, <1>3

(* What has every set of which it has all the smaller ones, has them all.  *)
LEMMA BySize ==
  ASSUME NEW S, IsFiniteSet(S), NEW Good,
         \A s \in SUBSET S :
           (\A u \in SUBSET S : Cardinality(u) < Cardinality(s) => u \in Good) => s \in Good
  PROVE  \A s \in SUBSET S : s \in Good
<1> DEFINE Size == {n \in Nat : \A s \in SUBSET S : Cardinality(s) <= n => s \in Good}
<1>0. \A s \in SUBSET S : Cardinality(s) \in Nat
  BY FS_Subset, FS_CardinalityType
<1>1. 0 \in Size
  BY <1>0
<1>2. ASSUME NEW n \in Nat, n \in Size PROVE n + 1 \in Size
  <2>1. \A s \in SUBSET S : Cardinality(s) <= n => s \in Good
    BY <1>2
  <2>2. ASSUME NEW s \in SUBSET S, Cardinality(s) <= n + 1 PROVE s \in Good
    <3>1. \A u \in SUBSET S : Cardinality(u) < Cardinality(s) => Cardinality(u) <= n
      BY <1>0, <2>2
    <3> QED BY <3>1, <2>1
  <2> QED BY <2>2
<1>3. \A n \in Nat : n \in Size
  <2> HIDE DEF Size
  <2> QED BY <1>1, <1>2, Reaches
<1> QED BY <1>0, <1>3

LEMMA OneLess ==
  ASSUME NEW S, IsFiniteSet(S), NEW s \in SUBSET S, NEW x \in s
  PROVE  /\ s \ {x} \in SUBSET S /\ IsFiniteSet(s) /\ IsFiniteSet(s \ {x})
         /\ Cardinality(s) \in Nat /\ Cardinality(s) > 0
         /\ Cardinality(s \ {x}) = Cardinality(s) - 1
<1>1. IsFiniteSet(s) /\ Cardinality(s) \in Nat
  BY FS_Subset, FS_CardinalityType
<1>2. Cardinality(s) # 0
  BY <1>1, FS_EmptySet
<1>3. Cardinality(s \ {x}) = Cardinality(s) - 1 /\ IsFiniteSet(s \ {x})
  BY <1>1, FS_RemoveElement
<1> QED BY <1>1, <1>2, <1>3

-----------------------------------------------------------------------------
(* Sums: f of each element, and c chooses the one that is taken out.       *)

Folds(h, S, f, c) ==
  /\ h \in [SUBSET S -> Int]
  /\ \A s \in SUBSET S : h[s] = IF s = {} THEN 0 ELSE f[c[s]] + h[s \ {c[s]}]

THEOREM FoldExists ==
  ASSUME NEW S, IsFiniteSet(S), NEW f, \A x \in S : f[x] \in Int,
         NEW c, \A s \in SUBSET S : s # {} => c[s] \in s
  PROVE  \E h : Folds(h, S, f, c)
<1> DEFINE Step(h, s) == IF s = {} THEN 0 ELSE f[c[s]] + h[s \ {c[s]}]
           Upto(n) == {s \in SUBSET S : Cardinality(s) <= n}
           Built == {n \in Nat : \E h \in [Upto(n) -> Int] : \A s \in Upto(n) : h[s] = Step(h, s)}
<1>1. 0 \in Built
  <2> DEFINE h == [s \in Upto(0) |-> 0]
  <2>1. ASSUME NEW s \in Upto(0) PROVE s = {}
    <3>1. s \in SUBSET S /\ Cardinality(s) <= 0
      OBVIOUS
    <3>2. s # {} => Cardinality(s) \in Nat /\ Cardinality(s) > 0
      BY <3>1, OneLess
    <3> QED BY <3>1, <3>2
  <2>2. h \in [Upto(0) -> Int] /\ \A s \in Upto(0) : h[s] = Step(h, s)
    BY <2>1
  <2> QED BY <2>2
<1>2. ASSUME NEW n \in Nat, n \in Built PROVE n + 1 \in Built
  <2>1. PICK h \in [Upto(n) -> Int] : \A s \in Upto(n) : h[s] = Step(h, s)
    BY <1>2
  <2> DEFINE g == [s \in Upto(n + 1) |-> Step(h, s)]
  <2>2. ASSUME NEW s \in Upto(n + 1), s # {} PROVE s \ {c[s]} \in Upto(n) /\ f[c[s]] \in Int
    <3>1. s \in SUBSET S /\ Cardinality(s) <= n + 1 /\ c[s] \in s
      BY <2>2
    <3>2. /\ s \ {c[s]} \in SUBSET S /\ Cardinality(s) \in Nat
          /\ Cardinality(s \ {c[s]}) = Cardinality(s) - 1
      BY <3>1, OneLess
    <3> QED BY <3>1, <3>2
  <2>3. g \in [Upto(n + 1) -> Int]
    <3>1. \A s \in Upto(n + 1) : s # {} => h[s \ {c[s]}] \in Int
      BY <2>1, <2>2
    <3> QED BY <2>2, <3>1
  <2>4. \A s \in Upto(n) : s \in Upto(n + 1) /\ g[s] = h[s]
    <3>1. \A s \in SUBSET S : Cardinality(s) \in Nat
      BY FS_Subset, FS_CardinalityType
    <3> QED BY <3>1, <2>1
  <2>5. \A s \in Upto(n + 1) : g[s] = Step(g, s)
    <3>1. \A s \in Upto(n + 1) : s # {} => g[s \ {c[s]}] = h[s \ {c[s]}]
      BY <2>2, <2>4
    <3>2. \A s \in Upto(n + 1) : g[s] = Step(h, s)
      OBVIOUS
    <3> SUFFICES ASSUME NEW s \in Upto(n + 1) PROVE g[s] = Step(g, s)
      OBVIOUS
    <3>3. Step(h, s) = Step(g, s)
      <4> HIDE DEF g
      <4>1. CASE s = {}
        BY <4>1
      <4>2. CASE s # {}
        BY <4>2, <3>1
      <4> QED BY <4>1, <4>2
    <3> HIDE DEF g, Step
    <3> QED BY <3>2, <3>3
  <2>6. n + 1 \in Nat
    OBVIOUS
  <2>7. \E k \in [Upto(n + 1) -> Int] : \A s \in Upto(n + 1) : k[s] = Step(k, s)
    <3> HIDE DEF g, Upto, Step
    <3> QED BY <2>3, <2>5
  <2> HIDE DEF Upto, Step
  <2> QED BY <2>6, <2>7
<1>3. \A n \in Nat : n \in Built
  <2> HIDE DEF Built
  <2> QED BY <1>1, <1>2, Reaches
<1>4. Cardinality(S) \in Built
  BY <1>3, FS_CardinalityType
<1>5. Upto(Cardinality(S)) = SUBSET S
  BY FS_Subset
<1> QED BY <1>4, <1>5 DEF Folds

(* What the fold of a set computes by the chosen element.                  *)
Chosen(s) == CHOOSE x \in s : TRUE

Summing(f, S) ==
  CHOOSE h : h = [s \in SUBSET S |-> IF s = {} THEN 0 ELSE f[Chosen(s)] + h[s \ {Chosen(s)}]]

(* MapThenSumSet(LAMBDA x : f[x], S).                                      *)
SumOver(f, S) == Summing(f, S)[S]

LEMMA SummingSteps ==
  ASSUME NEW S, IsFiniteSet(S), NEW f, \A x \in S : f[x] \in Int
  PROVE  \A s \in SUBSET S :
           Summing(f, S)[s] = IF s = {} THEN 0
                              ELSE f[Chosen(s)] + Summing(f, S)[s \ {Chosen(s)}]
<1> DEFINE c == [s \in SUBSET S |-> Chosen(s)]
           Of(h) == [s \in SUBSET S |-> IF s = {} THEN 0 ELSE f[Chosen(s)] + h[s \ {Chosen(s)}]]
<1>1. \A s \in SUBSET S : c[s] = Chosen(s) /\ (s # {} => c[s] \in s)
  BY DEF Chosen
<1>2. PICK h : Folds(h, S, f, c)
  <2>1. \A s \in SUBSET S : s # {} => c[s] \in s
    BY <1>1
  <2> HIDE DEF c
  <2> QED BY <2>1, FoldExists
<1>3. h = Of(h)
  BY <1>1, <1>2 DEF Folds
<1>4. Summing(f, S) = Of(Summing(f, S))
  BY <1>3 DEF Summing
<1> QED BY <1>4

LEMMA SummingIsInt ==
  ASSUME NEW S, IsFiniteSet(S), NEW f, \A x \in S : f[x] \in Int
  PROVE  \A s \in SUBSET S : Summing(f, S)[s] \in Int
<1> DEFINE Good == {s \in SUBSET S : Summing(f, S)[s] \in Int}
<1>1. ASSUME NEW s \in SUBSET S, \A u \in SUBSET S : Cardinality(u) < Cardinality(s) => u \in Good
      PROVE  s \in Good
  <2>1. CASE s = {}
    BY <2>1, SummingSteps
  <2>2. CASE s # {}
    <3>0. Chosen(s) \in s
      BY <2>2 DEF Chosen
    <3>1. Summing(f, S)[s] = f[Chosen(s)] + Summing(f, S)[s \ {Chosen(s)}]
      BY <2>2, SummingSteps
    <3>2. s \ {Chosen(s)} \in SUBSET S /\ Cardinality(s \ {Chosen(s)}) < Cardinality(s)
      BY <3>0, OneLess
    <3>3. s \ {Chosen(s)} \in Good /\ f[Chosen(s)] \in Int
      BY <1>1, <3>0, <3>2
    <3> QED BY <3>1, <3>3
  <2> QED BY <2>1, <2>2
<1>2. \A s \in SUBSET S : s \in Good
  <2> HIDE DEF Good
  <2> QED BY <1>1, BySize
<1> QED BY <1>2

(* The sum over a part does not depend on the set that it is a part of.    *)
LEMMA SummingIsSum ==
  ASSUME NEW S, IsFiniteSet(S), NEW f, \A x \in S : f[x] \in Int
  PROVE  \A s \in SUBSET S : Summing(f, S)[s] = SumOver(f, s)
<1> SUFFICES ASSUME NEW t \in SUBSET S PROVE Summing(f, S)[t] = SumOver(f, t)
  OBVIOUS
<1> DEFINE Good == {s \in SUBSET t : Summing(f, S)[s] = Summing(f, t)[s]}
<1>0. IsFiniteSet(t) /\ \A x \in t : f[x] \in Int
  BY FS_Subset
<1>1. ASSUME NEW s \in SUBSET t, \A u \in SUBSET t : Cardinality(u) < Cardinality(s) => u \in Good
      PROVE  s \in Good
  <2>0. s \in SUBSET S
    OBVIOUS
  <2>1. CASE s = {}
    BY <1>0, <2>0, <2>1, SummingSteps
  <2>2. CASE s # {}
    <3>0. Chosen(s) \in s
      BY <2>2 DEF Chosen
    <3>1. /\ Summing(f, S)[s] = f[Chosen(s)] + Summing(f, S)[s \ {Chosen(s)}]
          /\ Summing(f, t)[s] = f[Chosen(s)] + Summing(f, t)[s \ {Chosen(s)}]
      BY <1>0, <2>0, <2>2, SummingSteps
    <3>2. s \ {Chosen(s)} \in SUBSET t /\ Cardinality(s \ {Chosen(s)}) < Cardinality(s)
      BY <1>0, <3>0, OneLess
    <3>3. s \ {Chosen(s)} \in Good
      BY <1>1, <3>2
    <3> QED BY <3>1, <3>3
  <2> QED BY <2>1, <2>2
<1>2. \A s \in SUBSET t : s \in Good
  <2> HIDE DEF Good
  <2> QED BY <1>0, <1>1, BySize
<1> QED BY <1>2 DEF SumOver

LEMMA SumFacts ==
  ASSUME NEW S, IsFiniteSet(S), NEW f, \A x \in S : f[x] \in Int
  PROVE  /\ SumOver(f, S) \in Int
         /\ S = {} => SumOver(f, S) = 0
         /\ S # {} => SumOver(f, S) = f[Chosen(S)] + SumOver(f, S \ {Chosen(S)})
<1> DEFINE T == S
<1>1. T \in SUBSET S /\ S \ {Chosen(S)} \in SUBSET S
  OBVIOUS
<1>2. Summing(f, S)[S] = SumOver(f, S) /\ Summing(f, S)[S \ {Chosen(S)}] = SumOver(f, S \ {Chosen(S)})
  BY <1>1, SummingIsSum
<1>3. Summing(f, S)[S] \in Int
  BY <1>1, SummingIsInt
<1>4. Summing(f, S)[T] = IF T = {} THEN 0 ELSE f[Chosen(T)] + Summing(f, S)[T \ {Chosen(T)}]
  <2> HIDE DEF T
  <2> QED BY <1>1, SummingSteps
<1> QED BY <1>2, <1>3, <1>4

(* Any element can be taken out.                                           *)
LEMMA SumTakesOut ==
  ASSUME NEW S, IsFiniteSet(S), NEW f, \A x \in S : f[x] \in Int
  PROVE  \A x \in S : SumOver(f, S) = f[x] + SumOver(f, S \ {x})
<1> DEFINE Good == {s \in SUBSET S : \A x \in s : SumOver(f, s) = f[x] + SumOver(f, s \ {x})}
<1>1. ASSUME NEW s \in SUBSET S, \A u \in SUBSET S : Cardinality(u) < Cardinality(s) => u \in Good
      PROVE  s \in Good
  <2> SUFFICES ASSUME NEW x \in s PROVE SumOver(f, s) = f[x] + SumOver(f, s \ {x})
    OBVIOUS
  <2> DEFINE p == Chosen(s)
  <2>1. IsFiniteSet(s) /\ s # {} /\ p \in s /\ \A y \in s : f[y] \in Int
    BY FS_Subset DEF Chosen
  <2>2. SumOver(f, s) = f[p] + SumOver(f, s \ {p})
    BY <2>1, SumFacts
  <2>3. CASE x = p
    BY <2>2, <2>3
  <2>4. CASE x # p
    <3>1. \A y \in s : s \ {y} \in SUBSET S /\ Cardinality(s \ {y}) < Cardinality(s)
      BY OneLess
    <3>2. s \ {p} \in Good /\ s \ {x} \in Good
      <4> HIDE DEF p, Good
      <4> QED BY <1>1, <2>1, <3>1
    <3>3. x \in s \ {p} /\ p \in s \ {x} /\ (s \ {p}) \ {x} = (s \ {x}) \ {p}
      BY <2>1, <2>4
    <3>4. /\ SumOver(f, s \ {p}) = f[x] + SumOver(f, (s \ {p}) \ {x})
          /\ SumOver(f, s \ {x}) = f[p] + SumOver(f, (s \ {p}) \ {x})
      BY <3>2, <3>3
    <3>5. SumOver(f, (s \ {p}) \ {x}) \in Int
      BY <2>1, FS_Subset, SumFacts
    <3>6. f[x] \in Int /\ f[p] \in Int
      BY <2>1
    <3> HIDE DEF p
    <3> QED BY <2>2, <3>4, <3>5, <3>6
  <2> QED BY <2>3, <2>4
<1>2. \A s \in SUBSET S : s \in Good
  <2> HIDE DEF Good
  <2> QED BY <1>1, BySize
<1> QED BY <1>2

THEOREM SumAdds ==
  ASSUME NEW S, IsFiniteSet(S), NEW f, \A x \in S : f[x] \in Int,
         NEW y, y \notin S, f[y] \in Int
  PROVE  SumOver(f, S \cup {y}) = SumOver(f, S) + f[y] /\ SumOver(f, S) \in Int
<1>1. IsFiniteSet(S \cup {y}) /\ (S \cup {y}) \ {y} = S
  BY FS_AddElement
<1>a. \A x \in S \cup {y} : f[x] \in Int
  OBVIOUS
<1>2. SumOver(f, S \cup {y}) = f[y] + SumOver(f, S)
  <2> DEFINE T == S \cup {y}
  <2>1. IsFiniteSet(T) /\ \A x \in T : f[x] \in Int
    BY <1>1, <1>a
  <2>2. y \in T
    OBVIOUS
  <2>3. T \ {y} = S
    BY <1>1
  <2> HIDE DEF T
  <2>4. SumOver(f, T) = f[y] + SumOver(f, T \ {y})
    BY <2>1, <2>2, SumTakesOut
  <2> QED BY <2>3, <2>4 DEF T
<1>3. SumOver(f, S) \in Int
  BY SumFacts
<1> QED BY <1>2, <1>3

(* A function that takes the elements out in any order gives the sum.      *)
THEOREM AnyOrder ==
  ASSUME NEW S, IsFiniteSet(S), NEW f, \A x \in S : f[x] \in Int, NEW h,
         \A s \in SUBSET S : IF s = {} THEN h[s] = 0
           ELSE \E x \in s : h[s \ {x}] \in Int => h[s] = f[x] + h[s \ {x}]
  PROVE  \A s \in SUBSET S : h[s] = SumOver(f, s)
<1> DEFINE Good == {s \in SUBSET S : h[s] = SumOver(f, s)}
<1>1. ASSUME NEW s \in SUBSET S, \A u \in SUBSET S : Cardinality(u) < Cardinality(s) => u \in Good
      PROVE  s \in Good
  <2>0. IsFiniteSet(s) /\ \A x \in s : f[x] \in Int
    BY FS_Subset
  <2>1. CASE s = {}
    BY <2>0, <2>1, SumFacts
  <2>2. CASE s # {}
    <3>1. PICK x \in s : h[s \ {x}] \in Int => h[s] = f[x] + h[s \ {x}]
      BY <2>2
    <3>2. /\ s \ {x} \in SUBSET S /\ Cardinality(s \ {x}) < Cardinality(s)
          /\ IsFiniteSet(s \ {x})
      BY OneLess
    <3>3. h[s \ {x}] = SumOver(f, s \ {x})
      BY <1>1, <3>2
    <3>4. SumOver(f, s \ {x}) \in Int
      BY <2>0, <3>2, SumFacts
    <3>5. SumOver(f, s) = f[x] + SumOver(f, s \ {x})
      BY <2>0, SumTakesOut
    <3> QED BY <3>1, <3>3, <3>4, <3>5
  <2> QED BY <2>1, <2>2
<1>2. \A s \in SUBSET S : s \in Good
  <2> HIDE DEF Good
  <2> QED BY <1>1, BySize
<1> QED BY <1>2

(* Equal terms, equal sums; nothing need be known of the terms.            *)
THEOREM SumOfEquals ==
  ASSUME NEW S, NEW f, NEW g, \A x \in S : f[x] = g[x]
  PROVE  SumOver(f, S) = SumOver(g, S)
<1>1. \A h : [s \in SUBSET S |-> IF s = {} THEN 0 ELSE f[Chosen(s)] + h[s \ {Chosen(s)}]]
           = [s \in SUBSET S |-> IF s = {} THEN 0 ELSE g[Chosen(s)] + h[s \ {Chosen(s)}]]
  BY DEF Chosen
<1> QED BY <1>1 DEF Summing, SumOver

(* Sums over two parts, and over the image of a set.                       *)
THEOREM SumUnion ==
  ASSUME NEW S, IsFiniteSet(S), NEW T, IsFiniteSet(T), S \cap T = {},
         NEW f, \A x \in S \cup T : f[x] \in Int
  PROVE  /\ SumOver(f, S \cup T) = SumOver(f, S) + SumOver(f, T)
         /\ SumOver(f, S) \in Int /\ SumOver(f, T) \in Int
<1> DEFINE Good == {s \in SUBSET S : SumOver(f, s \cup T) = SumOver(f, s) + SumOver(f, T)}
<1>0. SumOver(f, S) \in Int /\ SumOver(f, T) \in Int
  BY SumFacts
<1>1. ASSUME NEW s \in SUBSET S, \A u \in SUBSET S : Cardinality(u) < Cardinality(s) => u \in Good
      PROVE  s \in Good
  <2>1. IsFiniteSet(s) /\ \A x \in s : f[x] \in Int
    BY FS_Subset
  <2>2. CASE s = {}
    <3>1. s \cup T = T /\ SumOver(f, s) = 0
      BY <2>1, <2>2, SumFacts
    <3>2. SumOver(f, s \cup T) = SumOver(f, T)
      BY <3>1
    <3>3. SumOver(f, s \cup T) = SumOver(f, s) + SumOver(f, T)
      BY <3>1, <3>2, <1>0
    <3> QED BY <3>3
  <2>3. CASE s # {}
    <3>1. PICK x \in s : TRUE
      BY <2>3
    <3> DEFINE u == s \ {x}
    <3>2. u \in SUBSET S /\ Cardinality(u) < Cardinality(s) /\ IsFiniteSet(u)
      <4>1. /\ s \ {x} \in SUBSET S /\ IsFiniteSet(s \ {x}) /\ Cardinality(s) \in Nat
            /\ Cardinality(s \ {x}) = Cardinality(s) - 1
        BY OneLess
      <4> QED BY <4>1
    <3>3. SumOver(f, u \cup T) = SumOver(f, u) + SumOver(f, T)
      <4> HIDE DEF u
      <4> QED BY <1>1, <3>2
    <3>4. SumOver(f, s) = f[x] + SumOver(f, u)
      BY <2>1, SumTakesOut
    <3>5. SumOver(f, s \cup T) = f[x] + SumOver(f, u \cup T)
      <4> DEFINE V == s \cup T
      <4>1. IsFiniteSet(V) /\ (\A y \in V : f[y] \in Int) /\ x \in V /\ V \ {x} = u \cup T
        BY <2>1, FS_Union
      <4> HIDE DEF V, u
      <4>2. SumOver(f, V) = f[x] + SumOver(f, V \ {x})
        BY <4>1, SumTakesOut
      <4> QED BY <4>1, <4>2 DEF V
    <3>6. SumOver(f, u) \in Int /\ f[x] \in Int
      <4>1. \A y \in u : f[y] \in Int
        OBVIOUS
      <4> HIDE DEF u
      <4> QED BY <3>2, <4>1, SumFacts
    <3> HIDE DEF u
    <3> QED BY <1>0, <3>3, <3>4, <3>5, <3>6
  <2> QED BY <2>2, <2>3
<1>2. \A s \in SUBSET S : s \in Good
  <2> HIDE DEF Good
  <2> QED BY <1>1, BySize
<1> QED BY <1>0, <1>2

THEOREM SumImage ==
  ASSUME NEW S, IsFiniteSet(S), NEW g, \A x, y \in S : g[x] = g[y] => x = y,
         NEW f, \A x \in S : f[g[x]] \in Int
  PROVE  /\ SumOver(f, {g[x] : x \in S}) = SumOver([x \in S |-> f[g[x]]], S)
         /\ IsFiniteSet({g[x] : x \in S})
<1> DEFINE k == [x \in S |-> f[g[x]]]
           Image(s) == {g[x] : x \in s}
           Good == {s \in SUBSET S : /\ SumOver(f, Image(s)) = SumOver(k, s)
                                     /\ IsFiniteSet(Image(s))}
<1>0. \A x \in S : k[x] = f[g[x]] /\ k[x] \in Int
  OBVIOUS
<1> HIDE DEF k
<1>1. ASSUME NEW s \in SUBSET S, \A u \in SUBSET S : Cardinality(u) < Cardinality(s) => u \in Good
      PROVE  s \in Good
  <2>1. IsFiniteSet(s) /\ \A x \in s : k[x] \in Int
    BY <1>0, FS_Subset
  <2>2. CASE s = {}
    <3>1. Image(s) = {} /\ IsFiniteSet({})
      BY <2>2, FS_EmptySet
    <3>2. SumOver(f, {}) = 0 /\ SumOver(k, {}) = 0
      <4>1. \A h : \A x \in {} : h[x] \in Int
        OBVIOUS
      <4> QED BY <3>1, <4>1, SumFacts
    <3> QED BY <2>2, <3>1, <3>2
  <2>3. CASE s # {}
    <3>1. PICK x \in s : TRUE
      BY <2>3
    <3> DEFINE u == s \ {x}
    <3>2. u \in SUBSET S /\ Cardinality(u) < Cardinality(s) /\ IsFiniteSet(u)
      <4>1. /\ s \ {x} \in SUBSET S /\ IsFiniteSet(s \ {x}) /\ Cardinality(s) \in Nat
            /\ Cardinality(s \ {x}) = Cardinality(s) - 1
        BY OneLess
      <4> QED BY <4>1
    <3>3. SumOver(f, Image(u)) = SumOver(k, u) /\ IsFiniteSet(Image(u))
      <4>1. u \in Good
        <5> HIDE DEF u, Good
        <5> QED BY <1>1, <3>2
      <4> QED BY <4>1
    <3>4. SumOver(k, s) = k[x] + SumOver(k, u)
      BY <2>1, SumTakesOut
    <3>5. Image(s) = Image(u) \cup {g[x]} /\ g[x] \notin Image(u)
      OBVIOUS
    <3>6. f[g[x]] = k[x] /\ \A y \in Image(u) : f[y] \in Int
      BY <1>0
    <3>7. k[x] \in Int
      BY <1>0
    <3>8. SumOver(f, Image(u) \cup {g[x]}) = SumOver(f, Image(u)) + k[x] /\ SumOver(f, Image(u)) \in Int
      <4> DEFINE V == Image(u)
                 y == g[x]
      <4>1. IsFiniteSet(V) /\ (\A z \in V : f[z] \in Int) /\ y \notin V /\ f[y] \in Int /\ f[y] = k[x]
        BY <3>3, <3>5, <3>6, <3>7
      <4> HIDE DEF V, y
      <4>2. SumOver(f, V \cup {y}) = SumOver(f, V) + f[y] /\ SumOver(f, V) \in Int
        BY <4>1, SumAdds
      <4>3. SumOver(f, V \cup {y}) = SumOver(f, V) + k[x] /\ SumOver(f, V) \in Int
        BY <4>1, <4>2
      <4> QED BY <4>3 DEF V, y
    <3>9. IsFiniteSet(Image(s))
      <4> DEFINE V == Image(u)
      <4>1. IsFiniteSet(V) /\ Image(s) = V \cup {g[x]}
        BY <3>3, <3>5
      <4> HIDE DEF V, Image
      <4> QED BY <4>1, FS_AddElement
    <3>10. SumOver(f, Image(s)) = SumOver(k, s)
      <4> HIDE DEF Image, u
      <4> QED BY <3>3, <3>4, <3>5, <3>7, <3>8
    <3> QED BY <3>9, <3>10
  <2> QED BY <2>2, <2>3
<1>2. \A s \in SUBSET S : s \in Good
  <2> HIDE DEF Good
  <2> QED BY <1>1, BySize
<1>3. SumOver(f, {g[x] : x \in S}) = SumOver(k, S) /\ IsFiniteSet({g[x] : x \in S})
  BY <1>2
<1> QED BY <1>3 DEF k

(* The sum of differences, and of zeros.                                   *)
THEOREM SumOfDifferences ==
  ASSUME NEW S, IsFiniteSet(S), NEW f, NEW g, NEW d,
         \A x \in S : f[x] \in Int /\ g[x] \in Int /\ d[x] = f[x] - g[x]
  PROVE  /\ SumOver(d, S) = SumOver(f, S) - SumOver(g, S)
         /\ SumOver(f, S) \in Int /\ SumOver(g, S) \in Int
<1> DEFINE Good == {s \in SUBSET S : SumOver(d, s) = SumOver(f, s) - SumOver(g, s)}
<1>0. \A x \in S : d[x] \in Int
  OBVIOUS
<1>1. ASSUME NEW s \in SUBSET S, \A u \in SUBSET S : Cardinality(u) < Cardinality(s) => u \in Good
      PROVE  s \in Good
  <2>1. IsFiniteSet(s) /\ \A x \in s : f[x] \in Int /\ g[x] \in Int /\ d[x] \in Int
    BY <1>0, FS_Subset
  <2>2. CASE s = {}
    <3>1. SumOver(f, s) = 0 /\ SumOver(g, s) = 0 /\ SumOver(d, s) = 0
      BY <2>1, <2>2, SumFacts
    <3> QED BY <3>1
  <2>3. CASE s # {}
    <3>1. PICK x \in s : TRUE
      BY <2>3
    <3> DEFINE u == s \ {x}
    <3>2. u \in SUBSET S /\ Cardinality(u) < Cardinality(s) /\ IsFiniteSet(u)
      <4>1. /\ s \ {x} \in SUBSET S /\ IsFiniteSet(s \ {x}) /\ Cardinality(s) \in Nat
            /\ Cardinality(s \ {x}) = Cardinality(s) - 1
        BY OneLess
      <4> QED BY <4>1
    <3>3. SumOver(d, u) = SumOver(f, u) - SumOver(g, u)
      <4> HIDE DEF u
      <4> QED BY <1>1, <3>2
    <3>4. /\ SumOver(f, s) = f[x] + SumOver(f, u) /\ SumOver(g, s) = g[x] + SumOver(g, u)
          /\ SumOver(d, s) = d[x] + SumOver(d, u)
      BY <2>1, SumTakesOut
    <3>5. SumOver(f, u) \in Int /\ SumOver(g, u) \in Int
      <4>1. \A y \in u : f[y] \in Int /\ g[y] \in Int
        OBVIOUS
      <4> HIDE DEF u
      <4> QED BY <3>2, <4>1, SumFacts
    <3>6. f[x] \in Int /\ g[x] \in Int /\ d[x] = f[x] - g[x]
      OBVIOUS
    <3> HIDE DEF u
    <3> QED BY <3>3, <3>4, <3>5, <3>6
  <2> QED BY <2>2, <2>3
<1>2. \A s \in SUBSET S : s \in Good
  <2> HIDE DEF Good
  <2> QED BY <1>1, BySize
<1>3. SumOver(f, S) \in Int /\ SumOver(g, S) \in Int
  BY SumFacts
<1> QED BY <1>2, <1>3

THEOREM SumOfZeros ==
  ASSUME NEW S, IsFiniteSet(S), NEW f, \A x \in S : f[x] = 0
  PROVE  SumOver(f, S) = 0
<1> DEFINE g == [x \in S |-> 0]
<1>1. \A x \in S : g[x] \in Int /\ f[x] = g[x] - g[x]
  OBVIOUS
<1> HIDE DEF g
<1>2. SumOver(f, S) = SumOver(g, S) - SumOver(g, S) /\ SumOver(g, S) \in Int
  BY <1>1, SumOfDifferences
<1> QED BY <1>2

-----------------------------------------------------------------------------
(* Sums of sequences.                                                      *)

Total(f) == SumOver(f, 1 .. Len(f))

THEOREM TotalOfNone == Total(<<>>) = 0
<1>1. 1 .. Len(<<>>) = {} /\ IsFiniteSet({}) /\ \A x \in {} : <<>>[x] = 0
  BY FS_EmptySet
<1>2. SumOver(<<>>, {}) = 0
  BY <1>1, SumOfZeros
<1> QED BY <1>1, <1>2 DEF Total

THEOREM TotalAdds ==
  ASSUME NEW f \in Seq(Int), NEW g \in Seq(Int)
  PROVE  /\ Total(f \o g) = Total(f) + Total(g)
         /\ Total(f) \in Int /\ Total(g) \in Int
<1> DEFINE n == Len(f)
           m == Len(g)
           h == f \o g
           shift == [j \in 1 .. m |-> n + j]
           A == 1 .. n
           B == {shift[j] : j \in 1 .. m}
<1>1. /\ n \in Nat /\ m \in Nat /\ h \in Seq(Int) /\ Len(h) = n + m
      /\ (\A i \in A : h[i] = f[i] /\ f[i] \in Int) /\ (\A j \in 1 .. m : h[n + j] = g[j] /\ g[j] \in Int)
  OBVIOUS
<1> HIDE DEF n, m, h
<1>2. IsFiniteSet(A) /\ IsFiniteSet(1 .. m)
  <2>1. 1 \in Int /\ n \in Int /\ m \in Int
    BY <1>1
  <2>2. \A x \in Int : IsFiniteSet(1 .. x)
    BY FS_Interval
  <2> QED BY <2>1, <2>2
<1>3. 1 .. (n + m) = A \cup B /\ A \cap B = {}
  <2>1. \A i \in 1 .. (n + m) : i \in A \/ (i - n \in 1 .. m /\ i = n + (i - n))
    BY <1>1
  <2>2. \A j \in 1 .. m : shift[j] = n + j /\ shift[j] \in 1 .. (n + m) /\ shift[j] \notin A
    BY <1>1
  <2>3. A \subseteq 1 .. (n + m)
    BY <1>1
  <2> QED BY <2>1, <2>2, <2>3
<1>4. SumOver(h, A) = Total(f) /\ Total(f) \in Int
  <2>1. SumOver(h, A) = SumOver(f, A)
    BY <1>1, SumOfEquals
  <2>2. SumOver(f, A) \in Int
    BY <1>1, <1>2, SumFacts
  <2> QED BY <2>1, <2>2 DEF Total, n
<1>5. SumOver(h, B) = Total(g) /\ Total(g) \in Int /\ IsFiniteSet(B)
  <2>1. \A j \in 1 .. m : shift[j] = n + j /\ h[shift[j]] = g[j] /\ h[shift[j]] \in Int
    BY <1>1
  <2>2. \A i, j \in 1 .. m : shift[i] = shift[j] => i = j
    BY <1>1
  <2> HIDE DEF shift
  <2>3. /\ SumOver(h, {shift[j] : j \in 1 .. m}) = SumOver([j \in 1 .. m |-> h[shift[j]]], 1 .. m)
        /\ IsFiniteSet({shift[j] : j \in 1 .. m})
    <3> DEFINE J == 1 .. m
    <3>1. IsFiniteSet(J) /\ (\A i, j \in J : shift[i] = shift[j] => i = j)
          /\ \A j \in J : h[shift[j]] \in Int
      BY <1>2, <2>1, <2>2
    <3> HIDE DEF J
    <3>2. /\ SumOver(h, {shift[j] : j \in J}) = SumOver([j \in J |-> h[shift[j]]], J)
          /\ IsFiniteSet({shift[j] : j \in J})
      BY <3>1, SumImage
    <3> QED BY <3>2 DEF J
  <2>4. SumOver([j \in 1 .. m |-> h[shift[j]]], 1 .. m) = SumOver(g, 1 .. m)
    <3> DEFINE k == [j \in 1 .. m |-> h[shift[j]]]
    <3>1. \A j \in 1 .. m : k[j] = g[j]
      BY <2>1
    <3> HIDE DEF k
    <3>2. SumOver(k, 1 .. m) = SumOver(g, 1 .. m)
      BY <3>1, SumOfEquals
    <3> QED BY <3>2 DEF k
  <2>5. SumOver(g, 1 .. m) \in Int
    BY <1>1, <1>2, SumFacts
  <2> QED BY <2>3, <2>4, <2>5 DEF Total, m
<1>6. \A i \in A \cup B : h[i] \in Int
  BY <1>1
<1>7. SumOver(h, A \cup B) = SumOver(h, A) + SumOver(h, B)
  <2> HIDE DEF A, B
  <2> QED BY <1>2, <1>3, <1>5, <1>6, SumUnion
<1>8. Total(h) = SumOver(h, A \cup B)
  BY <1>1, <1>3 DEF Total
<1> QED BY <1>4, <1>5, <1>7, <1>8 DEF h

THEOREM TotalOfOne ==
  ASSUME NEW x \in Int
  PROVE  Total(<<x>>) = x
<1>1. 1 .. Len(<<x>>) = {} \cup {1} /\ <<x>>[1] = x /\ IsFiniteSet({})
  BY FS_EmptySet
<1>2. SumOver(<<x>>, {}) = 0
  BY <1>1, SumOfZeros
<1>3. SumOver(<<x>>, {} \cup {1}) = SumOver(<<x>>, {}) + <<x>>[1]
  BY <1>1, SumAdds
<1> QED BY <1>1, <1>2, <1>3 DEF Total

(* Zeros can be left out.                                                  *)
THEOREM SumWithoutZeros ==
  ASSUME NEW S, IsFiniteSet(S), NEW f, \A x \in S : f[x] \in Int,
         NEW T, T \subseteq S, \A x \in S \ T : f[x] = 0
  PROVE  SumOver(f, S) = SumOver(f, T)
<1> DEFINE R == S \ T
<1>1. /\ IsFiniteSet(T) /\ IsFiniteSet(R) /\ T \cap R = {} /\ T \cup R = S
      /\ (\A x \in R : f[x] = 0) /\ (\A x \in T \cup R : f[x] \in Int)
  BY FS_Subset
<1> HIDE DEF R
<1>2. SumOver(f, T \cup R) = SumOver(f, T) + SumOver(f, R) /\ SumOver(f, T) \in Int
  BY <1>1, SumUnion
<1>3. SumOver(f, R) = 0
  BY <1>1, SumOfZeros
<1>4. SumOver(f, S) = SumOver(f, T) + 0
  BY <1>1, <1>2, <1>3
<1> QED BY <1>2, <1>4
=============================================================================
