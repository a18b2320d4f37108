---------------------------- MODULE FoldTheorems ----------------------------
(***************************************************************************)
(* What the proofs need to know of data that is built step by step:        *)
(* induction over the natural numbers and over finite sets, with the       *)
(* property as a set, and the folds of the community modules.              *)
(***************************************************************************)
EXTENDS Integers, Sequences, FiniteSets, FiniteSetsExt, SequencesExt,
        FiniteSetTheorems, WellFoundedInduction, TLAPS

(* A set of natural numbers that is not empty has a least element. *)
LEMMA LeastElement ==
    ASSUME NEW T, T \subseteq Nat, T # {}
    PROVE  \E x \in T : \A y \in T : x <= y
<1>1. IsWellFoundedOn({ss \in Nat \X Nat : ss[1] < ss[2]}, Nat)
  BY NatLessThanWellFounded DEF OpToRel
<1>2. PICK x \in T : \A y \in T : ~(<<y, x>> \in {ss \in Nat \X Nat : ss[1] < ss[2]})
  BY <1>1, WFMin
<1>3. ASSUME NEW y \in T, y < x PROVE FALSE
  <2>1. <<y, x>> \in Nat \X Nat
    OBVIOUS
  <2>2. <<y, x>>[1] = y /\ <<y, x>>[2] = x
    OBVIOUS
  <2>3. <<y, x>> \in {ss \in Nat \X Nat : ss[1] < ss[2]}
    BY <1>3, <2>1, <2>2
  <2> QED BY <1>2, <2>3
<1>4. \A y \in T : x \in Int /\ y \in Int
  OBVIOUS
<1> QED BY <1>3, <1>4

(* Induction: a set that holds 0, and with a number the next, holds them all. *)
LEMMA NatSetInduction ==
    ASSUME NEW T, T \subseteq Nat, 0 \in T, \A n \in T : n + 1 \in T
    PROVE  T = Nat
<1> SUFFICES ASSUME Nat \ T # {} PROVE FALSE
  OBVIOUS
<1>1. PICK x \in Nat \ T : \A y \in Nat \ T : x <= y
  BY LeastElement
<1>2. x # 0
  OBVIOUS
<1>3. x - 1 \in T
  BY <1>1, <1>2
<1> QED BY <1>3

(* Induction over a finite set: a property of sets that holds of the empty
   set, and of a subset with one more element, holds of the set. *)
LEMMA FiniteSetInduction ==
    ASSUME NEW S, IsFiniteSet(S), NEW P, {} \in P,
           \A T \in SUBSET S, x \in S : T \in P /\ x \notin T => T \cup {x} \in P
    PROVE  S \in P
<1> DEFINE N == {n \in Nat : \A T \in SUBSET S : Cardinality(T) = n => T \in P}
<1>1. \A T \in SUBSET S : IsFiniteSet(T) /\ Cardinality(T) \in Nat
  BY FS_Subset, FS_CardinalityType
<1>2. 0 \in N
  BY <1>1, FS_EmptySet
<1>3. ASSUME NEW n \in N PROVE n + 1 \in N
  <2> SUFFICES ASSUME NEW T \in SUBSET S, Cardinality(T) = n + 1 PROVE T \in P
    OBVIOUS
  <2>1. T # {}
    BY FS_EmptySet
  <2>2. PICK x \in T : TRUE
    BY <2>1
  <2>3. Cardinality(T \ {x}) = n
    BY <1>1, <2>2, FS_RemoveElement
  <2>4. T \ {x} \in P
    BY <2>3
  <2>5. T = (T \ {x}) \cup {x} /\ x \in S /\ x \notin T \ {x} /\ T \ {x} \in SUBSET S
    BY <2>2
  <2> QED BY <2>4, <2>5
<1>4. N = Nat
  BY <1>2, <1>3, NatSetInduction
<1>5. Cardinality(S) \in N
  BY <1>1, <1>4
<1> QED BY <1>5

(* A finite set of integers that is not empty has a greatest element, Max. *)
LEMMA MaxElement ==
    ASSUME NEW T, T \subseteq Int, T # {}, IsFiniteSet(T)
    PROVE  Max(T) \in T /\ \A y \in T : y <= Max(T)
<1> DEFINE P == {R \in SUBSET T : R = {} \/ \E x \in R : \A y \in R : x >= y}
<1>1. {} \in P
  OBVIOUS
<1>2. ASSUME NEW R \in SUBSET T, NEW z \in T, R \in P PROVE R \cup {z} \in P
  <2>1. CASE R = {}
    BY <2>1
  <2>2. CASE R # {}
    <3>1. PICK x \in R : \A y \in R : x >= y
      BY <1>2, <2>2
    <3>2. CASE x >= z
      BY <3>1, <3>2
    <3>3. CASE ~(x >= z)
      <4>1. z >= x /\ z \in Int /\ x \in Int /\ \A y \in R : y \in Int
        BY <3>3
      <4>2. \A y \in R \cup {z} : z >= y
        BY <3>1, <4>1
      <4> QED BY <4>2
    <3> QED BY <3>2, <3>3
  <2> QED BY <2>1, <2>2
<1>3. T \in P
  <2> HIDE DEF P
  <2> QED BY <1>1, <1>2, FiniteSetInduction
<1>4. \E x \in T : \A y \in T : x >= y
  BY <1>3
<1>5. Max(T) \in T /\ \A y \in T : Max(T) >= y
  BY <1>4 DEF Max
<1>6. \A y \in T : y \in Int /\ Max(T) \in Int
  BY <1>5
<1> QED BY <1>5, <1>6

(* The function that a fold over a finite set defines exists: every value is
   made from that of the set without the element that is chosen first. *)
FoldEquation(it, S, base, c, G) ==
    it = [s \in SUBSET S |-> IF s = {} THEN base ELSE G[c[s]][it[s \ {c[s]}]]]

Chooses(c, S) == \A s \in SUBSET S : s # {} => c[s] \in s

(* A solution is built up from the small subsets to the large. *)
LEMMA FoldDefined ==
    ASSUME NEW S, IsFiniteSet(S), NEW V, NEW base \in V, NEW c, Chooses(c, S), NEW G \in [S -> [V -> V]]
    PROVE  \E it \in [SUBSET S -> V] : FoldEquation(it, S, base, c, G)
<1> DEFINE Upto(n) == {s \in SUBSET S : Cardinality(s) <= n}
           Val(it, s) == IF s = {} THEN base ELSE G[c[s]][it[s \ {c[s]}]]
           N == {n \in Nat : \E it \in [Upto(n) -> V] : \A s \in Upto(n) : it[s] = Val(it, s)}
<1>1. \A s \in SUBSET S : IsFiniteSet(s) /\ Cardinality(s) \in Nat
  BY FS_Subset, FS_CardinalityType
<1>2. \A n \in Nat : \A s \in Upto(n + 1) : s # {} => s \ {c[s]} \in Upto(n) /\ c[s] \in S
  <2> SUFFICES ASSUME NEW n \in Nat, NEW s \in Upto(n + 1), s # {}
               PROVE  s \ {c[s]} \in Upto(n) /\ c[s] \in S
    OBVIOUS
  <2>1. c[s] \in s
    BY DEF Chooses
  <2>2. \A y \in s : Cardinality(s \ {y}) = Cardinality(s) - 1
    BY <1>1, FS_RemoveElement
  <2>3. Cardinality(s \ {c[s]}) = Cardinality(s) - 1
    BY <2>1, <2>2
  <2> QED BY <1>1, <2>1, <2>3
<1>3. 0 \in N
  <2>1. \A s \in Upto(0) : s = {}
    BY <1>1, FS_EmptySet
  <2>2. [s \in Upto(0) |-> base] \in [Upto(0) -> V]
    OBVIOUS
  <2> HIDE DEF Upto
  <2>3. \A s \in Upto(0) : [r \in Upto(0) |-> base][s] = Val([r \in Upto(0) |-> base], s)
    BY <2>1
  <2> QED BY <2>2, <2>3
<1>4. ASSUME NEW n \in N PROVE n + 1 \in N
  <2>1. PICK it \in [Upto(n) -> V] : \A s \in Upto(n) : it[s] = Val(it, s)
    OBVIOUS
  <2> DEFINE jt == [s \in Upto(n + 1) |-> Val(it, s)]
  <2>2. Upto(n) \subseteq Upto(n + 1)
    BY <1>1
  <2>3. n \in Nat
    OBVIOUS
  <2> HIDE DEF Upto, N
  <2>4. jt \in [Upto(n + 1) -> V]
    BY <1>2, <2>1, <2>3
  <2>5. \A s \in Upto(n) : jt[s] = it[s]
    BY <2>1, <2>2
  <2>6. \A s \in Upto(n + 1) : jt[s] = Val(jt, s)
    <3> SUFFICES ASSUME NEW s \in Upto(n + 1) PROVE jt[s] = Val(jt, s)
      OBVIOUS
    <3>1. CASE s = {}
      BY <3>1
    <3>2. CASE s # {}
      <4>1. s \ {c[s]} \in Upto(n)
        BY <1>2, <2>3, <3>2
      <4>2. jt[s \ {c[s]}] = it[s \ {c[s]}]
        BY <2>5, <4>1
      <4>3. jt[s] = Val(it, s)
        OBVIOUS
      <4> QED BY <4>2, <4>3
    <3> QED BY <3>1, <3>2
  <2>7. \E kt \in [Upto(n + 1) -> V] : \A s \in Upto(n + 1) : kt[s] = Val(kt, s)
    <3> HIDE DEF jt, Val
    <3> QED BY <2>4, <2>6
  <2>8. n + 1 \in Nat
    BY <2>3
  <2> HIDE DEF jt, Val
  <2> QED BY <2>7, <2>8 DEF N
<1>5. Cardinality(S) \in N
  <2> HIDE DEF N
  <2>1. N = Nat
    <3>1. N \subseteq Nat
      BY DEF N
    <3> QED BY <1>3, <1>4, <3>1, NatSetInduction
  <2> QED BY <1>1, <2>1
<1>6. Upto(Cardinality(S)) = SUBSET S
  BY <1>1, FS_Subset
<1>7. PICK it \in [SUBSET S -> V] : \A s \in SUBSET S : it[s] = Val(it, s)
  <2>1. \E it \in [Upto(Cardinality(S)) -> V] : \A s \in Upto(Cardinality(S)) : it[s] = Val(it, s)
    BY <1>5
  <2> HIDE DEF Upto, Val
  <2> QED BY <1>6, <2>1
<1>8. FoldEquation(it, S, base, c, G)
  <2>1. it = [s \in SUBSET S |-> it[s]]
    OBVIOUS
  <2>2. [s \in SUBSET S |-> it[s]] = [s \in SUBSET S |-> Val(it, s)]
    BY <1>7
  <2> QED BY <2>1, <2>2 DEF FoldEquation
<1> QED BY <1>8
-----------------------------------------------------------------------------
(* The weight of the members of a committee at the positions S, as
   MapThenSumSet adds it up, and the equation its fold satisfies. *)
WeightAt(c, S) == MapThenSumSet(LAMBDA i : c[i].weight, S)

WeightEquation(it, c, S) ==
    it = [s \in SUBSET S |-> IF s = {} THEN 0
                             ELSE c[CHOOSE x \in s : TRUE].weight + it[s \ {CHOOSE x \in s : TRUE}]]

(* The weight of the positions S is the value of its fold. *)
LEMMA WeightAtFold ==
    ASSUME NEW c, NEW S
    PROVE  WeightAt(c, S) = (CHOOSE it : WeightEquation(it, c, S))[S]
  BY DEF WeightAt, MapThenSumSet, MapThenFoldSet, WeightEquation

(* Two folds over sets of positions agree where both are defined. *)
LEMMA WeightFoldsAgree ==
    ASSUME NEW c, NEW S, NEW U, NEW f, NEW g, IsFiniteSet(S),
           WeightEquation(f, c, S), WeightEquation(g, c, U)
    PROVE  \A s \in SUBSET (S \cap U) : f[s] = g[s]
<1> DEFINE N == {n \in Nat : \A s \in SUBSET (S \cap U) : Cardinality(s) = n => f[s] = g[s]}
<1>1. \A s \in SUBSET (S \cap U) : IsFiniteSet(s) /\ Cardinality(s) \in Nat
  BY FS_Subset, FS_CardinalityType
<1>2. \A s \in SUBSET (S \cap U) :
        /\ f[s] = IF s = {} THEN 0 ELSE c[CHOOSE x \in s : TRUE].weight + f[s \ {CHOOSE x \in s : TRUE}]
        /\ g[s] = IF s = {} THEN 0 ELSE c[CHOOSE x \in s : TRUE].weight + g[s \ {CHOOSE x \in s : TRUE}]
  BY DEF WeightEquation
<1>3. 0 \in N
  BY <1>1, <1>2, FS_EmptySet
<1>4. ASSUME NEW n \in N PROVE n + 1 \in N
  <2> SUFFICES ASSUME NEW s \in SUBSET (S \cap U), Cardinality(s) = n + 1 PROVE f[s] = g[s]
    OBVIOUS
  <2> DEFINE x == CHOOSE x \in s : TRUE
  <2>1. s # {}
    BY FS_EmptySet
  <2>2. x \in s
    BY <2>1
  <2>3. Cardinality(s \ {x}) = n
    <3> HIDE DEF x
    <3>1. Cardinality(s \ {x}) = Cardinality(s) - 1
      BY <1>1, <2>2, FS_RemoveElement
    <3> QED BY <3>1
  <2>4. f[s \ {x}] = g[s \ {x}]
    BY <2>3
  <2> QED BY <1>2, <2>1, <2>4
<1>5. N = Nat
  BY <1>3, <1>4, NatSetInduction
<1> QED BY <1>1, <1>5

(* The fold exists, with natural numbers as values. *)
LEMMA WeightFoldDefined ==
    ASSUME NEW c, NEW S, IsFiniteSet(S), \A i \in S : c[i].weight \in Nat
    PROVE  \E it \in [SUBSET S -> Nat] : WeightEquation(it, c, S)
<1> DEFINE C == [s \in SUBSET S |-> CHOOSE x \in s : TRUE]
           G == [i \in S |-> [v \in Nat |-> c[i].weight + v]]
<1>1. G \in [S -> [Nat -> Nat]]
  OBVIOUS
<1>2. Chooses(C, S)
  BY DEF Chooses
<1>3. PICK it \in [SUBSET S -> Nat] : FoldEquation(it, S, 0, C, G)
  <2>1. 0 \in Nat
    OBVIOUS
  <2> HIDE DEF C, G
  <2> QED BY <1>1, <1>2, <2>1, FoldDefined
<1>4. \A s \in SUBSET S :
        it[s] = IF s = {} THEN 0 ELSE c[CHOOSE x \in s : TRUE].weight + it[s \ {CHOOSE x \in s : TRUE}]
  <2> SUFFICES ASSUME NEW s \in SUBSET S
               PROVE  it[s] = IF s = {} THEN 0
                              ELSE c[CHOOSE x \in s : TRUE].weight + it[s \ {CHOOSE x \in s : TRUE}]
    OBVIOUS
  <2>1. it[s] = IF s = {} THEN 0 ELSE G[C[s]][it[s \ {C[s]}]]
    <3> HIDE DEF C, G
    <3> QED BY <1>3 DEF FoldEquation
  <2>2. CASE s = {}
    BY <2>1, <2>2
  <2>3. CASE s # {}
    <3>1. C[s] \in S /\ C[s] = CHOOSE x \in s : TRUE
      BY <1>2, <2>3 DEF Chooses
    <3>2. it[s \ {C[s]}] \in Nat
      OBVIOUS
    <3>3. G[C[s]][it[s \ {C[s]}]] = c[C[s]].weight + it[s \ {C[s]}]
      <4> HIDE DEF C
      <4> QED BY <3>1, <3>2
    <3> QED BY <2>1, <2>3, <3>1, <3>3
  <2> QED BY <2>2, <2>3
<1>5. it = [s \in SUBSET S |-> it[s]]
  OBVIOUS
<1>6. WeightEquation(it, c, S)
  BY <1>4, <1>5 DEF WeightEquation
<1> QED BY <1>6

(* The weight of a set of positions is a natural number, 0 for the empty one,
   and that of a set is that of one chosen position and of the others. *)
LEMMA WeightAtChosen ==
    ASSUME NEW c, NEW S, IsFiniteSet(S), \A i \in S : c[i].weight \in Nat
    PROVE  /\ WeightAt(c, S) \in Nat
           /\ S = {} => WeightAt(c, S) = 0
           /\ S # {} => \E x \in S : WeightAt(c, S) = c[x].weight + WeightAt(c, S \ {x})
<1> DEFINE F(T) == CHOOSE it : WeightEquation(it, c, T)
<1>1. \A T \in SUBSET S : WeightEquation(F(T), c, T)
  <2> SUFFICES ASSUME NEW T \in SUBSET S PROVE WeightEquation(F(T), c, T)
    OBVIOUS
  <2>1. IsFiniteSet(T)
    BY FS_Subset
  <2>2. \E it \in [SUBSET T -> Nat] : WeightEquation(it, c, T)
    BY <2>1, WeightFoldDefined
  <2> QED BY <2>2
<1>2. PICK it \in [SUBSET S -> Nat] : WeightEquation(it, c, S)
  BY WeightFoldDefined
<1>3. \A T \in SUBSET S : WeightAt(c, T) = F(T)[T]
  BY WeightAtFold
<1> HIDE DEF F
<1>4. \A T \in SUBSET S : WeightAt(c, T) = it[T]
  <2> SUFFICES ASSUME NEW T \in SUBSET S PROVE F(T)[T] = it[T]
    BY <1>3
  <2>1. T \in SUBSET (S \cap T)
    OBVIOUS
  <2>2. \A s \in SUBSET (S \cap T) : it[s] = F(T)[s]
    BY <1>1, <1>2, WeightFoldsAgree
  <2> QED BY <2>1, <2>2
<1>5. it[S] = IF S = {} THEN 0 ELSE c[CHOOSE x \in S : TRUE].weight + it[S \ {CHOOSE x \in S : TRUE}]
  BY <1>2 DEF WeightEquation
<1>6. ASSUME S # {} PROVE \E x \in S : WeightAt(c, S) = c[x].weight + WeightAt(c, S \ {x})
  <2>1. (CHOOSE x \in S : TRUE) \in S
    BY <1>6
  <2> QED BY <1>4, <1>5, <1>6, <2>1
<1> QED BY <1>4, <1>5, <1>6

(* It does not matter which position is taken out. *)
LEMMA WeightAtRemove ==
    ASSUME NEW c, NEW S, IsFiniteSet(S), \A i \in S : c[i].weight \in Nat
    PROVE  \A x \in S : WeightAt(c, S) = c[x].weight + WeightAt(c, S \ {x})
<1> DEFINE N == {n \in Nat : \A s \in SUBSET S : Cardinality(s) = n =>
                    \A x \in s : WeightAt(c, s) = c[x].weight + WeightAt(c, s \ {x})}
<1>1. \A s \in SUBSET S : IsFiniteSet(s) /\ Cardinality(s) \in Nat
  BY FS_Subset, FS_CardinalityType
<1>2. 0 \in N
  BY <1>1, FS_EmptySet
<1>3. ASSUME NEW n \in N PROVE n + 1 \in N
  <2> SUFFICES ASSUME NEW s \in SUBSET S, Cardinality(s) = n + 1, NEW x \in s
               PROVE  WeightAt(c, s) = c[x].weight + WeightAt(c, s \ {x})
    OBVIOUS
  <2>1. PICK y \in s : WeightAt(c, s) = c[y].weight + WeightAt(c, s \ {y})
    BY <1>1, WeightAtChosen
  <2>2. CASE x = y
    BY <2>1, <2>2
  <2>3. CASE x # y
    <3> DEFINE r == (s \ {x}) \ {y}
    <3>1. r = (s \ {y}) \ {x} /\ x \in s \ {y} /\ y \in s \ {x}
      BY <2>3
    <3>2. Cardinality(s \ {x}) = n /\ Cardinality(s \ {y}) = n
      <4>1. Cardinality(s \ {x}) = Cardinality(s) - 1 /\ Cardinality(s \ {y}) = Cardinality(s) - 1
        BY <1>1, FS_RemoveElement
      <4> QED BY <4>1
    <3>3. s \ {x} \in SUBSET S /\ s \ {y} \in SUBSET S
      OBVIOUS
    <3>4. WeightAt(c, s \ {y}) = c[x].weight + WeightAt(c, r)
      BY <3>1, <3>2, <3>3
    <3>5. WeightAt(c, s \ {x}) = c[y].weight + WeightAt(c, r)
      BY <3>1, <3>2, <3>3
    <3>6. c[x].weight \in Nat /\ c[y].weight \in Nat /\ WeightAt(c, r) \in Nat
      <4>1. r \in SUBSET S
        OBVIOUS
      <4> QED BY <1>1, <4>1, WeightAtChosen
    <3> HIDE DEF r
    <3> QED BY <2>1, <3>4, <3>5, <3>6
  <2> QED BY <2>2, <2>3
<1>4. N = Nat
  BY <1>2, <1>3, NatSetInduction
<1> QED BY <1>1, <1>4

(* Nor which one is put in. *)
LEMMA WeightAtAdd ==
    ASSUME NEW c, NEW S, NEW x, IsFiniteSet(S), x \notin S, \A i \in S \cup {x} : c[i].weight \in Nat
    PROVE  WeightAt(c, S \cup {x}) = WeightAt(c, S) + c[x].weight
<1>1. IsFiniteSet(S \cup {x}) /\ x \in S \cup {x} /\ (S \cup {x}) \ {x} = S
  BY FS_AddElement
<1>2. WeightAt(c, S \cup {x}) = c[x].weight + WeightAt(c, S)
  BY <1>1, WeightAtRemove
<1>3. WeightAt(c, S) \in Nat /\ c[x].weight \in Nat
  BY WeightAtChosen
<1> QED BY <1>2, <1>3

(* More positions have no less weight. *)
LEMMA WeightAtMonotone ==
    ASSUME NEW c, NEW S, IsFiniteSet(S), \A i \in S : c[i].weight \in Nat, NEW T \in SUBSET S
    PROVE  WeightAt(c, T) <= WeightAt(c, S)
<1> DEFINE P == {R \in SUBSET (S \ T) : WeightAt(c, T) <= WeightAt(c, T \cup R)}
<1>1. \A R \in SUBSET S : IsFiniteSet(R) /\ WeightAt(c, R) \in Nat
  BY FS_Subset, WeightAtChosen
<1>2. {} \in P
  <2>1. T \cup {} = T
    OBVIOUS
  <2> QED BY <1>1, <2>1
<1>3. ASSUME NEW R \in SUBSET (S \ T), NEW x \in S \ T, R \in P, x \notin R
      PROVE  R \cup {x} \in P
  <2>1. T \cup R \in SUBSET S /\ x \notin T \cup R /\ T \cup (R \cup {x}) = (T \cup R) \cup {x}
    BY <1>3
  <2>2. WeightAt(c, (T \cup R) \cup {x}) = WeightAt(c, T \cup R) + c[x].weight
    BY <1>1, <2>1, WeightAtAdd
  <2>3. WeightAt(c, T) <= WeightAt(c, T \cup R)
    BY <1>3
  <2>4. WeightAt(c, T) \in Nat /\ WeightAt(c, T \cup R) \in Nat /\ c[x].weight \in Nat
    BY <1>1, <2>1
  <2>5. WeightAt(c, T) <= WeightAt(c, (T \cup R) \cup {x})
    BY <2>2, <2>3, <2>4
  <2>6. WeightAt(c, T) <= WeightAt(c, T \cup (R \cup {x}))
    BY <2>1, <2>5
  <2>7. R \cup {x} \in SUBSET (S \ T)
    OBVIOUS
  <2> QED BY <2>6, <2>7
<1>4. IsFiniteSet(S \ T)
  BY FS_Subset
<1>5. S \ T \in P
  <2> HIDE DEF P
  <2> QED BY <1>2, <1>3, <1>4, FiniteSetInduction
<1>6. T \cup (S \ T) = S
  OBVIOUS
<1> QED BY <1>5, <1>6
=============================================================================
