---------------------------- MODULE LedgerProofs ----------------------------
(***************************************************************************)
(* Facts about the operators of Ledger, for ledgers of every size: what    *)
(* sorting, filtering and the burn loop keep of the grants in force, and   *)
(* when two walks over ledgers that differ hold the same grants.           *)
(*                                                                         *)
(* They need induction, over the turns of a loop or the elements summed    *)
(* up.  It takes the form of the least counterexample: a set of naturals,  *)
(* or of parts of a finite set, has a least element if it is not empty.    *)
(***************************************************************************)
EXTENDS Ledger, FiniteSetTheorems, FunctionTheorems, SequenceTheorems,
        WellFoundedInduction, TLAPS

LEMMA LeastNat ==
  ASSUME NEW S \in SUBSET Nat, S # {}
  PROVE  \E n \in S : \A m \in S : n <= m
<1> DEFINE R == {p \in Nat \X Nat : p[1] < p[2]}
<1>1. IsWellFoundedOn(R, Nat)
  BY NatLessThanWellFounded DEF OpToRel, IsWellFoundedOn
<1>2. PICK n \in S : \A m \in S : <<m, n>> \notin R
  BY <1>1, WFMin
<1>3. ASSUME NEW m \in S PROVE n <= m
  <2>1. m \in Nat /\ n \in Nat /\ (<<m, n>> \in R <=> m < n)
    OBVIOUS
  <2> HIDE DEF R
  <2>2. QED
    BY <1>2, <2>1
<1>4. QED
  BY <1>3

LEMMA LeastPart ==
  ASSUME NEW S, IsFiniteSet(S), NEW C \in SUBSET (SUBSET S), C # {}
  PROVE  \E s \in C : \A t \in C : t \subseteq s => t = s
<1>1. C \subseteq FiniteSubsetsOf(S)
  BY FS_FiniteSubsetsOfFinite
<1>2. PICK s \in C : \A t \in C : ~ (<<t, s>> \in StrictSubsetOrdering(S))
  BY <1>1, FS_StrictSubsetOrderingWellFounded, WFMin
<1>3. QED
  BY <1>2 DEF StrictSubsetOrdering

(* Induction over the parts of a finite set, C being the good ones.        *)
LEMMA PartInduction ==
  ASSUME NEW S, IsFiniteSet(S), NEW C, {} \in C,
         \A T \in SUBSET S : \A x \in T : T \ {x} \in C => T \in C
  PROVE  S \in C
<1> DEFINE Bad == {T \in SUBSET S : T \notin C}
<1>1. SUFFICES ASSUME Bad # {} PROVE FALSE
  OBVIOUS
<1>2. PICK T \in Bad : \A U \in Bad : U \subseteq T => U = T
  <2>1. Bad \in SUBSET (SUBSET S)
    OBVIOUS
  <2> HIDE DEF Bad
  <2>2. QED
    BY <1>1, <2>1, LeastPart
<1>3. PICK x \in T : TRUE
  <2>1. T # {}
    OBVIOUS
  <2>2. QED
    BY <2>1
<1>4. T \ {x} \in C
  BY <1>2, <1>3
<1>5. T \in C
  BY <1>4
<1>6. QED
  BY <1>5

(* And from 0 to n.                                                        *)
LEMMA CountInduction ==
  ASSUME NEW n \in Nat, NEW C, 0 \in C,
         \A k \in 0 .. n : k # 0 /\ k - 1 \in C => k \in C
  PROVE  \A k \in 0 .. n : k \in C
<1> DEFINE Bad == {k \in 0 .. n : k \notin C}
<1>1. SUFFICES ASSUME Bad # {} PROVE FALSE
  OBVIOUS
<1>2. PICK k \in Bad : \A j \in Bad : k <= j
  <2>1. Bad \in SUBSET Nat
    OBVIOUS
  <2> HIDE DEF Bad
  <2>2. QED
    BY <1>1, <2>1, LeastNat
<1>3. k \in 0 .. n /\ k # 0 /\ k \notin C
  OBVIOUS
<1>4. k - 1 \in 0 .. n /\ ~(k <= k - 1)
  BY <1>3
<1>5. k - 1 \in C
  BY <1>2, <1>4
<1>6. QED
  BY <1>3, <1>5

----------------------------------------------------------------------------
(* Sums.                                                                   *)

One(s) == CHOOSE x \in s : TRUE

(* g sums f up over every part of S.                                       *)
SumsUp(g, f, S) ==
  g = [s \in SUBSET S |-> IF s = {} THEN 0 ELSE f[One(s)] + g[s \ {One(s)}]]

LEMMA SumIter ==
  ASSUME NEW f, NEW S
  PROVE  SumFunctionOnSet(f, S) = (CHOOSE g : SumsUp(g, f, S))[S]
BY DEF SumFunctionOnSet, FoldFunctionOnSet, MapThenFoldSet, SumsUp, One

LEMMA SumUnique ==
  ASSUME NEW f, NEW S, IsFiniteSet(S), NEW T, NEW g, NEW h,
         SumsUp(g, f, S), SumsUp(h, f, T),
         NEW U \in SUBSET S, U \subseteq T
  PROVE  g[U] = h[U]
<1> DEFINE Bad == {s \in SUBSET U : g[s] # h[s]}
<1>1. SUFFICES ASSUME Bad # {} PROVE FALSE
  OBVIOUS
<1>2. PICK s \in Bad : \A r \in Bad : r \subseteq s => r = s
  <2>1. IsFiniteSet(U) /\ Bad \in SUBSET (SUBSET U)
    BY FS_Subset
  <2> HIDE DEF Bad
  <2>2. QED
    BY <1>1, <2>1, LeastPart
<1>3. s \in SUBSET S /\ s \in SUBSET T /\ s \in SUBSET U
  OBVIOUS
<1>4. g[s] = h[s]
  <2>1. CASE s = {}
    BY <1>3, <2>1 DEF SumsUp
  <2>2. CASE s # {}
    <3> DEFINE r == s \ {One(s)}
    <3>1. One(s) \in s
      BY <2>2 DEF One
    <3>2. r \in SUBSET U /\ r \subseteq s /\ r # s
      BY <1>3, <3>1
    <3>3. g[r] = h[r]
      BY <1>2, <3>2
    <3>4. g[s] = f[One(s)] + g[r] /\ h[s] = f[One(s)] + h[r]
      BY <1>3, <2>2 DEF SumsUp
    <3>5. QED
      BY <3>3, <3>4
  <2>3. QED
    BY <2>1, <2>2
<1>5. QED
  BY <1>4

LEMMA SumExists ==
  ASSUME NEW f, NEW S, IsFiniteSet(S)
  PROVE  \E g : SumsUp(g, f, S)
<1> DEFINE Some(T) == \E g : SumsUp(g, f, T)
           Bad == {T \in SUBSET S : ~Some(T)}
<1>1. SUFFICES ASSUME Bad # {} PROVE FALSE
  OBVIOUS
<1>2. PICK T \in Bad : \A U \in Bad : U \subseteq T => U = T
  <2>1. Bad \in SUBSET (SUBSET S)
    OBVIOUS
  <2> HIDE DEF Bad
  <2>2. QED
    BY <1>1, <2>1, LeastPart
<1>3. T \in SUBSET S /\ \A U \in SUBSET T : U # T => Some(U)
  BY <1>2
<1> DEFINE h(U) == CHOOSE g : SumsUp(g, f, U)
           rest(s) == s \ {One(s)}
           G == [s \in SUBSET T |-> IF s = {} THEN 0
                                   ELSE f[One(s)] + h(rest(s))[rest(s)]]
<1>4. ASSUME NEW U \in SUBSET T, U # T
      PROVE  SumsUp(h(U), f, U) /\ IsFiniteSet(U)
  BY <1>3, <1>4, FS_Subset
<1>5. ASSUME NEW s \in SUBSET T, s # {}
      PROVE  G[s] = f[One(s)] + G[rest(s)]
  <2> DEFINE r == rest(s)
  <2>1. One(s) \in s
    BY <1>5 DEF One
  <2>2. r \in SUBSET T /\ r # T
    BY <1>5, <2>1
  <2>3. h(r)[r] = IF r = {} THEN 0 ELSE f[One(r)] + h(r)[rest(r)]
    <3>1. r \in SUBSET r
      OBVIOUS
    <3>2. SumsUp(h(r), f, r)
      BY <1>4, <2>2
    <3> HIDE DEF h
    <3>3. QED
      BY <3>1, <3>2 DEF SumsUp
  <2>4. r # {} => h(r)[rest(r)] = h(rest(r))[rest(r)]
    <3>1. rest(r) \in SUBSET T /\ rest(r) # T
      BY <2>2
    <3>2. rest(r) \in SUBSET r /\ rest(r) \in SUBSET rest(r)
      OBVIOUS
    <3>3. SumsUp(h(r), f, r) /\ SumsUp(h(rest(r)), f, rest(r)) /\ IsFiniteSet(r)
      BY <1>4, <2>2, <3>1
    <3> HIDE DEF h, rest
    <3>4. QED
      BY <3>2, <3>3, SumUnique
  <2>5. G[s] = f[One(s)] + h(r)[r]
    BY <1>5
  <2>6. G[r] = IF r = {} THEN 0 ELSE f[One(r)] + h(rest(r))[rest(r)]
    BY <2>2
  <2>7. QED
    BY <2>3, <2>4, <2>5, <2>6
<1>6. SumsUp(G, f, T)
  <2>1. \A s \in SUBSET T : s = {} => G[s] = 0
    OBVIOUS
  <2>2. DOMAIN G = SUBSET T /\ G = [s \in SUBSET T |-> G[s]]
    OBVIOUS
  <2> HIDE DEF G
  <2>3. G = [s \in SUBSET T |-> IF s = {} THEN 0
                               ELSE f[One(s)] + G[rest(s)]]
    BY <1>5, <2>1, <2>2
  <2>4. QED
    BY <2>3 DEF SumsUp
<1>7. QED
  <2>1. Some(T)
    BY <1>6
  <2> HIDE DEF Some
  <2>2. QED
    BY <1>2, <2>1

(* A sum adds one element to the sum of the others.                        *)
LEMMA SumUnfolds ==
  ASSUME NEW f, NEW S, IsFiniteSet(S)
  PROVE  SumFunctionOnSet(f, S) =
           IF S = {} THEN 0
           ELSE f[One(S)] + SumFunctionOnSet(f, S \ {One(S)})
<1> DEFINE g == CHOOSE g : SumsUp(g, f, S)
           R == S \ {One(S)}
           h == CHOOSE h : SumsUp(h, f, R)
<1>1. SumsUp(g, f, S)
  BY SumExists
<1>2. IsFiniteSet(R) /\ R \in SUBSET S
  BY FS_Subset
<1>3. SumsUp(h, f, R)
  BY <1>2, SumExists
<1>4. g[R] = h[R]
  BY <1>1, <1>2, <1>3, SumUnique
<1>5. SumFunctionOnSet(f, S) = g[S] /\ SumFunctionOnSet(f, R) = h[R]
  BY SumIter
<1>6. S \in SUBSET S
  OBVIOUS
<1>7. g[S] = IF S = {} THEN 0 ELSE f[One(S)] + g[R]
  <2> HIDE DEF g
  <2>1. QED
    BY <1>1, <1>6 DEF SumsUp
<1>8. QED
  BY <1>4, <1>5, <1>7

(* Any one element.                                                        *)
LEMMA SumRemove ==
  ASSUME NEW f, NEW S, IsFiniteSet(S), \A x \in S : f[x] \in Int
  PROVE  /\ SumFunctionOnSet(f, S) \in Int
         /\ \A x \in S : SumFunctionOnSet(f, S)
                           = f[x] + SumFunctionOnSet(f, S \ {x})
<1> DEFINE sum(T) == SumFunctionOnSet(f, T)
           Good(T) == /\ sum(T) \in Int
                      /\ \A x \in T : /\ sum(T \ {x}) \in Int
                                      /\ sum(T) = f[x] + sum(T \ {x})
           Bad == {T \in SUBSET S : ~Good(T)}
<1>1. sum({}) = 0
  BY SumUnfolds, FS_EmptySet
<1> HIDE DEF sum
<1>2. ASSUME NEW T \in SUBSET S, \A x \in T : Good(T \ {x}), T # {}
      PROVE  Good(T)
  <2> DEFINE c == One(T)
  <2>1. c \in T /\ f[c] \in Int
    BY <1>2 DEF One
  <2> HIDE DEF c
  <2>2. sum(T) = f[c] + sum(T \ {c})
    BY <1>2, SumUnfolds, FS_Subset DEF sum, c
  <2>3. sum(T) \in Int
    BY <1>2, <2>1, <2>2
  <2>4. ASSUME NEW x \in T, x # c
        PROVE  sum(T) = f[x] + sum(T \ {x})
    <3>1. x \in T \ {c} /\ c \in T \ {x} /\ f[x] \in Int
      BY <2>1, <2>4
    <3>2. /\ sum(T \ {c}) = f[x] + sum((T \ {c}) \ {x})
          /\ sum((T \ {c}) \ {x}) \in Int
      BY <1>2, <2>1, <3>1
    <3>3. sum(T \ {x}) = f[c] + sum((T \ {x}) \ {c})
      BY <1>2, <3>1
    <3>4. sum(T \ {x}) = f[c] + sum((T \ {c}) \ {x})
      <4>1. (T \ {x}) \ {c} = (T \ {c}) \ {x}
        OBVIOUS
      <4>2. QED
        BY <3>3, <4>1, Zenon
    <3>5. \A p, q, z \in Int : p + (q + z) = q + (p + z)
      OBVIOUS
    <3>6. QED
      BY <2>1, <2>2, <3>1, <3>2, <3>4, <3>5
  <2>5. QED
    BY <1>2, <2>2, <2>3, <2>4
<1>3. Good({})
  BY <1>1
<1> HIDE DEF Good
<1>4. SUFFICES ASSUME Bad # {} PROVE FALSE
  <2> QED BY DEF Good, sum
<1>5. PICK T \in Bad : \A U \in Bad : U \subseteq T => U = T
  <2>1. Bad \in SUBSET (SUBSET S)
    OBVIOUS
  <2> HIDE DEF Bad
  <2>2. QED
    BY <1>4, <2>1, LeastPart
<1>6. \A x \in T : Good(T \ {x})
  <2>1. ASSUME NEW x \in T PROVE T \ {x} \in SUBSET S /\ T \ {x} # T
    OBVIOUS
  <2>2. QED
    BY <1>5, <2>1
<1>7. QED
  BY <1>2, <1>3, <1>5, <1>6

LEMMA SumEmpty ==
  ASSUME NEW f
  PROVE  SumFunctionOnSet(f, {}) = 0
BY SumUnfolds, FS_EmptySet

LEMMA SumAdd ==
  ASSUME NEW f, NEW S, IsFiniteSet(S), \A y \in S : f[y] \in Int,
         NEW x, x \notin S, f[x] \in Int
  PROVE  SumFunctionOnSet(f, S \cup {x}) = f[x] + SumFunctionOnSet(f, S)
<1> DEFINE T == S \cup {x}
<1>1. IsFiniteSet(T) /\ x \in T /\ \A y \in T : f[y] \in Int
  BY FS_AddElement
<1>2. T \ {x} = S
  OBVIOUS
<1> HIDE DEF T
<1>3. SumFunctionOnSet(f, T) = f[x] + SumFunctionOnSet(f, T \ {x})
  BY <1>1, SumRemove
<1>4. QED
  BY <1>2, <1>3, Zenon DEF T

(* Of two parts that do not overlap.                                       *)
LEMMA SumUnion ==
  ASSUME NEW f, NEW S, IsFiniteSet(S), NEW T, IsFiniteSet(T),
         S \cap T = {}, \A x \in S \cup T : f[x] \in Int
  PROVE  SumFunctionOnSet(f, S \cup T)
           = SumFunctionOnSet(f, S) + SumFunctionOnSet(f, T)
<1> DEFINE sum(U) == SumFunctionOnSet(f, U)
           C == {U \in SUBSET T : sum(S \cup U) = sum(S) + sum(U)}
<1>1. \A U \in SUBSET T : sum(U) \in Int /\ IsFiniteSet(U)
  BY FS_Subset, SumRemove
<1>2. sum(S) \in Int
  BY SumRemove
<1>3. {} \in C
  <2>1. sum({}) = 0 /\ S \cup {} = S
    BY SumEmpty
  <2> HIDE DEF sum
  <2>2. QED
    BY <1>2, <2>1
<1>4. ASSUME NEW U \in SUBSET T, NEW x \in U, U \ {x} \in C
      PROVE  U \in C
  <2> DEFINE V == U \ {x}
  <2>1. /\ x \notin V /\ x \notin S \cup V /\ f[x] \in Int
        /\ V \cup {x} = U /\ (S \cup V) \cup {x} = S \cup U
        /\ V \in SUBSET T /\ V \in C
    BY <1>4
  <2> HIDE DEF V
  <2>2. IsFiniteSet(V) /\ IsFiniteSet(S \cup V)
    BY <1>1, <2>1, FS_Union
  <2>3. \A y \in S \cup V : f[y] \in Int
    BY <2>1
  <2>4. sum(V \cup {x}) = f[x] + sum(V)
    BY <2>1, <2>2, <2>3, SumAdd
  <2>5. sum((S \cup V) \cup {x}) = f[x] + sum(S \cup V)
    BY <2>1, <2>2, <2>3, SumAdd
  <2>6. sum(V) \in Int
    BY <1>1, <2>1
  <2>7. sum(U) = f[x] + sum(V) /\ sum(S \cup U) = f[x] + sum(S \cup V)
    BY <2>1, <2>4, <2>5, Zenon
  <2>8. sum(S \cup V) = sum(S) + sum(V)
    BY <2>1
  <2> HIDE DEF sum
  <2>9. sum(S \cup U) = sum(S) + sum(U)
    BY <1>2, <2>1, <2>6, <2>7, <2>8
  <2>10. QED
    BY <2>9
<1>5. T \in C
  <2> HIDE DEF C
  <2>1. QED
    BY <1>3, <1>4, PartInduction
<1>6. QED
  BY <1>5

LEMMA SumNat ==
  ASSUME NEW f, NEW S, IsFiniteSet(S), \A x \in S : f[x] \in Nat
  PROVE  SumFunctionOnSet(f, S) \in Nat
<1> DEFINE sum(U) == SumFunctionOnSet(f, U)
           C == {U \in SUBSET S : sum(U) \in Nat}
<1>1. {} \in C
  BY SumEmpty
<1>2. ASSUME NEW U \in SUBSET S, NEW x \in U, U \ {x} \in C
      PROVE  U \in C
  <2>1. sum(U) = f[x] + sum(U \ {x})
    BY SumRemove, FS_Subset
  <2> HIDE DEF sum
  <2>2. QED
    BY <1>2, <2>1
<1>3. S \in C
  <2> HIDE DEF C
  <2>1. QED
    BY <1>1, <1>2, PartInduction
<1>4. QED
  BY <1>3

(* Through h, which maps S into T one to one, f is nowhere more than g.    *)
LEMMA SumLeq ==
  ASSUME NEW f, NEW g, NEW h, NEW S, IsFiniteSet(S), NEW T, IsFiniteSet(T),
         \A x \in S : f[x] \in Int /\ h[x] \in T /\ f[x] <= g[h[x]],
         \A x, y \in S : h[x] = h[y] => x = y,
         \A x \in T : g[x] \in Nat
  PROVE  SumFunctionOnSet(f, S) <= SumFunctionOnSet(g, T)
<1> DEFINE im(U) == {h[x] : x \in U}
           C == {U \in SUBSET S :
                   SumFunctionOnSet(f, U) <= SumFunctionOnSet(g, im(U))}
<1>1. {} \in C
  <2>1. im({}) = {}
    OBVIOUS
  <2> HIDE DEF im
  <2>2. SumFunctionOnSet(f, {}) <= SumFunctionOnSet(g, im({}))
    BY <2>1, SumEmpty
  <2>3. QED
    BY <2>2
<1>2. ASSUME NEW U \in SUBSET S, NEW x \in U, U \ {x} \in C
      PROVE  U \in C
  <2> DEFINE V == U \ {x}
             s == SumFunctionOnSet(f, V)
             t == SumFunctionOnSet(g, im(V))
  <2>1. /\ im(V) \cup {h[x]} = im(U) /\ h[x] \notin im(V)
        /\ im(V) \in SUBSET T /\ V \in SUBSET S
    OBVIOUS
  <2>2. SumFunctionOnSet(f, U) = f[x] + s /\ s \in Int
    BY SumRemove, FS_Subset
  <2>3. SumFunctionOnSet(g, im(U)) = g[h[x]] + t /\ t \in Int
    <3> HIDE DEF im, V
    <3>1. IsFiniteSet(im(V)) /\ g[h[x]] \in Int /\ \A y \in im(V) : g[y] \in Int
      BY <2>1, FS_Subset
    <3>2. SumFunctionOnSet(g, im(V) \cup {h[x]}) = g[h[x]] + t
      BY <2>1, <3>1, SumAdd
    <3>3. t \in Int
      BY <3>1, SumRemove
    <3>4. QED
      BY <2>1, <3>2, <3>3, Zenon
  <2>4. s <= t
    BY <1>2
  <2>5. f[x] \in Int /\ g[h[x]] \in Int /\ f[x] <= g[h[x]]
    OBVIOUS
  <2> HIDE DEF s, t, im
  <2>6. SumFunctionOnSet(f, U) <= SumFunctionOnSet(g, im(U))
    BY <2>2, <2>3, <2>4, <2>5
  <2>7. QED
    BY <2>6
<1>3. S \in C
  <2> HIDE DEF C
  <2>1. QED
    BY <1>1, <1>2, PartInduction
<1>4. SumFunctionOnSet(g, im(S)) <= SumFunctionOnSet(g, T)
  <2> DEFINE R == T \ im(S)
  <2>1. /\ im(S) \cup R = T /\ im(S) \cap R = {}
        /\ im(S) \in SUBSET T /\ R \in SUBSET T
    OBVIOUS
  <2> HIDE DEF im, R
  <2>2. IsFiniteSet(im(S)) /\ IsFiniteSet(R)
    BY <2>1, FS_Subset
  <2>3. SumFunctionOnSet(g, im(S)) \in Nat /\ SumFunctionOnSet(g, R) \in Nat
    BY <2>1, <2>2, SumNat
  <2>4. SumFunctionOnSet(g, im(S) \cup R)
          = SumFunctionOnSet(g, im(S)) + SumFunctionOnSet(g, R)
    BY <2>1, <2>2, SumUnion
  <2>5. SumFunctionOnSet(g, im(S) \cup R) = SumFunctionOnSet(g, T)
    BY <2>1, Zenon
  <2>6. QED
    BY <2>3, <2>4, <2>5
<1>5. /\ SumFunctionOnSet(f, S) \in Int /\ SumFunctionOnSet(g, T) \in Int
      /\ SumFunctionOnSet(g, im(S)) \in Int
  <2>1. IsFiniteSet(im(S)) /\ im(S) \subseteq T
    <3>1. im(S) \in SUBSET T
      OBVIOUS
    <3> HIDE DEF im
    <3>2. QED
      BY <3>1, FS_Subset
  <2> HIDE DEF im
  <2>2. QED
    BY <2>1, SumRemove
<1>6. SumFunctionOnSet(f, S) <= SumFunctionOnSet(g, im(S))
  BY <1>3
<1> HIDE DEF im
<1>7. QED
  BY <1>4, <1>5, <1>6

(* Functions equal on S have the same sum over it.                         *)
LEMMA SumSame ==
  ASSUME NEW f, NEW g, NEW S, IsFiniteSet(S),
         \A x \in S : f[x] \in Int /\ f[x] = g[x]
  PROVE  SumFunctionOnSet(f, S) = SumFunctionOnSet(g, S)
<1> DEFINE C == {U \in SUBSET S :
                   SumFunctionOnSet(f, U) = SumFunctionOnSet(g, U)}
<1>1. {} \in C
  BY SumEmpty
<1>2. ASSUME NEW U \in SUBSET S, NEW x \in U, U \ {x} \in C
      PROVE  U \in C
  <2>1. SumFunctionOnSet(f, U) = f[x] + SumFunctionOnSet(f, U \ {x})
    BY SumRemove, FS_Subset
  <2>2. SumFunctionOnSet(g, U) = g[x] + SumFunctionOnSet(g, U \ {x})
    BY SumRemove, FS_Subset
  <2>3. QED
    BY <1>2, <2>1, <2>2
<1>3. S \in C
  <2> HIDE DEF C
  <2>1. QED
    BY <1>1, <1>2, PartInduction
<1>4. QED
  BY <1>3

----------------------------------------------------------------------------
(* Order.                                                                  *)

(* R orders S strictly, and any two elements of it.                        *)
Orders(R, S) ==
  /\ \A x, y \in S : x # y => <<x, y>> \in R \/ <<y, x>> \in R
  /\ \A x, y \in S : ~(<<x, y>> \in R /\ <<y, x>> \in R)
  /\ \A x, y, z \in S : <<x, y>> \in R /\ <<y, z>> \in R => <<x, z>> \in R

(* A finite set has a sequence of its elements in order: the place of x is *)
(* how many precede it.                                                    *)
LEMMA ArrangedExists ==
  ASSUME NEW S, IsFiniteSet(S), NEW R, Orders(R, S)
  PROVE  \E s \in [1 .. Cardinality(S) -> S] :
           \A i, j \in 1 .. Cardinality(S) : i < j => <<s[i], s[j]>> \in R
<1> DEFINE n == Cardinality(S)
           before(x) == {y \in S : y # x /\ <<y, x>> \in R}
           place == [x \in S |-> Cardinality(before(x)) + 1]
<1>1. n \in Nat
  BY FS_CardinalityType
<1>2. ASSUME NEW x \in S
      PROVE  IsFiniteSet(before(x)) /\ place[x] \in 1 .. n
  <2> DEFINE U == before(x)
  <2>1. U \in SUBSET S /\ x \in S /\ x \notin U
    OBVIOUS
  <2> HIDE DEF U
  <2>2. IsFiniteSet(U) /\ Cardinality(U) \in Nat /\ Cardinality(U) <= n
    BY <2>1, FS_Subset, FS_CardinalityType
  <2>3. Cardinality(U) # n
    BY <2>1, FS_Subset
  <2>4. Cardinality(U) + 1 \in 1 .. n
    BY <1>1, <2>2, <2>3
  <2>5. QED
    BY <2>2, <2>4 DEF U
<1>3. ASSUME NEW x \in S, NEW y \in S, <<x, y>> \in R, x # y
      PROVE  place[x] < place[y]
  <2>1. before(x) \subseteq before(y) /\ x \in before(y) /\ x \notin before(x)
    BY <1>3 DEF Orders
  <2>2. /\ Cardinality(before(x)) <= Cardinality(before(y))
        /\ Cardinality(before(x)) # Cardinality(before(y))
    <3> HIDE DEF before
    <3>1. before(x) \in SUBSET before(y) /\ before(x) # before(y)
      BY <2>1
    <3>2. IsFiniteSet(before(y))
      BY <1>2
    <3>3. QED
      BY <3>1, <3>2, FS_Subset
  <2> HIDE DEF before
  <2>3. Cardinality(before(x)) \in Nat /\ Cardinality(before(y)) \in Nat
    BY <1>2, FS_CardinalityType
  <2>4. QED
    BY <2>2, <2>3
<1>4. place \in [S -> 1 .. n]
  <2> HIDE DEF before
  <2>1. QED
    BY <1>2
<1>5. ASSUME NEW x \in S, NEW y \in S, place[x] = place[y]
      PROVE  x = y
  <2>1. place[x] \in Int /\ ~(place[x] < place[y]) /\ ~(place[y] < place[x])
    BY <1>2, <1>5
  <2> HIDE DEF place
  <2>2. QED
    BY <1>3, <2>1 DEF Orders
<1> HIDE DEF place
<1>6. \A i \in 1 .. n : \E x \in S : place[x] = i
  <2>1. place \in Injection(S, 1 .. n)
    BY <1>4, <1>5 DEF Injection, IsInjective
  <2>2. IsFiniteSet(1 .. n) /\ Cardinality(1 .. n) = n
    BY <1>1, FS_Interval
  <2>3. place \in Surjection(S, 1 .. n)
    BY <2>1, <2>2, FS_Injection
  <2>4. QED
    BY <2>3 DEF Surjection
<1> DEFINE s == [i \in 1 .. n |-> CHOOSE x \in S : place[x] = i]
<1>7. ASSUME NEW i \in 1 .. n
      PROVE  s[i] \in S /\ place[s[i]] = i
  BY <1>6
<1>8. s \in [1 .. n -> S]
  BY <1>7
<1> HIDE DEF s
<1>9. ASSUME NEW i \in 1 .. n, NEW j \in 1 .. n, i < j
      PROVE  <<s[i], s[j]>> \in R
  <2>1. s[i] # s[j]
    BY <1>7, <1>9
  <2>2. s[i] \in S /\ s[j] \in S /\ ~(place[s[j]] < place[s[i]])
    BY <1>7, <1>9
  <2>3. QED
    BY <1>3, <2>1, <2>2 DEF Orders
<1>10. QED
  BY <1>8, <1>9

LEMMA ArrangedNumbers ==
  ASSUME NEW S \in SUBSET Int, IsFiniteSet(S)
  PROVE  LET s == Ascending(S)
             n == Cardinality(S)
         IN  /\ n \in Nat /\ s \in [1 .. n -> S]
             /\ \A i, j \in 1 .. n : i < j => s[i] < s[j]
             /\ \A x \in S : \E i \in 1 .. n : s[i] = x
<1> DEFINE n == Cardinality(S)
           R == {p \in S \X S : p[1] < p[2]}
           s == Ascending(S)
<1>1. n \in Nat
  BY FS_CardinalityType
<1>2. \A x, y \in S : <<x, y>> \in R <=> x < y
  OBVIOUS
<1> HIDE DEF R
<1>3. Orders(R, S)
  BY <1>2 DEF Orders
<1>4. PICK z \in [1 .. n -> S] :
        \A i, j \in 1 .. n : i < j => <<z[i], z[j]>> \in R
  BY <1>3, ArrangedExists
<1>5. \A i, j \in DOMAIN z : i < j => z[i] < z[j]
  BY <1>2, <1>4
<1>6. s \in [1 .. n -> S] /\ \A i, j \in DOMAIN s : i < j => s[i] < s[j]
  BY <1>5 DEF Ascending
<1> HIDE DEF s
<1>7. ASSUME NEW i \in 1 .. n, NEW j \in 1 .. n, s[i] = s[j]
      PROVE  i = j
  <2>1. s[i] \in Int /\ s[j] \in Int /\ DOMAIN s = 1 .. n
    BY <1>6
  <2>2. ~(s[i] < s[j]) /\ ~(s[j] < s[i])
    BY <1>7, <2>1
  <2>3. ~(i < j) /\ ~(j < i)
    BY <1>6, <2>1, <2>2
  <2>4. QED
    BY <1>1, <2>3
<1>8. s \in Surjection(1 .. n, S)
  <2>1. s \in Injection(1 .. n, S)
    BY <1>6, <1>7 DEF Injection, IsInjective
  <2>2. Cardinality(1 .. n) = n
    BY <1>1, FS_Interval
  <2>3. QED
    BY <2>1, <2>2, FS_Injection
<1>9. \A x \in S : \E i \in 1 .. n : s[i] = x
  BY <1>8 DEF Surjection
<1>10. QED
  BY <1>1, <1>6, <1>9 DEF s

----------------------------------------------------------------------------
(* Grants in force: each once, with what is left of it.                    *)
Entry == [id : Nat, rem : Nat]

Actives ==
  {a \in Seq(Entry) : \A i, j \in DOMAIN a : a[i].id = a[j].id => i = j}

(* Rows as the walk is given them.                                         *)
IsLedger(G) ==
  /\ IsFiniteSet(DOMAIN G) /\ DOMAIN G \subseteq Nat
  /\ \A g \in DOMAIN G : /\ G[g].amount \in Nat /\ G[g].priority \in Int
                         /\ G[g].effective \in Int

LEMMA ActiveTyped ==
  ASSUME NEW a \in Actives
  PROVE  /\ Len(a) \in Nat /\ DOMAIN a = 1 .. Len(a)
         /\ a \in [1 .. Len(a) -> Entry] /\ IsFiniteSet(DOMAIN a)
         /\ \A i \in DOMAIN a : /\ a[i] \in Entry
                                /\ a[i].id \in Nat /\ a[i].rem \in Nat
                                /\ a[i] = [id |-> a[i].id, rem |-> a[i].rem]
         /\ \A i, j \in DOMAIN a : a[i].id = a[j].id => i = j
<1>1. a \in Seq(Entry)
  BY DEF Actives
<1>2. Len(a) \in Nat /\ DOMAIN a = 1 .. Len(a) /\ a \in [1 .. Len(a) -> Entry]
  BY <1>1, LenProperties
<1>3. IsFiniteSet(DOMAIN a)
  BY <1>2, FS_Interval
<1>4. \A i \in DOMAIN a : a[i] \in Entry
  BY <1>2
<1>5. \A e \in Entry : /\ e.id \in Nat /\ e.rem \in Nat
                       /\ e = [id |-> e.id, rem |-> e.rem]
  BY DEF Entry
<1>6. QED
  BY <1>2, <1>3, <1>4, <1>5 DEF Actives

LEMMA IsActive ==
  ASSUME NEW n \in Nat, NEW a \in [1 .. n -> Entry],
         \A i, j \in 1 .. n : a[i].id = a[j].id => i = j
  PROVE  a \in Actives /\ Len(a) = n
<1>1. a \in Seq(Entry) /\ Len(a) = n /\ DOMAIN a = 1 .. n
  BY SeqDef
<1>2. QED
  BY <1>1 DEF Actives

LEMMA IdsOfRange ==
  ASSUME NEW a
  PROVE  Ids(a) = {e.id : e \in Range(a)}
BY DEF Ids, Range

LEMMA RangeTyped ==
  ASSUME NEW a \in Actives
  PROVE  /\ \A e \in Range(a) : e \in Entry /\ e.id \in Nat /\ e.rem \in Nat
         /\ \A d, e \in Range(a) : d.id = e.id => d = e
<1>1. \A e \in Range(a) : \E i \in DOMAIN a : e = a[i]
  BY DEF Range
<1>2. QED
  BY <1>1, ActiveTyped

(* b is what is at the places I of a, each once, in the order of h.        *)
Picks(b, a, I, h, n) ==
  /\ a \in Actives /\ I \in SUBSET DOMAIN a /\ n \in Nat /\ h \in [1 .. n -> I]
  /\ \A i, j \in 1 .. n : h[i] = h[j] => i = j
  /\ \A x \in I : \E i \in 1 .. n : h[i] = x
  /\ b = [i \in 1 .. n |-> a[h[i]]]

LEMMA Picked ==
  ASSUME NEW a, NEW I, NEW n, NEW h, NEW b, Picks(b, a, I, h, n)
  PROVE  b \in Actives /\ Len(b) = n /\ Range(b) = {a[i] : i \in I}
<1> USE DEF Picks
<1>1. \A i \in 1 .. n : h[i] \in DOMAIN a /\ b[i] = a[h[i]]
  OBVIOUS
<1>2. b \in [1 .. n -> Entry]
  BY <1>1, ActiveTyped
<1>3. \A i, j \in 1 .. n : b[i].id = b[j].id => i = j
  BY <1>1, ActiveTyped
<1>4. b \in Actives /\ Len(b) = n
  BY <1>2, <1>3, IsActive
<1>5. Range(b) = {a[i] : i \in I}
  <2>1. DOMAIN b = 1 .. n
    OBVIOUS
  <2>2. ASSUME NEW e \in Range(b) PROVE e \in {a[i] : i \in I}
    <3>1. PICK i \in 1 .. n : e = b[i]
      BY <2>1 DEF Range
    <3>2. e = a[h[i]] /\ h[i] \in I
      BY <1>1, <3>1
    <3>3. QED
      BY <3>2
  <2>3. ASSUME NEW x \in I PROVE a[x] \in Range(b)
    <3>1. PICK i \in 1 .. n : h[i] = x
      OBVIOUS
    <3>2. b[i] = a[x]
      BY <1>1, <3>1
    <3>3. QED
      BY <2>1, <3>2 DEF Range
  <2>4. QED
    BY <2>2, <2>3
<1>6. QED
  BY <1>4, <1>5

LEMMA KeptActive ==
  ASSUME NEW a \in Actives, NEW I \in SUBSET DOMAIN a
  PROVE  Kept(a, I) \in Actives /\ Range(Kept(a, I)) = {a[i] : i \in I}
<1> DEFINE n == Cardinality(I)
           h == Ascending(I)
<1>1. I \in SUBSET Int /\ IsFiniteSet(I)
  BY ActiveTyped, FS_Subset
<1>2. /\ n \in Nat /\ h \in [1 .. n -> I]
      /\ \A i, j \in 1 .. n : i < j => h[i] < h[j]
      /\ \A x \in I : \E i \in 1 .. n : h[i] = x
  BY <1>1, ArrangedNumbers, Zenon
<1>3. Kept(a, I) = [i \in DOMAIN h |-> a[h[i]]]
  BY DEF Kept
<1> HIDE DEF h, n
<1>4. \A i, j \in 1 .. n : h[i] = h[j] => i = j
  <2> SUFFICES ASSUME NEW i \in 1 .. n, NEW j \in 1 .. n, h[i] = h[j]
               PROVE  i = j
    OBVIOUS
  <2>1. h[i] \in Int /\ h[j] \in Int
    BY <1>1, <1>2
  <2>2. ~(i < j) /\ ~(j < i)
    BY <1>2, <2>1
  <2>3. QED
    BY <1>2, <2>2
<1>5. Kept(a, I) = [i \in 1 .. n |-> a[h[i]]]
  BY <1>2, <1>3
<1>6. Picks(Kept(a, I), a, I, h, n)
  BY <1>2, <1>4, <1>5 DEF Picks
<1>7. QED
  BY <1>6, Picked

(* Burn order: by priority and time, and by places if those are the same.  *)
BurnsFirst(G, a, i, j) ==
  \/ Precedes(G, a[i].id, a[j].id)
  \/ ~Precedes(G, a[j].id, a[i].id) /\ i < j

(* Sorted keeps the entries, and no grant comes before one that precedes.  *)
LEMMA SortedActive ==
  ASSUME NEW G, IsLedger(G), NEW a \in Actives,
         \A i \in DOMAIN a : a[i].id \in DOMAIN G
  PROVE  LET s == Sorted(G, a)
         IN  /\ s \in Actives /\ Range(s) = Range(a) /\ Len(s) = Len(a)
             /\ \A i, j \in 1 .. Len(a) :
                  i < j => ~Precedes(G, s[j].id, s[i].id)
             /\ \A i, j \in 1 .. Len(a) :
                  i < j => \E k, l \in DOMAIN a : /\ s[i] = a[k] /\ s[j] = a[l]
                                                 /\ BurnsFirst(G, a, k, l)
<1> DEFINE n == Len(a)
           before(i, j) == \/ Precedes(G, a[i].id, a[j].id)
                           \/ ~Precedes(G, a[j].id, a[i].id) /\ i < j
           order == CHOOSE s \in [DOMAIN a -> DOMAIN a] :
                      \A i, j \in DOMAIN s : i < j => before(s[i], s[j])
           R == {p \in (DOMAIN a) \X (DOMAIN a) : before(p[1], p[2])}
<1>1. n \in Nat /\ DOMAIN a = 1 .. n
  BY ActiveTyped
<1>2. \A i, j \in DOMAIN a : <<i, j>> \in R <=> before(i, j)
  <2>1. ASSUME NEW i \in DOMAIN a, NEW j \in DOMAIN a
        PROVE  <<i, j>> \in R <=> before(i, j)
    OBVIOUS
  <2> HIDE DEF before, R
  <2>2. QED
    BY <2>1, Zenon
<1>3. \A i \in DOMAIN a : /\ G[a[i].id].priority \in Int
                          /\ G[a[i].id].effective \in Int
  BY DEF IsLedger
<1>4. \A i, j \in DOMAIN a :
        Precedes(G, a[i].id, a[j].id) <=>
          \/ G[a[i].id].priority < G[a[j].id].priority
          \/ /\ G[a[i].id].priority = G[a[j].id].priority
             /\ G[a[i].id].effective < G[a[j].id].effective
  BY DEF Precedes
<1>5. Orders(R, DOMAIN a)
  <2> DEFINE pr(i) == G[a[i].id].priority
             ef(i) == G[a[i].id].effective
             prec(i, j) == pr(i) < pr(j) \/ (pr(i) = pr(j) /\ ef(i) < ef(j))
  <2>1. \A i, j \in DOMAIN a :
          <<i, j>> \in R <=> prec(i, j) \/ (~prec(j, i) /\ i < j)
    <3> HIDE DEF R
    <3>1. QED
      BY <1>2, <1>4
  <2>2. \A i \in DOMAIN a : pr(i) \in Int /\ ef(i) \in Int /\ i \in Int
    BY <1>1, <1>3
  <2> HIDE DEF pr, ef, R
  <2>3. QED
    BY <2>1, <2>2 DEF Orders
<1>6. Cardinality(DOMAIN a) = n
  BY <1>1, FS_Interval
<1>7. PICK z \in [1 .. n -> DOMAIN a] :
        \A i, j \in 1 .. n : i < j => <<z[i], z[j]>> \in R
  BY <1>1, <1>5, <1>6, ArrangedExists, ActiveTyped
<1>8. \A i, j \in DOMAIN z : i < j => before(z[i], z[j])
  <2> HIDE DEF before, R
  <2>1. QED
    BY <1>2, <1>7
<1>9. order \in [1 .. n -> DOMAIN a]
      /\ \A i, j \in DOMAIN order : i < j => before(order[i], order[j])
  <2> HIDE DEF before
  <2>1. QED
    BY <1>1, <1>8
<1>10. Sorted(G, a) = [k \in 1 .. n |-> a[order[k]]]
  BY <1>1 DEF Sorted
<1> HIDE DEF order
<1>11. \A i, j \in 1 .. n : i < j => <<order[i], order[j]>> \in R
  <2> HIDE DEF before, R
  <2>1. QED
    BY <1>2, <1>9
<1>12. \A i, j \in 1 .. n : order[i] = order[j] => i = j
  <2> SUFFICES ASSUME NEW i \in 1 .. n, NEW j \in 1 .. n, i < j,
                      order[i] = order[j]
               PROVE  FALSE
    OBVIOUS
  <2>1. order[i] \in DOMAIN a /\ <<order[i], order[i]>> \in R
    BY <1>9, <1>11
  <2> HIDE DEF R
  <2>2. QED
    BY <1>5, <2>1 DEF Orders
<1>13. \A x \in DOMAIN a : \E i \in 1 .. n : order[i] = x
  <2>1. order \in Injection(1 .. n, DOMAIN a)
    BY <1>9, <1>12 DEF Injection, IsInjective
  <2>2. order \in Surjection(1 .. n, DOMAIN a)
    BY <1>1, <2>1, FS_Injection, FS_Interval
  <2>3. QED
    BY <2>2 DEF Surjection
<1> DEFINE s == Sorted(G, a)
<1>14. s \in Actives /\ Len(s) = n /\ Range(s) = {a[i] : i \in DOMAIN a}
  <2>1. Picks(s, a, DOMAIN a, order, n)
    BY <1>1, <1>9, <1>10, <1>12, <1>13 DEF Picks
  <2>2. QED
    BY <2>1, Picked
<1>15. ASSUME NEW i \in 1 .. n, NEW j \in 1 .. n, i < j
       PROVE  ~Precedes(G, s[j].id, s[i].id)
  <2>1. order[i] \in DOMAIN a /\ order[j] \in DOMAIN a
        /\ before(order[i], order[j])
    BY <1>9, <1>15
  <2>2. s[i] = a[order[i]] /\ s[j] = a[order[j]]
    BY <1>10
  <2>3. QED
    BY <1>3, <1>4, <2>1, <2>2
<1>16. ASSUME NEW i \in 1 .. n, NEW j \in 1 .. n, i < j
       PROVE  \E k, l \in DOMAIN a : /\ s[i] = a[k] /\ s[j] = a[l]
                                     /\ BurnsFirst(G, a, k, l)
  <2>1. /\ order[i] \in DOMAIN a /\ order[j] \in DOMAIN a
        /\ BurnsFirst(G, a, order[i], order[j])
    BY <1>9, <1>16 DEF BurnsFirst
  <2>2. s[i] = a[order[i]] /\ s[j] = a[order[j]]
    BY <1>10
  <2>3. QED
    BY <2>1, <2>2
<1>17. QED
  BY <1>14, <1>15, <1>16 DEF Range

(* What is left of all of them.                                            *)
LEMMA TotalTyped ==
  ASSUME NEW a \in Actives
  PROVE  SumFunction(Rems(a)) \in Nat
<1> DEFINE f == Rems(a)
<1>1. IsFiniteSet(DOMAIN f) /\ \A i \in DOMAIN f : f[i] \in Nat
  BY ActiveTyped DEF Rems
<1> HIDE DEF f
<1>2. QED
  BY <1>1, SumNat DEF SumFunction, f

LEMMA TotalLeq ==
  ASSUME NEW a \in Actives, NEW b \in Actives,
         \A e \in Range(a) : \E d \in Range(b) : d.id = e.id /\ e.rem <= d.rem
  PROVE  SumFunction(Rems(a)) <= SumFunction(Rems(b))
<1> DEFINE f == Rems(a)
           g == Rems(b)
           S == DOMAIN a
           T == DOMAIN b
           h == [i \in S |-> CHOOSE j \in T : b[j].id = a[i].id /\ a[i].rem <= b[j].rem]
<1>1. /\ \A i \in S : f[i] = a[i].rem /\ f[i] \in Nat
      /\ \A j \in T : g[j] = b[j].rem /\ g[j] \in Nat
      /\ IsFiniteSet(S) /\ IsFiniteSet(T) /\ DOMAIN f = S /\ DOMAIN g = T
  BY ActiveTyped DEF Rems
<1>2. ASSUME NEW i \in S
      PROVE  h[i] \in T /\ b[h[i]].id = a[i].id /\ a[i].rem <= b[h[i]].rem
  <2>1. PICK d \in Range(b) : d.id = a[i].id /\ a[i].rem <= d.rem
    BY DEF Range
  <2>2. \E j \in T : b[j].id = a[i].id /\ a[i].rem <= b[j].rem
    BY <2>1 DEF Range
  <2>3. QED
    BY <2>2
<1> HIDE DEF f, g, h
<1>3. \A i, j \in S : h[i] = h[j] => i = j
  BY <1>2, ActiveTyped
<1>4. \A i \in S : f[i] \in Int /\ h[i] \in T /\ f[i] <= g[h[i]]
  BY <1>1, <1>2
<1> HIDE DEF S, T
<1>5. SumFunctionOnSet(f, S) <= SumFunctionOnSet(g, T)
  BY <1>1, <1>3, <1>4, SumLeq
<1>6. QED
  BY <1>1, <1>5, Zenon DEF SumFunction, f, g

LEMMA TotalSame ==
  ASSUME NEW a \in Actives, NEW b \in Actives, Range(a) = Range(b)
  PROVE  SumFunction(Rems(a)) = SumFunction(Rems(b))
<1>1. \A e \in Range(a) : e.rem <= e.rem
  BY RangeTyped
<1>2. /\ SumFunction(Rems(a)) <= SumFunction(Rems(b))
      /\ SumFunction(Rems(b)) <= SumFunction(Rems(a))
  BY <1>1, TotalLeq
<1>3. SumFunction(Rems(a)) \in Int /\ SumFunction(Rems(b)) \in Int
  BY TotalTyped
<1>4. QED
  BY <1>2, <1>3

(* Grants taken in are there once, whole.                                  *)
LEMMA FreshActive ==
  ASSUME NEW G, IsLedger(G), NEW ids \in SUBSET DOMAIN G
  PROVE  /\ Fresh(G, ids) \in Actives
         /\ Range(Fresh(G, ids)) = {[id |-> g, rem |-> G[g].amount] : g \in ids}
<1> DEFINE n == Cardinality(ids)
           order == Ascending(ids)
           s == Fresh(G, ids)
<1>1. ids \in SUBSET Int /\ IsFiniteSet(ids)
  BY FS_Subset DEF IsLedger
<1>2. /\ n \in Nat /\ order \in [1 .. n -> ids]
      /\ \A i, j \in 1 .. n : i < j => order[i] < order[j]
      /\ \A g \in ids : \E i \in 1 .. n : order[i] = g
  BY <1>1, ArrangedNumbers, Zenon
<1>3. s = [k \in 1 .. n |-> [id |-> order[k], rem |-> G[order[k]].amount]]
  BY <1>2 DEF Fresh
<1> HIDE DEF n, order, s
<1>4. \A i \in 1 .. n : /\ order[i] \in ids /\ order[i] \in Nat
                        /\ s[i] = [id |-> order[i], rem |-> G[order[i]].amount]
                        /\ s[i].id = order[i] /\ G[order[i]].amount \in Nat
  BY <1>2, <1>3 DEF IsLedger
<1>5. s \in [1 .. n -> Entry]
  BY <1>3, <1>4 DEF Entry
<1>6. ASSUME NEW i \in 1 .. n, NEW j \in 1 .. n, s[i].id = s[j].id
      PROVE  i = j
  <2>1. order[i] = order[j] /\ order[i] \in Int
    <3>1. \A k \in 1 .. n : s[k].id = order[k]
      BY <1>4, Zenon
    <3>2. order[i] = order[j]
      BY <1>6, <3>1, Zenon
    <3>3. order[i] \in Nat
      BY <1>4, Zenon
    <3>4. QED
      BY <3>2, <3>3
  <2>2. ~(i < j) /\ ~(j < i)
    BY <1>2, <2>1
  <2>3. QED
    BY <1>2, <2>2
<1>7. s \in Actives
  BY <1>2, <1>5, <1>6, IsActive
<1>8. ASSUME NEW g \in ids
      PROVE  [id |-> g, rem |-> G[g].amount] \in Range(s)
  <2>1. PICK i \in 1 .. n : order[i] = g
    BY <1>2
  <2>2. s[i] = [id |-> g, rem |-> G[g].amount] /\ i \in DOMAIN s
    BY <1>3, <1>4, <2>1
  <2>3. QED
    BY <2>2 DEF Range
<1>9. ASSUME NEW e \in Range(s)
      PROVE  e \in {[id |-> g, rem |-> G[g].amount] : g \in ids}
  <2>1. PICK i \in 1 .. n : e = s[i]
    BY <1>3 DEF Range
  <2>2. QED
    BY <1>4, <2>1
<1>10. Range(s) = {[id |-> g, rem |-> G[g].amount] : g \in ids}
  BY <1>8, <1>9
<1>11. QED
  BY <1>7, <1>10 DEF s

(* They can be appended to others.                                         *)
LEMMA ConcatActive ==
  ASSUME NEW a \in Actives, NEW b \in Actives, Ids(a) \cap Ids(b) = {}
  PROVE  a \o b \in Actives /\ Range(a \o b) = Range(a) \cup Range(b)
<1> DEFINE m == Len(a)
           n == Len(b)
           c == a \o b
<1>1. /\ m \in Nat /\ DOMAIN a = 1 .. m /\ n \in Nat /\ DOMAIN b = 1 .. n
      /\ a \in Seq(Entry) /\ b \in Seq(Entry)
  BY ActiveTyped DEF Actives
<1>2. /\ c \in Seq(Entry) /\ Len(c) = m + n
      /\ \A i \in 1 .. m + n : c[i] = IF i <= m THEN a[i] ELSE b[i - m]
  BY <1>1, ConcatProperties
<1> HIDE DEF c, m, n
<1>3. c \in [1 .. m + n -> Entry] /\ DOMAIN c = 1 .. m + n
  BY <1>1, <1>2, LenProperties
<1>4. \A i \in 1 .. m + n : ~(i <= m) => i - m \in 1 .. n
  BY <1>1
<1>5. ASSUME NEW i \in 1 .. m + n, NEW j \in 1 .. m + n, c[i].id = c[j].id
      PROVE  i = j
  <2>1. CASE i <= m /\ j <= m
    <3>1. i \in DOMAIN a /\ j \in DOMAIN a /\ a[i].id = a[j].id
      BY <1>1, <1>2, <1>5, <2>1
    <3>2. QED
      BY <3>1, ActiveTyped
  <2>2. CASE ~(i <= m) /\ ~(j <= m)
    <3>1. /\ i - m \in DOMAIN b /\ j - m \in DOMAIN b
          /\ b[i - m].id = b[j - m].id
      BY <1>1, <1>2, <1>4, <1>5, <2>2
    <3>2. i - m = j - m
      BY <3>1, ActiveTyped
    <3>3. QED
      BY <1>1, <3>2
  <2>3. CASE i <= m /\ ~(j <= m)
    <3>1. i \in DOMAIN a /\ j - m \in DOMAIN b /\ a[i].id = b[j - m].id
      BY <1>1, <1>2, <1>4, <1>5, <2>3
    <3>2. a[i].id \in Ids(a) /\ a[i].id \in Ids(b)
      BY <3>1 DEF Ids
    <3>3. QED
      BY <3>2
  <2>4. CASE ~(i <= m) /\ j <= m
    <3>1. j \in DOMAIN a /\ i - m \in DOMAIN b /\ a[j].id = b[i - m].id
      BY <1>1, <1>2, <1>4, <1>5, <2>4
    <3>2. a[j].id \in Ids(a) /\ a[j].id \in Ids(b)
      BY <3>1 DEF Ids
    <3>3. QED
      BY <3>2
  <2>5. QED
    BY <2>1, <2>2, <2>3, <2>4
<1>6. c \in Actives
  <2>1. m + n \in Nat
    BY <1>1
  <2> DEFINE k == m + n
  <2>2. k \in Nat /\ c \in [1 .. k -> Entry]
    BY <1>3, <2>1
  <2>3. \A i, j \in 1 .. k : c[i].id = c[j].id => i = j
    BY <1>5
  <2> HIDE DEF k
  <2>4. QED
    BY <2>2, <2>3, IsActive
<1>7. \A e \in Range(c) : e \in Range(a) \cup Range(b)
  <2> SUFFICES ASSUME NEW i \in 1 .. m + n PROVE c[i] \in Range(a) \cup Range(b)
    BY <1>3 DEF Range
  <2>1. CASE i <= m
    <3>1. i \in DOMAIN a /\ c[i] = a[i]
      BY <1>1, <1>2, <2>1
    <3>2. QED
      BY <3>1 DEF Range
  <2>2. CASE ~(i <= m)
    <3>1. i - m \in DOMAIN b /\ c[i] = b[i - m]
      BY <1>1, <1>2, <1>4, <2>2
    <3>2. QED
      BY <3>1 DEF Range
  <2>3. QED
    BY <2>1, <2>2
<1>8. \A e \in Range(a) \cup Range(b) : e \in Range(c)
  <2>1. ASSUME NEW i \in DOMAIN a PROVE a[i] \in Range(c)
    <3>1. i \in 1 .. m + n /\ c[i] = a[i]
      BY <1>1, <1>2
    <3>2. QED
      BY <1>3, <3>1 DEF Range
  <2>2. ASSUME NEW i \in DOMAIN b PROVE b[i] \in Range(c)
    <3>1. m + i \in 1 .. m + n /\ c[m + i] = b[i]
      BY <1>1, <1>2
    <3>2. QED
      BY <1>3, <3>1 DEF Range
  <2>3. QED
    BY <2>1, <2>2 DEF Range
<1>9. QED
  BY <1>6, <1>7, <1>8 DEF c

(* A ledger's grants under a cap.                                          *)
LEMMA CappedActive ==
  ASSUME NEW cap \in Nat \cup {None}, NEW a \in Actives
  PROVE  /\ CappedAll(cap, a) \in Actives
         /\ DOMAIN CappedAll(cap, a) = DOMAIN a
         /\ \A i \in DOMAIN a :
              /\ CappedAll(cap, a)[i].id = a[i].id
              /\ CappedAll(cap, a)[i].rem = Capped(cap, a[i].rem)
              /\ Capped(cap, a[i].rem) <= a[i].rem
<1> DEFINE b == CappedAll(cap, a)
<1>1. /\ DOMAIN a = 1 .. Len(a) /\ Len(a) \in Nat
      /\ \A i \in DOMAIN a : a[i].id \in Nat /\ a[i].rem \in Nat
      /\ \A i, j \in DOMAIN a : a[i].id = a[j].id => i = j
  BY ActiveTyped
<1>2. \A r \in Nat : Capped(cap, r) \in Nat /\ Capped(cap, r) <= r
  BY DEF Capped, None
<1>3. b = [i \in 1 .. Len(a) |-> [id |-> a[i].id,
                                 rem |-> Capped(cap, a[i].rem)]]
  BY <1>1 DEF CappedAll
<1> HIDE DEF b
<1>4. b \in [1 .. Len(a) -> Entry]
  BY <1>1, <1>2, <1>3 DEF Entry
<1>5. \A i \in DOMAIN a : b[i].id = a[i].id /\ b[i].rem = Capped(cap, a[i].rem)
  BY <1>1, <1>3
<1>6. b \in Actives
  <2>1. PICK n : n = Len(a)
    OBVIOUS
  <2>2. n \in Nat /\ b \in [1 .. n -> Entry]
    BY <1>1, <1>4, <2>1
  <2>3. \A i, j \in 1 .. n : b[i].id = b[j].id => i = j
    BY <1>1, <1>5, <2>1
  <2>4. QED
    BY <2>2, <2>3, IsActive
<1>7. QED
  BY <1>1, <1>2, <1>3, <1>5, <1>6 DEF b

----------------------------------------------------------------------------
(* The burn loop.                                                          *)
LEMMA SpendOnTurn ==
  ASSUME NEW left \in Nat, NEW rem \in Nat
  PROVE  LET s == SpendOn(left, rem)
         IN  /\ s.left \in Nat /\ s.left <= left
             /\ s.rem \in Nat /\ s.rem <= rem
             /\ left - s.left = rem - s.rem
             /\ s.left > 0 => s.rem = 0
             /\ s.rem < rem => left > 0
BY DEF SpendOn

(* turn holds what the turns of the loop over a leave, up to the k-th.     *)
Turns(turn, a, usage, k) ==
  turn = [i \in 0 .. k |-> IF i = 0 THEN [left |-> usage, rem |-> 0]
                          ELSE SpendOn(turn[i - 1].left, a[i].rem)]

LEMMA TurnsExist ==
  ASSUME NEW a, NEW usage, NEW n \in Nat
  PROVE  \E turn : Turns(turn, a, usage, n)
<1> DEFINE Some(k) == \E turn : Turns(turn, a, usage, k)
           C == {k \in 0 .. n : Some(k)}
<1>1. 0 \in C
  <2> DEFINE turn == [i \in 0 .. 0 |-> [left |-> usage, rem |-> 0]]
  <2>1. \A i \in 0 .. 0 : i = 0
    OBVIOUS
  <2>2. turn = [i \in 0 .. 0 |-> IF i = 0 THEN [left |-> usage, rem |-> 0]
                                ELSE SpendOn(turn[i - 1].left, a[i].rem)]
    BY <2>1
  <2> HIDE DEF turn
  <2>3. Some(0)
    BY <2>2 DEF Turns
  <2> HIDE DEF Some
  <2>4. QED
    BY <2>3
<1>2. ASSUME NEW k \in 0 .. n, k # 0, k - 1 \in C
      PROVE  k \in C
  <2>1. PICK f : Turns(f, a, usage, k - 1)
    BY <1>2
  <2> DEFINE turn == [i \in 0 .. k |->
                        IF i \in 0 .. k - 1 THEN f[i]
                        ELSE SpendOn(f[k - 1].left, a[k].rem)]
  <2>2. ASSUME NEW i \in 0 .. k
        PROVE  turn[i] = IF i = 0 THEN [left |-> usage, rem |-> 0]
                         ELSE SpendOn(turn[i - 1].left, a[i].rem)
    <3>1. CASE i = k
      <4>1. i \notin 0 .. k - 1 /\ k - 1 \in 0 .. k - 1 /\ k - 1 \in 0 .. k
        BY <1>2, <3>1
      <4>2. turn[i] = SpendOn(f[k - 1].left, a[k].rem)
        BY <4>1
      <4>3. turn[k - 1] = f[k - 1]
        BY <4>1
      <4> HIDE DEF turn
      <4>4. QED
        BY <1>2, <3>1, <4>2, <4>3
    <3>2. CASE i # k
      <4>1. i \in 0 .. k - 1 /\ (i # 0 => i - 1 \in 0 .. k - 1 /\ i - 1 \in 0 .. k)
        BY <3>2
      <4>2. turn[i] = f[i] /\ (i # 0 => turn[i - 1] = f[i - 1])
        BY <4>1
      <4>3. f[i] = IF i = 0 THEN [left |-> usage, rem |-> 0]
                   ELSE SpendOn(f[i - 1].left, a[i].rem)
        BY <2>1, <4>1 DEF Turns
      <4> HIDE DEF turn
      <4>4. QED
        BY <4>2, <4>3
    <3>3. QED
      BY <3>1, <3>2
  <2>3. DOMAIN turn = 0 .. k /\ turn = [i \in 0 .. k |-> turn[i]]
    OBVIOUS
  <2> HIDE DEF turn
  <2>4. turn = [i \in 0 .. k |-> IF i = 0 THEN [left |-> usage, rem |-> 0]
                                ELSE SpendOn(turn[i - 1].left, a[i].rem)]
    BY <2>2, <2>3
  <2>5. Some(k)
    BY <2>4 DEF Turns
  <2> HIDE DEF Some
  <2>6. QED
    BY <2>5
<1>3. n \in C
  <2> HIDE DEF C
  <2>1. QED
    BY <1>1, <1>2, CountInduction
<1>4. QED
  BY <1>3

(* What the loop takes from the grants is the usage it burns; a grant is   *)
(* touched when those before it are empty, and there is overage when all   *)
(* are.                                                                    *)
LEMMA BurnActive ==
  ASSUME NEW a \in Actives, NEW usage \in Nat
  PROVE  LET b == Burn(a, usage).active
             over == Burn(a, usage).left
         IN  /\ over \in 0 .. usage
             /\ b \in Actives /\ DOMAIN b = DOMAIN a
             /\ \A i \in DOMAIN a : b[i].id = a[i].id /\ b[i].rem <= a[i].rem
             /\ over > 0 => \A i \in DOMAIN a : b[i].rem = 0
             /\ \A i, j \in DOMAIN a :
                  i < j /\ b[j].rem < a[j].rem => b[i].rem = 0
             /\ SumFunction(Rems(a)) - SumFunction(Rems(b)) = usage - over
<1> DEFINE n == Len(a)
           turn == CHOOSE turn : Turns(turn, a, usage, n)
           b == Burn(a, usage).active
           over == Burn(a, usage).left
<1>1. /\ n \in Nat /\ DOMAIN a = 1 .. n
      /\ \A i \in 1 .. n : a[i].id \in Nat /\ a[i].rem \in Nat
      /\ \A i, j \in 1 .. n : a[i].id = a[j].id => i = j
  BY ActiveTyped
<1>2. Turns(turn, a, usage, n)
  BY <1>1, TurnsExist
<1>3. /\ over = turn[n].left
      /\ b = [i \in 1 .. n |-> [id |-> a[i].id, rem |-> turn[i].rem]]
  BY <1>1 DEF Burn, Turns
<1> HIDE DEF turn, b, over, n
<1>4. /\ turn[0] = [left |-> usage, rem |-> 0]
      /\ \A i \in 1 .. n : turn[i] = SpendOn(turn[i - 1].left, a[i].rem)
  BY <1>1, <1>2 DEF Turns
<1>5. \A k \in 0 .. n : /\ turn[k].left \in Nat
                        /\ \A i \in 0 .. k : turn[k].left <= turn[i].left
  <2> DEFINE Good(k) == \A i \in 0 .. k : /\ turn[i].left \in Nat
                                          /\ turn[k].left <= turn[i].left
             C == {k \in 0 .. n : Good(k)}
  <2>1. 0 \in C
    BY <1>1, <1>4
  <2>2. ASSUME NEW k \in 0 .. n, k # 0, k - 1 \in C
        PROVE  k \in C
    <3>1. /\ k \in 1 .. n /\ turn[k - 1].left \in Nat /\ a[k].rem \in Nat
          /\ \A i \in 0 .. k - 1 : /\ turn[i].left \in Nat
                                   /\ turn[k - 1].left <= turn[i].left
      BY <1>1, <2>2
    <3>2. turn[k].left \in Nat /\ turn[k].left <= turn[k - 1].left
      BY <1>4, <3>1, SpendOnTurn
    <3>3. ASSUME NEW i \in 0 .. k
          PROVE  turn[i].left \in Nat /\ turn[k].left <= turn[i].left
      <4>1. CASE i = k
        BY <3>2, <4>1
      <4>2. CASE i # k
        <5>1. i \in 0 .. k - 1
          BY <4>2
        <5>2. turn[k - 1].left <= turn[i].left /\ turn[i].left \in Nat
          BY <3>1, <5>1
        <5>3. QED
          BY <3>1, <3>2, <5>2
      <4>3. QED
        BY <4>1, <4>2
    <3>4. QED
      BY <3>2, <3>3
  <2>3. \A k \in 0 .. n : k \in C
    <3> HIDE DEF C
    <3>1. QED
      BY <1>1, <2>1, <2>2, CountInduction
  <2>4. \A k \in 0 .. n : k \in 0 .. k
    BY <1>1
  <2>5. QED
    BY <2>3, <2>4
<1>6. ASSUME NEW i \in 1 .. n
      PROVE  /\ b[i].id = a[i].id /\ b[i].rem \in Nat /\ b[i].rem <= a[i].rem
             /\ turn[i - 1].left - turn[i].left = a[i].rem - b[i].rem
             /\ turn[i].left > 0 => b[i].rem = 0
             /\ b[i].rem < a[i].rem => turn[i - 1].left > 0
  <2>1. b[i].id = a[i].id /\ b[i].rem = turn[i].rem
    BY <1>3
  <2>2. turn[i - 1].left \in Nat /\ a[i].rem \in Nat
    BY <1>1, <1>5
  <2>3. turn[i] = SpendOn(turn[i - 1].left, a[i].rem)
    BY <1>4
  <2> DEFINE s == SpendOn(turn[i - 1].left, a[i].rem)
  <2>4. /\ s.left \in Nat /\ s.left <= turn[i - 1].left
        /\ s.rem \in Nat /\ s.rem <= a[i].rem
        /\ turn[i - 1].left - s.left = a[i].rem - s.rem
        /\ s.left > 0 => s.rem = 0
        /\ s.rem < a[i].rem => turn[i - 1].left > 0
    BY <2>2, SpendOnTurn
  <2>5. QED
    BY <2>1, <2>3, <2>4
<1>7. b \in Actives /\ DOMAIN b = 1 .. n
  <2>1. b \in [1 .. n -> Entry]
    <3>1. \A i \in 1 .. n : turn[i].rem \in Nat
      BY <1>3, <1>6
    <3>2. QED
      BY <1>1, <1>3, <3>1 DEF Entry
  <2>2. \A i, j \in 1 .. n : b[i].id = b[j].id => i = j
    BY <1>1, <1>6
  <2>3. QED
    BY <1>1, <2>1, <2>2, IsActive
<1>8. over \in 0 .. usage
  BY <1>1, <1>3, <1>4, <1>5
<1>9. ASSUME over > 0, NEW i \in 1 .. n
      PROVE  b[i].rem = 0
  <2>1. turn[n].left <= turn[i].left /\ turn[i].left \in Int /\ turn[n].left \in Int
    BY <1>1, <1>5
  <2>2. turn[i].left > 0
    BY <1>3, <1>9, <2>1
  <2>3. QED
    BY <1>6, <2>2
<1>10. ASSUME NEW i \in 1 .. n, NEW j \in 1 .. n, i < j,
              b[j].rem < a[j].rem
       PROVE  b[i].rem = 0
  <2>1. turn[j - 1].left > 0
    BY <1>6, <1>10
  <2>2. j - 1 \in 0 .. n /\ i \in 0 .. j - 1 /\ i \in 0 .. n
    BY <1>1, <1>10
  <2>3. /\ turn[j - 1].left <= turn[i].left
        /\ turn[i].left \in Int /\ turn[j - 1].left \in Int
    BY <1>5, <2>2
  <2>4. turn[i].left > 0
    BY <2>1, <2>3
  <2>5. QED
    BY <1>6, <2>4
<1>11. SumFunction(Rems(a)) - SumFunction(Rems(b)) = usage - over
  <2> DEFINE f == Rems(a)
             g == Rems(b)
             F(k) == SumFunctionOnSet(f, 1 .. k)
             H(k) == SumFunctionOnSet(g, 1 .. k)
             C == {k \in 0 .. n : F(k) - H(k) = usage - turn[k].left}
  <2>1. /\ DOMAIN f = 1 .. n /\ DOMAIN g = 1 .. n
        /\ \A i \in 1 .. n : /\ f[i] = a[i].rem /\ g[i] = b[i].rem
                             /\ f[i] \in Int /\ g[i] \in Int
    BY <1>1, <1>6, <1>7 DEF Rems
  <2> HIDE DEF f, g
  <2>2. 0 \in C
    <3>1. 1 .. 0 = {}
      OBVIOUS
    <3>2. F(0) = 0 /\ H(0) = 0
      BY <3>1, SumEmpty
    <3> HIDE DEF F, H
    <3>3. F(0) - H(0) = usage - turn[0].left
      BY <1>4, <3>2
    <3>4. QED
      BY <1>1, <3>3
  <2>3. ASSUME NEW k \in 0 .. n, k # 0, k - 1 \in C
        PROVE  k \in C
    <3> DEFINE D == 1 .. k - 1
    <3>1. /\ 1 .. k = D \cup {k} /\ k \notin D /\ IsFiniteSet(D)
          /\ k \in 1 .. n /\ D \subseteq 1 .. n
      <4>1. k \in 1 .. n /\ 1 \in Int /\ k - 1 \in Int
        BY <1>1, <2>3
      <4>2. 1 .. k = D \cup {k} /\ k \notin D /\ D \subseteq 1 .. n
        BY <1>1, <4>1
      <4>3. IsFiniteSet(D)
        BY <4>1, FS_Interval
      <4>4. QED
        BY <4>1, <4>2, <4>3
    <3> HIDE DEF D
    <3>2. /\ SumFunctionOnSet(f, D \cup {k}) = f[k] + SumFunctionOnSet(f, D)
          /\ SumFunctionOnSet(g, D \cup {k}) = g[k] + SumFunctionOnSet(g, D)
          /\ SumFunctionOnSet(f, D) \in Int /\ SumFunctionOnSet(g, D) \in Int
      BY <2>1, <3>1, SumAdd, SumRemove
    <3>3. /\ F(k) = f[k] + F(k - 1) /\ H(k) = g[k] + H(k - 1)
          /\ F(k - 1) \in Int /\ H(k - 1) \in Int
      BY <3>1, <3>2, Zenon DEF D
    <3>4. /\ f[k] - g[k] = turn[k - 1].left - turn[k].left
          /\ f[k] \in Int /\ g[k] \in Int
      BY <1>6, <2>1, <3>1
    <3>5. turn[k - 1].left \in Int /\ turn[k].left \in Int
      BY <1>1, <1>5, <3>1
    <3>6. F(k - 1) - H(k - 1) = usage - turn[k - 1].left
      BY <2>3
    <3> HIDE DEF F, H
    <3>7. F(k) - H(k) = usage - turn[k].left
      <4>1. PICK x, y, v, w, l, m :
              /\ x = f[k] /\ y = g[k] /\ v = F(k - 1) /\ w = H(k - 1)
              /\ l = turn[k - 1].left /\ m = turn[k].left
        OBVIOUS
      <4>2. /\ x \in Int /\ y \in Int /\ v \in Int /\ w \in Int
            /\ l \in Int /\ m \in Int /\ x - y = l - m /\ v - w = usage - l
        BY <3>3, <3>4, <3>5, <3>6, <4>1
      <4>3. (x + v) - (y + w) = usage - m
        BY <4>2
      <4>4. QED
        BY <3>3, <4>1, <4>3
    <3>8. QED
      BY <3>7
  <2>4. \A k \in 0 .. n : k \in C
    <3> HIDE DEF C
    <3>1. QED
      BY <1>1, <2>2, <2>3, CountInduction
  <2>5. F(n) - H(n) = usage - turn[n].left
    BY <1>1, <2>4
  <2>6. SumFunction(f) = F(n) /\ SumFunction(g) = H(n)
    BY <2>1, Zenon DEF SumFunction
  <2> HIDE DEF F, H
  <2>7. QED
    BY <1>3, <2>5, <2>6 DEF f, g
<1>12. QED
  BY <1>1, <1>6, <1>7, <1>8, <1>9, <1>10, <1>11 DEF b, over, n

----------------------------------------------------------------------------
(* The periods end with one that began by the time asked about, and the    *)
(* others are over by then: each ends where the next one begins.           *)
LEMMA Quotient ==
  ASSUME NEW y \in Int, NEW d \in Nat \ {0}
  PROVE  /\ y \div d \in Int
         /\ d * (y \div d) <= y /\ y < d * (y \div d) + d
<1>1. y \div d \in Int /\ y = d * (y \div d) + (y % d)
  OBVIOUS
<1>2. y % d \in 0 .. d - 1
  OBVIOUS
<1>3. QED
  BY <1>1, <1>2

LEMMA FirstBefore ==
  ASSUME NEW anchor \in Int, NEW dur \in Nat \ {0}, NEW t \in Int
  PROVE  FirstFrom(anchor, dur, t) \in Int /\ FirstFrom(anchor, dur, t) <= t
<1>1. CASE anchor <= t
  BY <1>1 DEF FirstFrom
<1>2. CASE ~(anchor <= t)
  <2> DEFINE y == anchor - t + dur - 1
             q == y \div dur
  <2>1. y \in Int /\ q \in Int
    BY Quotient
  <2>2. dur * q \in Int /\ y < dur * q + dur
    BY <2>1, Quotient
  <2>3. FirstFrom(anchor, dur, t) = anchor - dur * q
    BY <1>2 DEF FirstFrom
  <2>4. QED
    BY <2>2, <2>3
<1>3. QED
  BY <1>1, <1>2

LEMMA PeriodsTyped ==
  ASSUME NEW anchor \in Int, NEW dur \in Nat \ {0}, NEW t \in Int
  PROVE  LET P == Periods(anchor, dur, t)
         IN  /\ Len(P) \in Nat \ {0} /\ DOMAIN P = 1 .. Len(P)
             /\ \A i \in 1 .. Len(P) : /\ P[i].from \in Int /\ P[i].to \in Int
                                      /\ P[i].from <= P[i].to
             /\ \A i \in 1 .. Len(P) : i > 1 => P[i].from = P[i - 1].to
             /\ P[Len(P)].from <= t
             /\ \A i \in 1 .. Len(P) :
                  i < Len(P) => P[i].to <= P[Len(P)].from
<1> DEFINE P == Periods(anchor, dur, t)
           from == FirstFrom(anchor, dur, t)
           q == (t - from) \div dur
<1>1. from \in Int /\ from <= t
  BY FirstBefore
<1>2. q \in Nat /\ dur * q <= t - from
  <2>1. t - from \in Nat /\ t - from \in Int
    BY <1>1
  <2>2. q \in Int /\ dur * q <= t - from /\ t - from < dur * q + dur
    BY <2>1, Quotient
  <2>3. q >= 0
    <3>1. SUFFICES ASSUME q <= -1 PROVE FALSE
      BY <2>2
    <3>2. dur * q <= -dur
      BY <2>2, <3>1
    <3>3. QED
      BY <2>1, <2>2, <3>2
  <2>4. QED
    BY <2>2, <2>3
<1>3. P = [k \in 1 .. q + 1 |->
             [from |-> from + (k - 1) * dur, to |-> from + k * dur]]
  BY DEF Periods
<1>4. Len(P) = q + 1 /\ DOMAIN P = 1 .. q + 1
  BY <1>2, <1>3
<1>5. ASSUME NEW i \in 1 .. q + 1
      PROVE  /\ P[i].from = from + (i - 1) * dur /\ P[i].to = from + i * dur
             /\ P[i].from \in Int /\ P[i].to \in Int
             /\ P[i].from <= P[i].to
  <2>1. P[i] = [from |-> from + (i - 1) * dur, to |-> from + i * dur]
    BY <1>3
  <2>2. /\ i \in Int /\ (i - 1) * dur \in Int /\ i * dur \in Int
        /\ (i - 1) * dur <= i * dur
    BY <1>2
  <2>3. QED
    BY <1>1, <2>1, <2>2
<1>6. P[q + 1].from = from + q * dur
  BY <1>2, <1>5
<1>7. ASSUME NEW i \in 1 .. q + 1, i < q + 1
      PROVE  P[i].to <= P[q + 1].from
  <2>1. i * dur <= q * dur
    BY <1>2, <1>7
  <2>2. QED
    BY <1>1, <1>2, <1>5, <1>6, <2>1
<1>8. P[q + 1].from <= t
  BY <1>1, <1>2, <1>6
<1>9. ASSUME NEW i \in 1 .. q + 1, i > 1
      PROVE  P[i].from = P[i - 1].to
  <2>1. i - 1 \in 1 .. q + 1
    BY <1>2, <1>9
  <2>2. P[i - 1].to = from + (i - 1) * dur
    BY <1>5, <2>1
  <2>3. QED
    BY <1>5, <2>2
<1> HIDE DEF P, q
<1>10. QED
  BY <1>2, <1>4, <1>5, <1>7, <1>8, <1>9 DEF P

----------------------------------------------------------------------------
(* A period.                                                               *)
LEMMA UnexpiredActive ==
  ASSUME NEW G, NEW a \in Actives, NEW t
  PROVE  /\ Unexpired(G, a, t) \in Actives
         /\ \A e : e \in Range(Unexpired(G, a, t))
                  <=> e \in Range(a) /\ ~Expired(G[e.id], t)
<1> DEFINE I == {i \in DOMAIN a : ~Expired(G[a[i].id], t)}
<1>1. {a[i] : i \in I} = {e \in Range(a) : ~Expired(G[e.id], t)}
  BY DEF Range
<1>2. I \in SUBSET DOMAIN a /\ Unexpired(G, a, t) = Kept(a, I)
  BY DEF Unexpired
<1> HIDE DEF I
<1>3. Kept(a, I) \in Actives /\ Range(Kept(a, I)) = {a[i] : i \in I}
  BY <1>2, KeptActive
<1>4. QED
  BY <1>1, <1>2, <1>3

LEMMA UnvoidedActive ==
  ASSUME NEW G, NEW a \in Actives
  PROVE  /\ Unvoided(G, a) \in Actives
         /\ \A e : e \in Range(Unvoided(G, a))
                  <=> e \in Range(a) /\ e.id \in DOMAIN G
<1> DEFINE I == {i \in DOMAIN a : a[i].id \in DOMAIN G}
<1>1. {a[i] : i \in I} = {e \in Range(a) : e.id \in DOMAIN G}
  BY DEF Range
<1>2. I \in SUBSET DOMAIN a /\ Unvoided(G, a) = Kept(a, I)
  BY DEF Unvoided
<1> HIDE DEF I
<1>3. Kept(a, I) \in Actives /\ Range(Kept(a, I)) = {a[i] : i \in I}
  BY <1>2, KeptActive
<1>4. QED
  BY <1>1, <1>2, <1>3

LEMMA UnspentActive ==
  ASSUME NEW a \in Actives
  PROVE  /\ Unspent(a) \in Actives
         /\ \A e : e \in Range(Unspent(a)) <=> e \in Range(a) /\ e.rem > 0
<1> DEFINE I == {i \in DOMAIN a : a[i].rem > 0}
<1>1. {a[i] : i \in I} = {e \in Range(a) : e.rem > 0}
  BY DEF Range
<1>2. I \in SUBSET DOMAIN a /\ Unspent(a) = Kept(a, I)
  BY DEF Unspent
<1> HIDE DEF I
<1>3. Kept(a, I) \in Actives /\ Range(Kept(a, I)) = {a[i] : i \in I}
  BY <1>2, KeptActive
<1>4. QED
  BY <1>1, <1>2, <1>3

(* The grants in force are the unexpired ones of before, and whole ones    *)
(* not seen before that take effect in the period, or earlier if it is the *)
(* first.                                                                  *)
LEMMA EnterActive ==
  ASSUME NEW G, IsLedger(G), NEW st, NEW p, NEW first,
         st.active \in Actives, Ids(st.active) \subseteq st.seen
  PROVE  LET in == Enter(G, st, p, first)
         IN  /\ in.active \in Actives
             /\ st.seen \subseteq in.seen /\ Ids(in.active) \subseteq in.seen
             /\ \A e \in Range(in.active) :
                  /\ ~Expired(G[e.id], p.from)
                  /\ \/ e \in Range(st.active)
                     \/ /\ e.id \in DOMAIN G /\ e.rem = G[e.id].amount
                        /\ G[e.id].effective < p.to
                        /\ p.from <= G[e.id].effective \/ first
<1> DEFINE new == {g \in DOMAIN G \ st.seen :
                     G[g].effective < p.to /\ (p.from <= G[g].effective \/ first)}
           all == st.active \o Fresh(G, new)
           in == Enter(G, st, p, first)
<1>1. in.active = Unexpired(G, all, p.from) /\ in.seen = st.seen \cup new
  BY DEF Enter
<1>2. /\ new \in SUBSET DOMAIN G /\ new \cap st.seen = {}
      /\ \A g \in new : G[g].effective < p.to
                        /\ (p.from <= G[g].effective \/ first)
  OBVIOUS
<1> HIDE DEF new
<1>3. /\ Fresh(G, new) \in Actives
      /\ Range(Fresh(G, new)) = {[id |-> g, rem |-> G[g].amount] : g \in new}
  BY <1>2, FreshActive
<1>4. Ids(Fresh(G, new)) = new
  <2> DEFINE row(g) == [id |-> g, rem |-> G[g].amount]
  <2>1. \A g \in new : row(g) \in Range(Fresh(G, new)) /\ row(g).id = g
    BY <1>3
  <2>2. \A e \in Range(Fresh(G, new)) : e.id \in new
    BY <1>3
  <2>3. \A g \in new : \E e \in Range(Fresh(G, new)) : e.id = g
    BY <2>1
  <2>4. QED
    BY <2>2, <2>3, IdsOfRange
<1>5. all \in Actives /\ Range(all) = Range(st.active) \cup Range(Fresh(G, new))
  <2>1. Ids(st.active) \cap Ids(Fresh(G, new)) = {}
    BY <1>2, <1>4
  <2>2. QED
    BY <1>3, <2>1, ConcatActive
<1> HIDE DEF all, in
<1>6. /\ in.active \in Actives
      /\ \A e : e \in Range(in.active)
               <=> e \in Range(all) /\ ~Expired(G[e.id], p.from)
  <2> DEFINE u == Unexpired(G, all, p.from)
  <2>1. /\ u \in Actives
        /\ \A e : e \in Range(u)
                 <=> e \in Range(all) /\ ~Expired(G[e.id], p.from)
    BY <1>5, UnexpiredActive
  <2> HIDE DEF u
  <2>2. in.active = u
    BY <1>1 DEF u
  <2>3. QED
    BY <2>1, <2>2, Zenon
<1>7. in.seen = st.seen \cup new
  BY <1>1
<1>8. Ids(in.active) \subseteq Ids(st.active) \cup new
  <2>1. \A e \in Range(in.active) :
          e \in Range(st.active) \/ e \in Range(Fresh(G, new))
    BY <1>5, <1>6
  <2>2. \A e \in Range(in.active) : e.id \in Ids(st.active) \cup new
    BY <1>4, <2>1, IdsOfRange
  <2>3. QED
    BY <2>2, IdsOfRange
<1>9. ASSUME NEW e \in Range(in.active)
      PROVE  /\ ~Expired(G[e.id], p.from)
             /\ \/ e \in Range(st.active)
                \/ /\ e.id \in DOMAIN G /\ e.rem = G[e.id].amount
                   /\ G[e.id].effective < p.to
                   /\ p.from <= G[e.id].effective \/ first
  <2>1. ~Expired(G[e.id], p.from)
        /\ (e \in Range(st.active) \/ e \in Range(Fresh(G, new)))
    BY <1>5, <1>6
  <2>2. ASSUME e \in Range(Fresh(G, new))
        PROVE  /\ e.id \in DOMAIN G /\ e.rem = G[e.id].amount
               /\ G[e.id].effective < p.to
               /\ p.from <= G[e.id].effective \/ first
    <3>1. PICK g \in new : e = [id |-> g, rem |-> G[g].amount]
      BY <1>3, <2>2
    <3>2. e.id = g /\ e.rem = G[g].amount
      BY <3>1
    <3>3. QED
      BY <1>2, <3>2
  <2>3. QED
    BY <2>1, <2>2
<1>10. QED
  BY <1>6, <1>7, <1>8, <1>9 DEF in

(* Usage takes from the grants in force what it burns, in burn order, and  *)
(* leaves every grant there.                                               *)
BurntTo(G, a, b, usage, over) ==
  /\ over \in 0 .. usage /\ b \in Actives
  /\ over > 0 => \A e \in Range(b) : e.rem = 0
  /\ \A e \in Range(b) : \E d \in Range(a) : d.id = e.id /\ e.rem <= d.rem
  /\ \A d \in Range(a) : \E e \in Range(b) : d.id = e.id
  /\ \A c, d \in Range(a), e, f \in Range(b) :
       /\ c.id = e.id /\ d.id = f.id
       /\ Precedes(G, c.id, d.id) /\ f.rem < d.rem
       => e.rem = 0
  /\ SumFunction(Rems(a)) - SumFunction(Rems(b)) = usage - over

LEMMA SpendActive ==
  ASSUME NEW G, IsLedger(G), NEW a \in Actives, NEW usage \in Nat,
         Ids(a) \subseteq DOMAIN G
  PROVE  BurntTo(G, a, Spend(G, a, usage).active, usage,
                 Spend(G, a, usage).left)
<1> DEFINE n == Len(a)
           s == Sorted(G, a)
           b == Spend(G, a, usage).active
           over == Spend(G, a, usage).left
<1>1. \A i \in DOMAIN a : a[i].id \in DOMAIN G
  BY DEF Ids
<1>2. /\ s \in Actives /\ Range(s) = Range(a) /\ Len(s) = n
      /\ \A i, j \in 1 .. n : i < j => ~Precedes(G, s[j].id, s[i].id)
  BY <1>1, SortedActive
<1>3. /\ b = Burn(s, usage).active /\ over = Burn(s, usage).left
      /\ n \in Nat /\ DOMAIN s = 1 .. n
  BY <1>2, ActiveTyped DEF Spend
<1> HIDE DEF s, b, over, n
<1>4. /\ over \in 0 .. usage
      /\ b \in Actives /\ DOMAIN b = 1 .. n
      /\ \A i \in 1 .. n : b[i].id = s[i].id /\ b[i].rem <= s[i].rem
      /\ over > 0 => \A i \in 1 .. n : b[i].rem = 0
      /\ \A i, j \in 1 .. n : i < j /\ b[j].rem < s[j].rem => b[i].rem = 0
      /\ SumFunction(Rems(s)) - SumFunction(Rems(b)) = usage - over
  BY <1>2, <1>3, BurnActive
<1>5. over > 0 => \A e \in Range(b) : e.rem = 0
  BY <1>4 DEF Range
<1>6. \A e \in Range(b) : \E d \in Range(a) : d.id = e.id /\ e.rem <= d.rem
  <2> TAKE e \in Range(b)
  <2>1. PICK i \in 1 .. n : e = b[i]
    BY <1>4 DEF Range
  <2>2. s[i] \in Range(s)
    BY <1>3 DEF Range
  <2>3. s[i] \in Range(a) /\ s[i].id = e.id /\ e.rem <= s[i].rem
    BY <1>2, <1>4, <2>1, <2>2
  <2>4. QED
    BY <2>3
<1>7. \A d \in Range(a) : \E e \in Range(b) : d.id = e.id
  <2> SUFFICES ASSUME NEW i \in 1 .. n
               PROVE  \E e \in Range(b) : s[i].id = e.id
    BY <1>2, <1>3 DEF Range
  <2>1. b[i] \in Range(b)
    BY <1>4 DEF Range
  <2>2. QED
    BY <1>4, <2>1
<1>8. ASSUME NEW c \in Range(a), NEW d \in Range(a),
             NEW e \in Range(b), NEW f \in Range(b),
             c.id = e.id, d.id = f.id, Precedes(G, c.id, d.id), f.rem < d.rem
      PROVE  e.rem = 0
  <2>1. PICK i \in 1 .. n : e = b[i]
    BY <1>4 DEF Range
  <2>2. PICK j \in 1 .. n : f = b[j]
    BY <1>4 DEF Range
  <2>3. s[i] \in Range(s) /\ s[j] \in Range(s)
    BY <1>3 DEF Range
  <2>4. s[i] = c /\ s[j] = d
    BY <1>2, <1>4, <1>8, <2>1, <2>2, <2>3, RangeTyped
  <2>5. ~(j < i)
    BY <1>2, <1>8, <2>4
  <2>6. i # j
    <3>1. G[c.id].priority \in Int /\ G[c.id].effective \in Int
      <4>1. c.id \in DOMAIN G
        BY IdsOfRange
      <4>2. QED
        BY <4>1 DEF IsLedger
    <3>2. ~Precedes(G, c.id, c.id)
      BY <3>1 DEF Precedes
    <3>3. QED
      BY <1>8, <2>4, <3>2
  <2>7. i < j
    BY <2>5, <2>6
  <2>8. QED
    BY <1>4, <1>8, <2>1, <2>2, <2>4, <2>7
<1>9. SumFunction(Rems(s)) = SumFunction(Rems(a))
  BY <1>2, TotalSame
<1>10. QED
  BY <1>4, <1>5, <1>6, <1>7, <1>8, <1>9 DEF b, over, BurntTo

(* What may be in force at a boundary of a ledger.                         *)
MayHold(G, cap, at, e) ==
  /\ e.id \in DOMAIN G /\ e.rem \in 1 .. Capped(cap, G[e.id].amount)
  /\ G[e.id].effective < at /\ ~Expired(G[e.id], at)

Sound(G, cap, at, a) == a \in Actives /\ \A e \in Range(a) : MayHold(G, cap, at, e)

LEMMA CapMonotone ==
  ASSUME NEW cap \in Nat \cup {None}, NEW r \in Nat, NEW s \in Nat, r <= s
  PROVE  /\ Capped(cap, r) \in Nat /\ Capped(cap, r) <= r
         /\ Capped(cap, r) <= Capped(cap, s)
BY DEF Capped, None

(* Whatever is carried over a boundary may be in force there.              *)
LEMMA CarrySound ==
  ASSUME NEW G, IsLedger(G), NEW cap \in Nat \cup {None}, NEW a \in Actives,
         NEW at,
         \A e \in Range(a) : /\ e.id \in DOMAIN G /\ e.rem <= G[e.id].amount
                             /\ G[e.id].effective < at
  PROVE  /\ Sound(G, cap, at, CarryOver(G, cap, a, at))
         /\ Ids(CarryOver(G, cap, a, at)) \subseteq Ids(a)
<1> DEFINE u == Unexpired(G, a, at)
           v == CappedAll(cap, u)
           w == CarryOver(G, cap, a, at)
<1>1. /\ u \in Actives
      /\ \A e : e \in Range(u) <=> e \in Range(a) /\ ~Expired(G[e.id], at)
  BY UnexpiredActive
<1>2. w = Unspent(v)
  BY DEF CarryOver
<1> HIDE DEF u, w
<1>3. /\ v \in Actives /\ DOMAIN v = DOMAIN u
      /\ \A i \in DOMAIN u : v[i].id = u[i].id /\ v[i].rem = Capped(cap, u[i].rem)
  BY <1>1, CappedActive
<1> HIDE DEF v
<1>4. w \in Actives /\ \A e : e \in Range(w) <=> e \in Range(v) /\ e.rem > 0
  BY <1>2, <1>3, UnspentActive
<1>5. ASSUME NEW e \in Range(w)
      PROVE  MayHold(G, cap, at, e) /\ e.id \in Ids(a)
  <2>1. PICK i \in DOMAIN u : e = v[i]
    BY <1>3, <1>4 DEF Range
  <2>2. u[i] \in Range(u) /\ u[i] \in Range(a) /\ ~Expired(G[u[i].id], at)
    BY <1>1 DEF Range
  <2>3. e.id = u[i].id /\ e.rem = Capped(cap, u[i].rem) /\ e.rem > 0
    BY <1>3, <1>4, <2>1
  <2>4. u[i].rem \in Nat
    BY <1>1, <2>2, RangeTyped
  <2>5. /\ u[i].id \in DOMAIN G /\ u[i].rem <= G[u[i].id].amount
        /\ G[u[i].id].effective < at /\ G[u[i].id].amount \in Nat
    BY <2>2 DEF IsLedger
  <2>6. /\ Capped(cap, u[i].rem) \in Nat
        /\ Capped(cap, u[i].rem) <= Capped(cap, G[u[i].id].amount)
        /\ Capped(cap, G[u[i].id].amount) \in Nat
    BY <2>4, <2>5, CapMonotone
  <2>7. e.rem \in 1 .. Capped(cap, G[e.id].amount)
    BY <2>3, <2>6
  <2>8. e.id \in Ids(a)
    BY <2>2, <2>3, IdsOfRange
  <2>9. QED
    BY <2>2, <2>3, <2>5, <2>7, <2>8 DEF MayHold
<1>6. Ids(w) \subseteq Ids(a)
  BY <1>5, IdsOfRange
<1>7. QED
  BY <1>4, <1>5, <1>6 DEF Sound, w

(* The state of a walk at a boundary.                                      *)
SoundState(G, cap, at, st) ==
  Sound(G, cap, at, st.active) /\ Ids(st.active) \subseteq st.seen

(* What is in force in a period, before and after its usage: a grant that  *)
(* has begun by its end, whole if it is new to the walk, within the cap if *)
(* it is not.                                                              *)
Worth(G, cap, p, first, g) ==
  IF G[g].effective >= p.from \/ first THEN G[g].amount
  ELSE Capped(cap, G[g].amount)

InForce(G, cap, p, first, e) ==
  /\ e.id \in DOMAIN G /\ e.rem \in 0 .. Worth(G, cap, p, first, e.id)
  /\ G[e.id].effective < p.to /\ ~Expired(G[e.id], p.from)

LEMMA WorthTyped ==
  ASSUME NEW G, IsLedger(G), NEW cap \in Nat \cup {None}, NEW p, NEW first,
         NEW g \in DOMAIN G
  PROVE  /\ Worth(G, cap, p, first, g) \in Nat
         /\ Worth(G, cap, p, first, g) <= G[g].amount
         /\ Capped(cap, G[g].amount) \in Nat
         /\ Capped(cap, G[g].amount) <= Worth(G, cap, p, first, g)
<1>1. G[g].amount \in Nat
  BY DEF IsLedger
<1>2. /\ Capped(cap, G[g].amount) \in Nat
      /\ Capped(cap, G[g].amount) <= G[g].amount
  BY <1>1, CapMonotone
<1>3. QED
  BY <1>1, <1>2 DEF Worth

LEMMA EnterInForce ==
  ASSUME NEW G, IsLedger(G), NEW cap \in Nat \cup {None}, NEW p,
         p.from \in Int, p.to \in Int, p.from <= p.to, NEW first, NEW st,
         SoundState(G, cap, p.from, st)
  PROVE  LET in == Enter(G, st, p, first)
         IN  /\ in.active \in Actives /\ Ids(in.active) \subseteq DOMAIN G
             /\ Ids(in.active) \subseteq in.seen
             /\ \A e \in Range(in.active) : InForce(G, cap, p, first, e)
<1> DEFINE in == Enter(G, st, p, first)
<1>1. /\ st.active \in Actives /\ Ids(st.active) \subseteq st.seen
      /\ \A e \in Range(st.active) : MayHold(G, cap, p.from, e)
  BY DEF SoundState, Sound
<1>2. /\ in.active \in Actives /\ Ids(in.active) \subseteq in.seen
      /\ \A e \in Range(in.active) :
           /\ ~Expired(G[e.id], p.from)
           /\ \/ e \in Range(st.active)
              \/ /\ e.id \in DOMAIN G /\ e.rem = G[e.id].amount
                 /\ G[e.id].effective < p.to
                 /\ p.from <= G[e.id].effective \/ first
  BY <1>1, EnterActive
<1> HIDE DEF in
<1>3. ASSUME NEW e \in Range(in.active)
      PROVE  InForce(G, cap, p, first, e)
  <2>1. CASE e \in Range(st.active)
    <3>1. /\ e.id \in DOMAIN G /\ e.rem \in 1 .. Capped(cap, G[e.id].amount)
          /\ G[e.id].effective < p.from /\ G[e.id].effective \in Int
      BY <1>1, <2>1 DEF MayHold, IsLedger
    <3> DEFINE w == Worth(G, cap, p, first, e.id)
               c == Capped(cap, G[e.id].amount)
    <3>2. w \in Nat /\ c \in Nat /\ c <= w
      BY <3>1, WorthTyped
    <3>3. e.rem \in 1 .. c
      BY <3>1
    <3> HIDE DEF w, c
    <3>4. e.rem \in 0 .. w
      BY <3>2, <3>3
    <3>5. QED
      BY <1>2, <3>1, <3>4 DEF InForce, w
  <2>2. CASE e \notin Range(st.active)
    <3>1. /\ e.id \in DOMAIN G /\ e.rem = G[e.id].amount
          /\ G[e.id].effective < p.to
          /\ p.from <= G[e.id].effective \/ first
      BY <1>2, <2>2
    <3>2. G[e.id].amount \in Nat /\ G[e.id].effective \in Int
      BY <3>1 DEF IsLedger
    <3>3. Worth(G, cap, p, first, e.id) = G[e.id].amount
      BY <3>1, <3>2 DEF Worth
    <3>4. QED
      BY <1>2, <3>1, <3>2, <3>3 DEF InForce
  <2>3. QED
    BY <2>1, <2>2
<1>4. Ids(in.active) \subseteq DOMAIN G
  BY <1>3, IdsOfRange DEF InForce
<1>5. QED
  BY <1>2, <1>3, <1>4 DEF in

LEMMA SpendInForce ==
  ASSUME NEW G, IsLedger(G), NEW cap \in Nat \cup {None}, NEW p, NEW first,
         NEW a \in Actives, Ids(a) \subseteq DOMAIN G, NEW usage \in Nat,
         \A e \in Range(a) : InForce(G, cap, p, first, e)
  PROVE  LET b == Spend(G, a, usage)
         IN  /\ b.active \in Actives /\ Ids(b.active) \subseteq Ids(a)
             /\ b.left \in 0 .. usage
             /\ \A e \in Range(b.active) : InForce(G, cap, p, first, e)
<1> DEFINE b == Spend(G, a, usage)
<1>1. /\ b.active \in Actives /\ b.left \in 0 .. usage
      /\ \A e \in Range(b.active) :
           \E d \in Range(a) : d.id = e.id /\ e.rem <= d.rem
  BY SpendActive DEF BurntTo
<1> HIDE DEF b
<1>2. ASSUME NEW e \in Range(b.active)
      PROVE  InForce(G, cap, p, first, e) /\ e.id \in Ids(a)
  <2>1. PICK d \in Range(a) : d.id = e.id /\ e.rem <= d.rem
    BY <1>1
  <2>2. InForce(G, cap, p, first, d) /\ e.rem \in Nat
    BY <1>1, RangeTyped
  <2>3. d.id \in DOMAIN G /\ d.rem \in 0 .. Worth(G, cap, p, first, d.id)
    BY <2>2 DEF InForce
  <2>4. Worth(G, cap, p, first, d.id) \in Nat
    BY <2>3, WorthTyped
  <2>5. e.rem \in 0 .. Worth(G, cap, p, first, e.id)
    <3> DEFINE w == Worth(G, cap, p, first, d.id)
    <3>1. w \in Nat /\ d.rem \in 0 .. w
      BY <2>3, <2>4
    <3> HIDE DEF w
    <3>2. e.rem \in 0 .. w
      BY <2>1, <2>2, <3>1
    <3>3. QED
      BY <2>1, <3>2 DEF w
  <2>6. e.id \in Ids(a)
    BY <2>1, IdsOfRange
  <2>7. QED
    BY <2>1, <2>2, <2>5, <2>6 DEF InForce
<1>3. Ids(b.active) \subseteq Ids(a)
  BY <1>2, IdsOfRange
<1>4. QED
  BY <1>1, <1>2, <1>3 DEF b

(* A turn of the period loop keeps the walk sound.                         *)
LEMMA EvalSound ==
  ASSUME NEW G, IsLedger(G), NEW cap \in Nat \cup {None}, NEW p,
         p.from \in Int, p.to \in Int, p.from <= p.to, NEW first, NEW st,
         SoundState(G, cap, p.from, st), NEW usage \in Nat
  PROVE  LET done == EvalPeriod(G, cap, st, p, first, FALSE, usage)
             last == EvalPeriod(G, cap, st, p, first, TRUE, usage)
         IN  /\ SoundState(G, cap, p.to, done)
             /\ last.active \in Actives
             /\ \A e \in Range(last.active) : InForce(G, cap, p, first, e)
<1> DEFINE in == Enter(G, st, p, first)
           b == Spend(G, in.active, usage)
           done == EvalPeriod(G, cap, st, p, first, FALSE, usage)
           last == EvalPeriod(G, cap, st, p, first, TRUE, usage)
<1>1. /\ done.active = CarryOver(G, cap, b.active, p.to) /\ done.seen = in.seen
      /\ last.active = b.active
  BY DEF EvalPeriod
<1>2. /\ in.active \in Actives /\ Ids(in.active) \subseteq DOMAIN G
      /\ Ids(in.active) \subseteq in.seen
      /\ \A e \in Range(in.active) : InForce(G, cap, p, first, e)
  BY EnterInForce
<1> HIDE DEF in, done, last
<1>3. /\ b.active \in Actives /\ Ids(b.active) \subseteq Ids(in.active)
      /\ \A e \in Range(b.active) : InForce(G, cap, p, first, e)
  BY <1>2, SpendInForce
<1> HIDE DEF b
<1>4. ASSUME NEW e \in Range(b.active)
      PROVE  /\ e.id \in DOMAIN G /\ e.rem <= G[e.id].amount
             /\ G[e.id].effective < p.to
  <2>1. /\ e.id \in DOMAIN G /\ e.rem \in 0 .. Worth(G, cap, p, first, e.id)
        /\ G[e.id].effective < p.to
    BY <1>3 DEF InForce
  <2>2. /\ Worth(G, cap, p, first, e.id) \in Nat /\ G[e.id].amount \in Nat
        /\ Worth(G, cap, p, first, e.id) <= G[e.id].amount
    BY <2>1, WorthTyped DEF IsLedger
  <2>3. QED
    BY <2>1, <2>2
<1>5. /\ Sound(G, cap, p.to, CarryOver(G, cap, b.active, p.to))
      /\ Ids(CarryOver(G, cap, b.active, p.to)) \subseteq Ids(b.active)
  BY <1>3, <1>4, CarrySound
<1>6. SoundState(G, cap, p.to, done)
  BY <1>1, <1>2, <1>3, <1>5 DEF SoundState
<1>7. QED
  BY <1>1, <1>3, <1>6 DEF done, last

----------------------------------------------------------------------------
(* A ledger with fewer grants, of the same amounts and times.              *)
Within(G, H) ==
  /\ DOMAIN G \subseteq DOMAIN H
  /\ \A g \in DOMAIN G : /\ G[g].amount = H[g].amount
                         /\ G[g].effective = H[g].effective
                         /\ G[g].expires = H[g].expires

LEMMA HoldStays ==
  ASSUME NEW G, NEW H, Within(G, H), NEW cap, NEW at, NEW e,
         e.id \in DOMAIN G
  PROVE  MayHold(G, cap, at, e) <=> MayHold(H, cap, at, e)
BY DEF Within, MayHold, Expired

LEMMA SoundStays ==
  ASSUME NEW G, NEW H, Within(G, H), NEW cap, NEW at, NEW a,
         Sound(G, cap, at, a)
  PROVE  Sound(H, cap, at, a)
<1>1. ASSUME NEW e \in Range(a) PROVE MayHold(H, cap, at, e)
  <2>1. MayHold(G, cap, at, e) /\ e.id \in DOMAIN G
    BY DEF Sound, MayHold
  <2>2. QED
    BY <2>1, HoldStays
<1>2. QED
  BY <1>1 DEF Sound

LEMMA EmptySound ==
  ASSUME NEW G, NEW cap, NEW at
  PROVE  Sound(G, cap, at, << >>)
<1>1. << >> \in Actives /\ Range(<< >>) = {}
  BY DEF Actives, Range
<1>2. QED
  BY <1>1 DEF Sound

(* A walk begins sound, whether the seed fits or not.                      *)
LEMMA StartSound ==
  ASSUME NEW G, NEW H, Within(G, H), NEW cap, NEW P, NEW seed,
         Sound(H, cap, seed.asOf, seed.active)
  PROVE  SoundState(G, cap, P[StartAt(P, seed)].from, StartState(G, P, seed))
<1> DEFINE i == StartAt(P, seed)
           st == StartState(G, P, seed)
<1>1. CASE ~SeedFits(P, seed)
  <2>1. st.active = << >> /\ Ids(<< >>) = {}
    BY <1>1 DEF StartState, Blank, Ids
  <2> HIDE DEF st
  <2>2. QED
    BY <2>1, EmptySound DEF SoundState, st
<1>2. CASE SeedFits(P, seed)
  <2> DEFINE u == Unvoided(G, seed.active)
  <2>1. P[i].from = seed.asOf
    BY <1>2 DEF SeedFits, StartAt
  <2>2. st.active = u /\ st.seen = Ids(u)
    BY <1>2 DEF StartState
  <2>3. /\ u \in Actives
        /\ \A e : e \in Range(u) <=> e \in Range(seed.active) /\ e.id \in DOMAIN G
    BY UnvoidedActive DEF Sound
  <2> HIDE DEF st, i, u
  <2>4. ASSUME NEW e \in Range(u) PROVE MayHold(G, cap, seed.asOf, e)
    <3>1. e.id \in DOMAIN G /\ MayHold(H, cap, seed.asOf, e)
      BY <2>3 DEF Sound
    <3>2. QED
      BY <3>1, HoldStays
  <2>5. Sound(G, cap, P[i].from, u)
    BY <2>1, <2>3, <2>4 DEF Sound
  <2>6. QED
    BY <2>2, <2>5 DEF SoundState, st, i
<1>3. QED
  BY <1>1, <1>2

(* Each grant once is as many grants as entries.                           *)
LEMMA IdsCounted ==
  ASSUME NEW a \in Actives
  PROVE  Cardinality(Ids(a)) = Len(a)
<1> DEFINE h == [i \in 1 .. Len(a) |-> a[i].id]
<1>1. /\ Len(a) \in Nat /\ DOMAIN a = 1 .. Len(a)
      /\ \A i, j \in 1 .. Len(a) : a[i].id = a[j].id => i = j
  BY ActiveTyped
<1>2. h \in Bijection(1 .. Len(a), Ids(a))
  BY <1>1 DEF Ids, Bijection, Injection, Surjection, IsInjective
<1>3. IsFiniteSet(1 .. Len(a)) /\ Cardinality(1 .. Len(a)) = Len(a)
  BY <1>1, FS_Interval
<1>4. QED
  BY <1>2, <1>3, FS_Bijection DEF ExistsBijection

----------------------------------------------------------------------------
(* The walk.                                                               *)
UpTo(t, P, i) == IF i = Len(P) THEN t ELSE P[i].to

Used(t, usage, P, i) == usage[<<P[i].from, UpTo(t, P, i)>>]

Turn(t, ent, G, usage, P, start, st, i) ==
  EvalPeriod(G, ent.cap, st, P[i], i = start, i = Len(P),
             Used(t, usage, P, i))

(* w holds the states of the walk over P from start, up to the k-th.       *)
Walks(w, t, ent, G, usage, P, start, st, k) ==
  w = [i \in start - 1 .. k |->
         IF i = start - 1 THEN st
         ELSE Turn(t, ent, G, usage, P, start, w[i - 1], i)]

LEMMA WalksExist ==
  ASSUME NEW t, NEW ent, NEW G, NEW usage, NEW P, NEW st,
         NEW start \in Int, NEW n \in Nat
  PROVE  \E w : Walks(w, t, ent, G, usage, P, start, st, start - 1 + n)
<1> DEFINE Op(x, i) == Turn(t, ent, G, usage, P, start, x, i)
           Does(w, k) == w = [i \in start - 1 .. start - 1 + k |->
                                IF i = start - 1 THEN st ELSE Op(w[i - 1], i)]
           Some(k) == \E w : Does(w, k)
           C == {k \in 0 .. n : Some(k)}
<1> HIDE DEF Op
<1>1. 0 \in C
  <2> DEFINE w == [i \in start - 1 .. start - 1 + 0 |-> st]
  <2>1. \A i \in start - 1 .. start - 1 + 0 : i = start - 1
    OBVIOUS
  <2>2. w = [i \in start - 1 .. start - 1 + 0 |->
               IF i = start - 1 THEN st ELSE Op(w[i - 1], i)]
    BY <2>1
  <2> HIDE DEF w
  <2>3. Some(0)
    BY <2>2
  <2> HIDE DEF Some
  <2>4. QED
    BY <2>3
<1>2. ASSUME NEW k \in 0 .. n, k # 0, k - 1 \in C
      PROVE  k \in C
  <2>1. PICK f : Does(f, k - 1)
    BY <1>2
  <2> DEFINE m == start - 1
             w == [i \in m .. m + k |->
                     IF i \in m .. m + k - 1 THEN f[i]
                     ELSE Op(f[m + k - 1], m + k)]
  <2>2. ASSUME NEW i \in m .. m + k
        PROVE  w[i] = IF i = m THEN st ELSE Op(w[i - 1], i)
    <3>1. CASE i = m + k
      <4>1. /\ i \notin m .. m + k - 1 /\ m + k - 1 \in m .. m + k - 1
            /\ m + k - 1 \in m .. m + k /\ i # m /\ i - 1 = m + k - 1
        BY <1>2, <3>1
      <4>2. w[i] = Op(f[m + k - 1], m + k)
        BY <4>1
      <4>3. w[m + k - 1] = f[m + k - 1]
        BY <4>1
      <4> HIDE DEF w
      <4>4. QED
        BY <3>1, <4>1, <4>2, <4>3
    <3>2. CASE i # m + k
      <4>1. /\ i \in m .. m + k - 1
            /\ i # m => i - 1 \in m .. m + k - 1 /\ i - 1 \in m .. m + k
        BY <3>2
      <4>2. w[i] = f[i] /\ (i # m => w[i - 1] = f[i - 1])
        BY <4>1
      <4>3. f[i] = IF i = m THEN st ELSE Op(f[i - 1], i)
        <5>1. m + (k - 1) = m + k - 1
          BY <1>2
        <5>2. QED
          BY <2>1, <4>1, <5>1
      <4> HIDE DEF w
      <4>4. QED
        BY <4>2, <4>3
    <3>3. QED
      BY <3>1, <3>2
  <2>3. w = [i \in m .. m + k |-> w[i]]
    OBVIOUS
  <2> HIDE DEF w
  <2>4. w = [i \in m .. m + k |-> IF i = m THEN st ELSE Op(w[i - 1], i)]
    BY <2>2, <2>3
  <2>5. Some(k)
    BY <2>4
  <2> HIDE DEF Some
  <2>6. QED
    BY <2>5
<1>3. n \in C
  <2> HIDE DEF C
  <2>1. QED
    BY <1>1, <1>2, CountInduction
<1>4. QED
  BY <1>3 DEF Walks, Op

(* So Walk is one.                                                         *)
LEMMA WalkTurns ==
  ASSUME NEW t, NEW ent, NEW G, NEW usage, NEW seed,
         NEW P, P = Periods(Anchor(ent), ent.dur, t),
         Len(P) \in Nat \ {0}, NEW start \in 1 .. Len(P),
         start = StartAt(P, seed)
  PROVE  LET w == Walk(t, ent, G, usage, seed)
         IN  /\ DOMAIN w = start - 1 .. Len(P)
             /\ w[start - 1] = StartState(G, P, seed)
             /\ \A i \in start .. Len(P) :
                  w[i] = Turn(t, ent, G, usage, P, start, w[i - 1], i)
<1> DEFINE n == Len(P)
           Does(w) == Walks(w, t, ent, G, usage, P, start,
                            StartState(G, P, seed), n)
           w == CHOOSE w : Does(w)
<1>1. \E x : Does(x)
  <2>1. n - start + 1 \in Nat /\ start - 1 + (n - start + 1) = n
        /\ start \in Int
    OBVIOUS
  <2>2. PICK m : m = n - start + 1
    OBVIOUS
  <2>3. \E x : Walks(x, t, ent, G, usage, P, start, StartState(G, P, seed),
                     start - 1 + m)
    BY <2>1, <2>2, WalksExist
  <2>4. QED
    BY <2>1, <2>2, <2>3
<1>2. Does(w)
  BY <1>1
<1>3. Walk(t, ent, G, usage, seed) = w
  BY DEF Walk, Walks, Turn, Used, UpTo
<1> HIDE DEF w
<1>4. w = [i \in start - 1 .. n |->
             IF i = start - 1 THEN StartState(G, P, seed)
             ELSE Turn(t, ent, G, usage, P, start, w[i - 1], i)]
  BY <1>2 DEF Walks
<1>5. /\ start - 1 \in start - 1 .. n
      /\ \A i \in start .. n : i \in start - 1 .. n /\ i # start - 1
  OBVIOUS
<1>6. QED
  BY <1>3, <1>4, <1>5

(* Before the anchor there is one period only.                             *)
LEMMA FirstNear ==
  ASSUME NEW anchor \in Int, NEW dur \in Nat \ {0}, NEW t \in Int
  PROVE  FirstFrom(anchor, dur, t) = anchor \/ t - dur < FirstFrom(anchor, dur, t)
<1>1. CASE anchor <= t
  BY <1>1 DEF FirstFrom
<1>2. CASE ~(anchor <= t)
  <2> DEFINE y == anchor - t + dur - 1
             q == y \div dur
  <2>1. y \in Int /\ q \in Int
    BY Quotient
  <2>2. dur * q \in Int /\ dur * q <= y
    BY <2>1, Quotient
  <2>3. FirstFrom(anchor, dur, t) = anchor - dur * q
    BY <1>2 DEF FirstFrom
  <2>4. QED
    BY <2>2, <2>3
<1>3. QED
  BY <1>1, <1>2

(* From a sound seed the walk is sound, period by period.                  *)
LEMMA WalkSound ==
  ASSUME NEW G, IsLedger(G), NEW H, Within(G, H), NEW t, NEW ent,
         Anchor(ent) \in Int, ent.dur \in Nat \ {0}, t \in Int,
         ent.cap \in Nat \cup {None},
         NEW usage,
         NEW seed, Sound(H, ent.cap, seed.asOf, seed.active),
         NEW P, P = Periods(Anchor(ent), ent.dur, t),
         NEW start, start = StartAt(P, seed),
         \A i \in 1 .. Len(P) : Used(t, usage, P, i) \in Nat
  PROVE  /\ start \in 1 .. Len(P)
         /\ \A i \in start .. Len(P) :
              /\ P[i].from \in Int /\ P[i].to \in Int /\ P[i].from <= P[i].to
              /\ SoundState(G, ent.cap, P[i].from,
                            Walk(t, ent, G, usage, seed)[i - 1])
<1> DEFINE n == Len(P)
           w == Walk(t, ent, G, usage, seed)
<1>1. /\ n \in Nat \ {0} /\ DOMAIN P = 1 .. n
      /\ \A i \in 1 .. n : /\ P[i].from \in Int /\ P[i].to \in Int
                           /\ P[i].from <= P[i].to
      /\ \A i \in 1 .. n : i > 1 => P[i].from = P[i - 1].to
  BY PeriodsTyped, Zenon
<1>2. start \in 1 .. n
  BY <1>1 DEF StartAt, SeedFits
<1>3. /\ w[start - 1] = StartState(G, P, seed)
      /\ \A i \in start .. n :
           w[i] = Turn(t, ent, G, usage, P, start, w[i - 1], i)
  BY <1>1, <1>2, WalkTurns
<1> HIDE DEF w
<1> DEFINE Good(i) == SoundState(G, ent.cap, P[i].from, w[i - 1])
           C == {k \in 0 .. n - start : Good(start + k)}
<1>5. 0 \in C
  <2>1. SoundState(G, ent.cap, P[start].from, StartState(G, P, seed))
    BY StartSound
  <2>2. start + 0 = start /\ 0 \in 0 .. n - start
    BY <1>1, <1>2
  <2>3. QED
    BY <1>3, <2>1, <2>2
<1>6. ASSUME NEW k \in 0 .. n - start, k # 0, k - 1 \in C
      PROVE  k \in C
  <2> DEFINE j == start + k - 1
             first == j = start
             u == Used(t, usage, P, j)
             p == P[j]
             z == w[j - 1]
  <2>1. /\ j \in start .. n /\ j \in 1 .. n /\ j + 1 \in 1 .. n /\ j # n
        /\ start + (k - 1) = j /\ start + k = j + 1 /\ j + 1 - 1 = j
        /\ j + 1 > 1
    <3>1. n \in Int /\ start \in 1 .. n /\ k \in 1 .. n - start
      BY <1>1, <1>2, <1>6
    <3> HIDE DEF n
    <3>2. QED
      BY <3>1
  <2>2. Good(j)
    BY <1>6, <2>1
  <2> HIDE DEF j
  <2>3. P[j + 1].from = P[j].to
    <3>1. PICK m : m = j + 1
      OBVIOUS
    <3>2. m \in 1 .. n /\ m > 1 /\ m - 1 = j
      BY <2>1, <3>1
    <3>3. P[m].from = P[m - 1].to
      BY <1>1, <3>2
    <3>4. QED
      BY <3>1, <3>2, <3>3
  <2>4. w[j] = EvalPeriod(G, ent.cap, z, p, first, FALSE, u)
    <3>1. (j = n) = FALSE
      BY <2>1
    <3>2. w[j] = Turn(t, ent, G, usage, P, start, w[j - 1], j)
      BY <1>3, <2>1
    <3>3. QED
      BY <3>1, <3>2, Zenon DEF Turn
  <2>5. /\ p.from \in Int /\ p.to \in Int /\ p.from <= p.to /\ u \in Nat
        /\ SoundState(G, ent.cap, p.from, z)
    BY <1>1, <2>1, <2>2
  <2> HIDE DEF p, z, u, first
  <2>6. SoundState(G, ent.cap, p.to,
                   EvalPeriod(G, ent.cap, z, p, first, FALSE, u))
    BY <2>5, EvalSound
  <2>7. SoundState(G, ent.cap, P[j + 1].from, w[j])
    BY <2>3, <2>4, <2>6 DEF p
  <2>8. QED
    BY <2>1, <2>7
<1>7. ASSUME NEW i \in start .. n
      PROVE  Good(i)
  <2>1. n - start \in Nat /\ i - start \in 0 .. n - start
        /\ start + (i - start) = i
    BY <1>1, <1>2
  <2> HIDE DEF C
  <2>2. \A k \in 0 .. n - start : k \in C
    BY <1>5, <1>6, <2>1, CountInduction
  <2>3. i - start \in C
    BY <2>1, <2>2
  <2>4. QED
    BY <2>1, <2>3 DEF C
<1>8. \A i \in start .. n : i \in 1 .. n
  BY <1>2
<1>9. QED
  BY <1>1, <1>2, <1>7, <1>8 DEF w

----------------------------------------------------------------------------
(* Two walks.  What is in force is a sequence, and two of the same entries *)
(* in the same order are the same.                                         *)
InOrder(a, R) == \A i, j \in DOMAIN a : i < j => <<a[i], a[j]>> \in R

LEMMA OrderUnique ==
  ASSUME NEW a \in Actives, NEW b \in Actives, Range(a) = Range(b), NEW R,
         \A x, y : ~(<<x, y>> \in R /\ <<y, x>> \in R),
         InOrder(a, R), InOrder(b, R)
  PROVE  a = b
<1> DEFINE n == Len(a)
<1>1. /\ n \in Nat /\ DOMAIN a = 1 .. n /\ a \in [1 .. n -> Entry]
      /\ \A i, j \in 1 .. n : a[i].id = a[j].id => i = j
  BY ActiveTyped
<1>2. Len(b) = n
  <2>1. Ids(a) = Ids(b)
    BY IdsOfRange
  <2>2. QED
    BY <2>1, IdsCounted
<1>3. /\ DOMAIN b = 1 .. n /\ b \in [1 .. n -> Entry]
      /\ \A i, j \in 1 .. n : b[i].id = b[j].id => i = j
  BY <1>2, ActiveTyped
<1> HIDE DEF n
<1> DEFINE Bad == {i \in 1 .. n : a[i] # b[i]}
<1>4. Bad = {}
  <2>1. SUFFICES ASSUME Bad # {} PROVE FALSE
    OBVIOUS
  <2>2. PICK i \in Bad : \A m \in Bad : i <= m
    <3>1. Bad \in SUBSET Nat
      OBVIOUS
    <3> HIDE DEF Bad
    <3>2. QED
      BY <2>1, <3>1, LeastNat
  <2>3. i \in 1 .. n /\ a[i] # b[i] /\ \A m \in 1 .. n : m < i => a[m] = b[m]
    BY <2>2
  <2>4. PICK j \in 1 .. n : a[j] = b[i]
    <3>1. b[i] \in Range(a)
      BY <1>3, <2>3 DEF Range
    <3>2. QED
      BY <1>1, <3>1 DEF Range
  <2>5. PICK l \in 1 .. n : b[l] = a[i]
    <3>1. a[i] \in Range(b)
      BY <1>1, <2>3 DEF Range
    <3>2. QED
      BY <1>3, <3>1 DEF Range
  <2>6. i < j
    <3>1. ~(j < i)
      <4>1. SUFFICES ASSUME j < i PROVE FALSE
        OBVIOUS
      <4>2. b[j] = b[i]
        BY <2>3, <2>4, <4>1
      <4>3. j = i
        BY <1>3, <2>3, <4>2
      <4>4. QED
        BY <4>1, <4>3
    <3>2. j # i
      BY <2>3, <2>4
    <3>3. QED
      BY <1>1, <2>3, <3>1, <3>2
  <2>7. i < l
    <3>1. ~(l < i)
      <4>1. SUFFICES ASSUME l < i PROVE FALSE
        OBVIOUS
      <4>2. a[l] = a[i]
        BY <2>3, <2>5, <4>1
      <4>3. l = i
        BY <1>1, <2>3, <4>2
      <4>4. QED
        BY <4>1, <4>3
    <3>2. l # i
      BY <2>3, <2>5
    <3>3. QED
      BY <1>1, <2>3, <3>1, <3>2
  <2>8. <<a[i], b[i]>> \in R /\ <<b[i], a[i]>> \in R
    BY <1>1, <1>3, <2>3, <2>4, <2>5, <2>6, <2>7 DEF InOrder
  <2>9. QED
    BY <2>8
<1>5. \A i \in 1 .. n : a[i] = b[i]
  BY <1>4
<1>6. QED
  BY <1>1, <1>3, <1>5

LEMMA KeptInOrder ==
  ASSUME NEW a \in Actives, NEW I \in SUBSET DOMAIN a, NEW R, InOrder(a, R)
  PROVE  InOrder(Kept(a, I), R)
<1> DEFINE n == Cardinality(I)
           h == Ascending(I)
<1>1. I \in SUBSET Int /\ IsFiniteSet(I)
  BY ActiveTyped, FS_Subset
<1>2. /\ n \in Nat /\ h \in [1 .. n -> I]
      /\ \A i, j \in 1 .. n : i < j => h[i] < h[j]
  BY <1>1, ArrangedNumbers, Zenon
<1>3. Kept(a, I) = [i \in 1 .. n |-> a[h[i]]]
  BY <1>2 DEF Kept
<1> HIDE DEF h, n
<1>4. QED
  BY <1>2, <1>3 DEF InOrder

(* Grants taken in come after those of before, by id.                      *)
Listed(a) ==
  {p \in Entry \X Entry :
     \/ \E i, j \in DOMAIN a : i < j /\ p[1] = a[i] /\ p[2] = a[j]
     \/ p[1] \in Range(a) /\ p[2] \notin Range(a)
     \/ p[1] \notin Range(a) /\ p[2] \notin Range(a) /\ p[1].id < p[2].id}

LEMMA ListedStrict ==
  ASSUME NEW a \in Actives
  PROVE  \A x, y : ~(<<x, y>> \in Listed(a) /\ <<y, x>> \in Listed(a))
<1> SUFFICES ASSUME NEW x, NEW y, <<x, y>> \in Listed(a), <<y, x>> \in Listed(a)
             PROVE  FALSE
  OBVIOUS
<1>1. x \in Entry /\ y \in Entry /\ x.id \in Nat /\ y.id \in Nat
  BY DEF Listed, Entry
<1>2. /\ \/ \E i, j \in DOMAIN a : i < j /\ x = a[i] /\ y = a[j]
         \/ x \in Range(a) /\ y \notin Range(a)
         \/ x \notin Range(a) /\ y \notin Range(a) /\ x.id < y.id
      /\ \/ \E i, j \in DOMAIN a : i < j /\ y = a[i] /\ x = a[j]
         \/ y \in Range(a) /\ x \notin Range(a)
         \/ y \notin Range(a) /\ x \notin Range(a) /\ y.id < x.id
  BY DEF Listed
<1>3. /\ DOMAIN a = 1 .. Len(a) /\ Len(a) \in Nat
      /\ \A i, j \in DOMAIN a : a[i] = a[j] => i = j
  BY ActiveTyped
<1>4. ASSUME NEW i \in DOMAIN a, NEW j \in DOMAIN a, i < j,
             x = a[i], y = a[j]
      PROVE  FALSE
  <2>1. x \in Range(a) /\ y \in Range(a)
    BY <1>4 DEF Range
  <2>2. PICK k, l \in DOMAIN a : k < l /\ y = a[k] /\ x = a[l]
    BY <1>2, <2>1
  <2>3. k = j /\ l = i
    BY <1>3, <1>4, <2>2
  <2>4. QED
    BY <1>3, <1>4, <2>2, <2>3
<1>5. CASE x \in Range(a)
  <2>1. y \notin Range(a)
    BY <1>2, <1>4, <1>5
  <2>2. \A i \in DOMAIN a : y # a[i]
    BY <2>1 DEF Range
  <2>3. QED
    BY <1>2, <1>5, <2>1, <2>2
<1>6. CASE x \notin Range(a)
  <2>1. \A i \in DOMAIN a : x # a[i]
    BY <1>6 DEF Range
  <2>2. y \notin Range(a) /\ x.id < y.id
    BY <1>2, <1>6, <2>1
  <2>3. y.id < x.id
    BY <1>2, <1>6, <2>1, <2>2
  <2>4. QED
    BY <1>1, <2>2, <2>3
<1>7. QED
  BY <1>5, <1>6

LEMMA FreshAscends ==
  ASSUME NEW G, IsLedger(G), NEW ids \in SUBSET DOMAIN G
  PROVE  /\ Ids(Fresh(G, ids)) = ids
         /\ \A i, j \in DOMAIN Fresh(G, ids) :
              i < j => Fresh(G, ids)[i].id < Fresh(G, ids)[j].id
<1> DEFINE n == Cardinality(ids)
           order == Ascending(ids)
           s == Fresh(G, ids)
<1>1. ids \in SUBSET Int /\ IsFiniteSet(ids)
  BY FS_Subset DEF IsLedger
<1>2. /\ n \in Nat /\ order \in [1 .. n -> ids]
      /\ \A i, j \in 1 .. n : i < j => order[i] < order[j]
      /\ \A g \in ids : \E i \in 1 .. n : order[i] = g
  BY <1>1, ArrangedNumbers, Zenon
<1>3. s = [k \in 1 .. n |-> [id |-> order[k], rem |-> G[order[k]].amount]]
  BY <1>2 DEF Fresh
<1> HIDE DEF n, order, s
<1>4. DOMAIN s = 1 .. n /\ \A i \in 1 .. n : s[i].id = order[i]
  BY <1>3
<1>5. Ids(s) = ids
  BY <1>2, <1>4 DEF Ids
<1>6. QED
  BY <1>2, <1>4, <1>5 DEF s

LEMMA EnteredListed ==
  ASSUME NEW a \in Actives, NEW b \in Actives, Ids(a) \cap Ids(b) = {},
         \A i, j \in DOMAIN b : i < j => b[i].id < b[j].id
  PROVE  InOrder(a \o b, Listed(a))
<1> DEFINE m == Len(a)
           n == Len(b)
           c == a \o b
<1>1. /\ m \in Nat /\ DOMAIN a = 1 .. m /\ n \in Nat /\ DOMAIN b = 1 .. n
      /\ a \in Seq(Entry) /\ b \in Seq(Entry)
      /\ \A i \in 1 .. m : a[i] \in Entry
      /\ \A i \in 1 .. n : b[i] \in Entry
  BY ActiveTyped DEF Actives
<1>2. /\ c \in Seq(Entry) /\ Len(c) = m + n
      /\ \A i \in 1 .. m + n : c[i] = IF i <= m THEN a[i] ELSE b[i - m]
  BY <1>1, ConcatProperties
<1> HIDE DEF c, m, n
<1>3. DOMAIN c = 1 .. m + n
  BY <1>1, <1>2, LenProperties
<1>4. \A i \in 1 .. n : b[i] \notin Range(a)
  BY <1>1 DEF Ids, Range
<1>5. ASSUME NEW i \in 1 .. m + n, NEW j \in 1 .. m + n, i < j
      PROVE  <<c[i], c[j]>> \in Listed(a)
  <2>1. CASE j <= m
    <3>1. i \in 1 .. m /\ j \in 1 .. m /\ c[i] = a[i] /\ c[j] = a[j]
      BY <1>1, <1>2, <1>5, <2>1
    <3>2. QED
      BY <1>1, <1>5, <3>1 DEF Listed
  <2>2. CASE ~(j <= m) /\ i <= m
    <3>1. i \in 1 .. m /\ j - m \in 1 .. n /\ c[i] = a[i] /\ c[j] = b[j - m]
      BY <1>1, <1>2, <1>5, <2>2
    <3>2. c[i] \in Range(a) /\ c[j] \notin Range(a)
      BY <1>1, <1>4, <3>1 DEF Range
    <3>3. c[i] \in Entry /\ c[j] \in Entry
      BY <1>1, <3>1
    <3>4. QED
      BY <3>2, <3>3 DEF Listed
  <2>3. CASE ~(j <= m) /\ ~(i <= m)
    <3>1. PICK k, l : k = i - m /\ l = j - m
      OBVIOUS
    <3>2. k \in 1 .. n /\ l \in 1 .. n /\ k < l /\ c[i] = b[k] /\ c[j] = b[l]
      BY <1>1, <1>2, <1>5, <2>3, <3>1
    <3>3. /\ c[i] \notin Range(a) /\ c[j] \notin Range(a) /\ c[i].id < c[j].id
          /\ c[i] \in Entry /\ c[j] \in Entry
      BY <1>1, <1>4, <3>2
    <3>4. QED
      BY <3>3 DEF Listed
  <2>4. QED
    BY <2>1, <2>2, <2>3
<1>6. QED
  BY <1>3, <1>5 DEF InOrder, c

----------------------------------------------------------------------------
(* Periods counted from where the first begins.                            *)
LEMMA TimesMonotone ==
  ASSUME NEW d \in Nat \ {0}, NEW x \in Int, NEW y \in Int
  PROVE  /\ x * d \in Int /\ y * d \in Int /\ (x + 1) * d = x * d + d
         /\ x <= y => x * d <= y * d
         /\ x < y => x * d + d <= y * d
         /\ x * d = y * d => x = y
<1>1. /\ x * d \in Int /\ y * d \in Int /\ (x + 1) * d = x * d + d
  OBVIOUS
<1>2. \A z \in Nat : z * d \in Nat /\ (z > 0 => z * d >= d)
  OBVIOUS
<1>3. ASSUME x < y PROVE x * d + d <= y * d
  <2>1. y - x \in Nat /\ y - x > 0
    BY <1>3
  <2>2. (y - x) * d >= d
    BY <1>2, <2>1
  <2>3. (y - x) * d = y * d - x * d
    OBVIOUS
  <2>4. QED
    BY <1>1, <2>2, <2>3
<1>4. ASSUME y < x PROVE y * d + d <= x * d
  <2>1. x - y \in Nat /\ x - y > 0
    BY <1>4
  <2>2. (x - y) * d >= d
    BY <1>2, <2>1
  <2>3. (x - y) * d = x * d - y * d
    OBVIOUS
  <2>4. QED
    BY <1>1, <2>2, <2>3
<1>5. QED
  BY <1>1, <1>3, <1>4

Shaped(P, from, anchor, dur, t) ==
  /\ Len(P) \in Nat \ {0} /\ DOMAIN P = 1 .. Len(P)
  /\ from \in Int /\ from <= t
  /\ \A i \in 1 .. Len(P) :
       /\ P[i].from = from + (i - 1) * dur
       /\ P[i].to = from + i * dur
       /\ P[i] = [from |-> from + (i - 1) * dur, to |-> from + i * dur]
  /\ from + (Len(P) - 1) * dur <= t
  /\ t < from + Len(P) * dur
  /\ anchor <= t => from = anchor
  /\ t < anchor => from < anchor /\ Len(P) = 1

LEMMA PeriodsAre ==
  ASSUME NEW anchor \in Int, NEW dur \in Nat \ {0}, NEW t \in Int
  PROVE  Shaped(Periods(anchor, dur, t), FirstFrom(anchor, dur, t),
                anchor, dur, t)
<1> DEFINE P == Periods(anchor, dur, t)
           from == FirstFrom(anchor, dur, t)
           q == (t - from) \div dur
<1>1. from \in Int /\ from <= t /\ (from = anchor \/ t - dur < from)
  BY FirstBefore, FirstNear
<1>2. anchor <= t => from = anchor
  BY DEF FirstFrom
<1>3. P = [k \in 1 .. q + 1 |->
             [from |-> from + (k - 1) * dur, to |-> from + k * dur]]
  BY DEF Periods
<1> HIDE DEF from, P
<1>4. q \in Int /\ dur * q <= t - from /\ t - from < dur * q + dur
  BY <1>1, Quotient
<1> HIDE DEF q
<1>5. q \in Nat
  <2>1. SUFFICES ASSUME q < 0 PROVE FALSE
    BY <1>4
  <2>2. q * dur + dur <= 0 * dur
    BY <1>4, <2>1, TimesMonotone
  <2>3. dur * q = q * dur /\ 0 * dur = 0
    BY <1>4
  <2>4. QED
    BY <1>1, <1>4, <2>2, <2>3
<1>6. Len(P) = q + 1 /\ DOMAIN P = 1 .. q + 1
  BY <1>3, <1>5
<1>7. /\ from + (q + 1 - 1) * dur <= t
      /\ t < from + (q + 1) * dur
  <2>1. (q + 1) * dur = q * dur + dur /\ q * dur = dur * q
    BY <1>4
  <2>2. q + 1 - 1 = q
    BY <1>4
  <2>3. QED
    BY <1>1, <1>4, <2>1, <2>2
<1>8. t < anchor => from < anchor /\ q + 1 = 1
  <2>1. SUFFICES ASSUME t < anchor PROVE from < anchor /\ q = 0
    BY <1>4
  <2>2. from < anchor /\ t - dur < from
    BY <1>1, <2>1
  <2>3. SUFFICES ASSUME q > 0 PROVE FALSE
    BY <1>5, <2>2
  <2>4. 0 * dur + dur <= q * dur
    BY <1>5, <2>3, TimesMonotone
  <2>5. dur * q = q * dur /\ 0 * dur = 0
    BY <1>4
  <2>6. QED
    BY <1>1, <1>4, <2>2, <2>4, <2>5
<1>9. \A i \in 1 .. q + 1 : /\ P[i].from = from + (i - 1) * dur
                            /\ P[i].to = from + i * dur
                            /\ P[i] = [from |-> from + (i - 1) * dur,
                                       to |-> from + i * dur]
  BY <1>3
<1>10. QED
  BY <1>1, <1>2, <1>5, <1>6, <1>7, <1>8, <1>9 DEF from, P, Shaped

(* Where two walks have a boundary in common, they took the same periods   *)
(* to it.                                                                  *)
LEMMA PeriodsPrefix ==
  ASSUME NEW anchor \in Int, NEW dur \in Nat \ {0}, NEW t \in Int, NEW a \in Int,
         NEW P, P = Periods(anchor, dur, t),
         NEW Q, Q = Periods(anchor, dur, a), Q[Len(Q)].from = a,
         NEW j \in 1 .. Len(P), P[j].from = a
  PROVE  Len(Q) = j /\ \A i \in 1 .. j : P[i] = Q[i]
<1> DEFINE n == Len(P)
           k == Len(Q)
<1>1. PICK x : Shaped(P, x, anchor, dur, t)
  BY PeriodsAre
<1>2. PICK y : Shaped(Q, y, anchor, dur, a)
  BY PeriodsAre
<1>3. /\ n \in Nat \ {0} /\ k \in Nat \ {0} /\ x \in Int /\ y \in Int
      /\ j \in 1 .. n /\ j - 1 \in Nat /\ k - 1 \in Nat
      /\ a = x + (j - 1) * dur /\ a = y + (k - 1) * dur
  BY <1>1, <1>2 DEF Shaped
<1> HIDE DEF n, k
<1>4. j = k /\ x = y
  <2>1. CASE anchor <= t
    <3>1. 0 * dur <= (j - 1) * dur /\ 0 * dur = 0 /\ (j - 1) * dur \in Int
      BY <1>3, TimesMonotone
    <3>2. x = anchor /\ y = anchor
      BY <1>1, <1>2, <1>3, <2>1, <3>1 DEF Shaped
    <3>3. (j - 1) * dur = (k - 1) * dur
      <4>1. PICK u, v : u = (j - 1) * dur /\ v = (k - 1) * dur
        OBVIOUS
      <4>2. u \in Int /\ v \in Int
        BY <1>3, <3>1, <4>1, TimesMonotone
      <4>3. a = x + u /\ a = y + v /\ x = y
        BY <1>3, <3>2, <4>1
      <4>4. u = v
        BY <1>3, <4>2, <4>3
      <4>5. QED
        BY <4>1, <4>4
    <3>4. j - 1 = k - 1
      BY <1>3, <3>3, TimesMonotone
    <3>5. QED
      BY <1>2, <1>3, <3>2, <3>4
  <2>2. CASE ~(anchor <= t)
    <3>1. n = 1 /\ j = 1 /\ x < anchor
      <4>1. t < anchor
        BY <2>2
      <4>2. n = 1 /\ x < anchor
        BY <1>1, <4>1, Zenon DEF Shaped, n
      <4>3. QED
        BY <1>3, <4>2
    <3>2. a = x
      <4>1. (1 - 1) * dur = 0
        OBVIOUS
      <4>2. QED
        BY <1>3, <3>1, <4>1
    <3>3. k = 1 /\ y = a
      <4>1. (1 - 1) * dur = 0
        OBVIOUS
      <4>2. k = 1
        BY <1>2, <1>3, <3>1, <3>2 DEF Shaped, k
      <4>3. QED
        BY <1>3, <4>1, <4>2
    <3>4. QED
      BY <3>1, <3>2, <3>3
  <2>3. QED
    BY <2>1, <2>2
<1>5. ASSUME NEW i \in 1 .. j PROVE P[i] = Q[i]
  <2>1. i \in 1 .. n /\ i \in 1 .. k
    BY <1>3, <1>4
  <2>2. P[i] = [from |-> x + (i - 1) * dur, to |-> x + i * dur]
    BY <1>1, <2>1 DEF Shaped, n
  <2>3. Q[i] = [from |-> y + (i - 1) * dur, to |-> y + i * dur]
    BY <1>2, <2>1 DEF Shaped, k
  <2>4. QED
    BY <1>4, <2>2, <2>3
<1>6. QED
  BY <1>4, <1>5 DEF k

(* No seed is a seed that fits nowhere, or the first period.               *)
LEMMA NoSeedFirst ==
  ASSUME NEW anchor \in Nat, NEW dur \in Nat \ {0}, NEW t \in Int,
         NEW P, P = Periods(anchor, dur, t), NEW G
  PROVE  StartAt(P, NoSeed) = 1 /\ StartState(G, P, NoSeed) = Blank
<1>1. PICK x : Shaped(P, x, anchor, dur, t)
  BY PeriodsAre
<1>2. ASSUME NEW i \in DOMAIN P, P[i].from = NoSeed.asOf
      PROVE  i = 1
  <2>1. i \in 1 .. Len(P) /\ i - 1 \in Nat /\ x + (i - 1) * dur = -1
    BY <1>1, <1>2 DEF NoSeed, None, Shaped
  <2>2. 0 * dur <= (i - 1) * dur /\ 0 * dur = 0 /\ (i - 1) * dur \in Int
    BY <2>1, TimesMonotone
  <2>3. ~(anchor <= t)
    <3>1. PICK u : u = (i - 1) * dur
      OBVIOUS
    <3>2. u \in Int /\ 0 <= u /\ x + u = -1
      BY <2>1, <2>2, <3>1
    <3>3. x \in Int /\ (anchor <= t => x = anchor)
      BY <1>1 DEF Shaped
    <3>4. QED
      BY <3>2, <3>3
  <2>4. t < anchor
    BY <2>3
  <2>5. Len(P) = 1
    BY <1>1, <2>4, Zenon DEF Shaped
  <2>6. QED
    BY <2>1, <2>5
<1>3. StartAt(P, NoSeed) = 1
  <2>1. CASE SeedFits(P, NoSeed)
    <3>1. /\ StartAt(P, NoSeed) \in DOMAIN P
          /\ P[StartAt(P, NoSeed)].from = NoSeed.asOf
      BY <2>1 DEF StartAt, SeedFits
    <3>2. QED
      BY <1>2, <3>1
  <2>2. CASE ~SeedFits(P, NoSeed)
    BY <2>2 DEF StartAt
  <2>3. QED
    BY <2>1, <2>2
<1>4. StartState(G, P, NoSeed) = Blank
  <2>1. << >> \in Actives /\ Range(<< >>) = {} /\ NoSeed.active = << >>
    BY DEF Actives, Range, NoSeed
  <2>2. PICK u : u = Unvoided(G, << >>)
    OBVIOUS
  <2>3. u \in Actives /\ \A e : e \notin Range(u)
    BY <2>1, <2>2, UnvoidedActive
  <2>4. Len(u) \in Nat /\ DOMAIN u = 1 .. Len(u) /\ u \in Seq(Entry)
    BY <2>3, ActiveTyped DEF Actives
  <2>5. Len(u) = 0
    <3>1. \A i \in 1 .. Len(u) : FALSE
      BY <2>3, <2>4 DEF Range
    <3>2. QED
      BY <2>4, <3>1
  <2>6. u = << >>
    BY <2>4, <2>5, EmptySeq
  <2>7. Ids(<< >>) = {}
    BY DEF Ids
  <2>8. QED
    BY <2>1, <2>2, <2>6, <2>7 DEF StartState, Blank
<1>5. QED
  BY <1>3, <1>4

----------------------------------------------------------------------------
(* Two ledgers.  Rows that had begun by some time are the same in both.    *)
Alike(G, H, b) ==
  \A g : /\ g \in DOMAIN G /\ G[g].effective < b
              => g \in DOMAIN H /\ H[g] = G[g]
         /\ g \in DOMAIN H /\ H[g].effective < b
              => g \in DOMAIN G /\ G[g] = H[g]

(* What is taken in and is still of use.                                   *)
Taken(G, st, p, first) ==
  {g \in DOMAIN G \ st.seen :
     /\ G[g].effective < p.to /\ (p.from <= G[g].effective \/ first)
     /\ ~Expired(G[g], p.from)}

LEMMA UnexpiredInOrder ==
  ASSUME NEW G, NEW a \in Actives, NEW t, NEW R, InOrder(a, R)
  PROVE  InOrder(Unexpired(G, a, t), R)
<1> DEFINE I == {i \in DOMAIN a : ~Expired(G[a[i].id], t)}
<1>1. I \in SUBSET DOMAIN a /\ Unexpired(G, a, t) = Kept(a, I)
  BY DEF Unexpired
<1> HIDE DEF I
<1>2. QED
  BY <1>1, KeptInOrder

LEMMA EnteredSame ==
  ASSUME NEW G, IsLedger(G), NEW H, IsLedger(H), NEW a \in Actives, NEW t,
         NEW M \in SUBSET DOMAIN G, NEW N \in SUBSET DOMAIN H,
         Ids(a) \cap M = {}, Ids(a) \cap N = {},
         \A e \in Range(a) : Expired(G[e.id], t) <=> Expired(H[e.id], t),
         \A g \in M : ~Expired(G[g], t) => g \in N /\ H[g] = G[g],
         \A g \in N : ~Expired(H[g], t) => g \in M /\ G[g] = H[g]
  PROVE  Unexpired(G, a \o Fresh(G, M), t) = Unexpired(H, a \o Fresh(H, N), t)
<1> DEFINE f == Fresh(G, M)
           h == Fresh(H, N)
           x == a \o f
           y == a \o h
           u == Unexpired(G, x, t)
           v == Unexpired(H, y, t)
<1>1. /\ f \in Actives /\ Ids(f) = M
      /\ Range(f) = {[id |-> g, rem |-> G[g].amount] : g \in M}
      /\ \A i, j \in DOMAIN f : i < j => f[i].id < f[j].id
  BY FreshActive, FreshAscends
<1>2. /\ h \in Actives /\ Ids(h) = N
      /\ Range(h) = {[id |-> g, rem |-> H[g].amount] : g \in N}
      /\ \A i, j \in DOMAIN h : i < j => h[i].id < h[j].id
  BY FreshActive, FreshAscends
<1> HIDE DEF f, h
<1>3. /\ x \in Actives /\ Range(x) = Range(a) \cup Range(f)
      /\ InOrder(x, Listed(a))
  BY <1>1, ConcatActive, EnteredListed
<1>4. /\ y \in Actives /\ Range(y) = Range(a) \cup Range(h)
      /\ InOrder(y, Listed(a))
  BY <1>2, ConcatActive, EnteredListed
<1> HIDE DEF x, y
<1>5. /\ u \in Actives /\ InOrder(u, Listed(a))
      /\ \A e : e \in Range(u) <=> e \in Range(x) /\ ~Expired(G[e.id], t)
  BY <1>3, UnexpiredActive, UnexpiredInOrder
<1>6. /\ v \in Actives /\ InOrder(v, Listed(a))
      /\ \A e : e \in Range(v) <=> e \in Range(y) /\ ~Expired(H[e.id], t)
  BY <1>4, UnexpiredActive, UnexpiredInOrder
<1> HIDE DEF u, v
<1>7. ASSUME NEW e \in Range(u) PROVE e \in Range(v)
  <2>1. CASE e \in Range(a)
    BY <1>4, <1>5, <1>6, <1>7, <2>1
  <2>2. CASE e \in Range(f)
    <3>1. PICK g \in M : e = [id |-> g, rem |-> G[g].amount]
      BY <1>1, <2>2
    <3>2. e.id = g /\ ~Expired(G[g], t)
      BY <1>5, <1>7, <3>1
    <3>3. g \in N /\ H[g] = G[g]
      BY <3>2
    <3>4. e \in Range(h)
      BY <1>2, <3>1, <3>3
    <3>5. QED
      BY <1>4, <1>6, <3>2, <3>3, <3>4
  <2>3. QED
    BY <1>3, <1>5, <1>7, <2>1, <2>2
<1>8. ASSUME NEW e \in Range(v) PROVE e \in Range(u)
  <2>1. CASE e \in Range(a)
    BY <1>3, <1>5, <1>6, <1>8, <2>1
  <2>2. CASE e \in Range(h)
    <3>1. PICK g \in N : e = [id |-> g, rem |-> H[g].amount]
      BY <1>2, <2>2
    <3>2. e.id = g /\ ~Expired(H[g], t)
      BY <1>6, <1>8, <3>1
    <3>3. g \in M /\ G[g] = H[g]
      BY <3>2
    <3>4. e \in Range(f)
      BY <1>1, <3>1, <3>3
    <3>5. QED
      BY <1>3, <1>5, <3>2, <3>3, <3>4
  <2>3. QED
    BY <1>4, <1>6, <1>8, <2>1, <2>2
<1>9. Range(u) = Range(v)
  BY <1>7, <1>8
<1>10. u = v
  BY <1>5, <1>6, <1>9, ListedStrict, OrderUnique, Zenon
<1>11. QED
  BY <1>10 DEF u, v, x, y, f, h

LEMMA EnterAgrees ==
  ASSUME NEW G, IsLedger(G), NEW H, IsLedger(H), NEW p, Alike(G, H, p.to),
         NEW st, NEW first, NEW z, NEW early,
         z.active = st.active, st.active \in Actives,
         Ids(st.active) \subseteq st.seen, Ids(st.active) \subseteq z.seen,
         \A e \in Range(st.active) :
           e.id \in DOMAIN G /\ G[e.id].effective < p.to,
         Taken(G, st, p, first) = Taken(H, z, p, early)
  PROVE  Enter(G, st, p, first).active = Enter(H, z, p, early).active
<1> DEFINE M == {g \in DOMAIN G \ st.seen :
                   G[g].effective < p.to /\ (p.from <= G[g].effective \/ first)}
           N == {g \in DOMAIN H \ z.seen :
                   H[g].effective < p.to /\ (p.from <= H[g].effective \/ early)}
<1>1. PICK a : a = st.active
  OBVIOUS
<1>2. /\ Enter(G, st, p, first).active = Unexpired(G, a \o Fresh(G, M), p.from)
      /\ Enter(H, z, p, early).active = Unexpired(H, a \o Fresh(H, N), p.from)
  BY <1>1 DEF Enter
<1>3. /\ M \in SUBSET DOMAIN G /\ N \in SUBSET DOMAIN H
      /\ Ids(a) \cap M = {} /\ Ids(a) \cap N = {}
  BY <1>1
<1>4. ASSUME NEW e \in Range(a)
      PROVE  Expired(G[e.id], p.from) <=> Expired(H[e.id], p.from)
  <2>1. e.id \in DOMAIN G /\ G[e.id].effective < p.to
    BY <1>1
  <2>2. H[e.id] = G[e.id]
    BY <2>1 DEF Alike
  <2>3. QED
    BY <2>2
<1>5. ASSUME NEW g \in M, ~Expired(G[g], p.from)
      PROVE  g \in N /\ H[g] = G[g]
  <2>1. g \in Taken(G, st, p, first) /\ g \in DOMAIN G /\ G[g].effective < p.to
    BY <1>5 DEF Taken
  <2>2. g \in Taken(H, z, p, early)
    BY <2>1
  <2>3. QED
    BY <2>1, <2>2 DEF Taken, Alike
<1>6. ASSUME NEW g \in N, ~Expired(H[g], p.from)
      PROVE  g \in M /\ G[g] = H[g]
  <2>1. g \in Taken(H, z, p, early) /\ g \in DOMAIN H /\ H[g].effective < p.to
    BY <1>6 DEF Taken
  <2>2. g \in Taken(G, st, p, first)
    BY <2>1
  <2>3. QED
    BY <2>1, <2>2 DEF Taken, Alike
<1> HIDE DEF M, N
<1>7. PICK from : from = p.from
  OBVIOUS
<1>8. a \in Actives
  BY <1>1
<1>9. Unexpired(G, a \o Fresh(G, M), from) = Unexpired(H, a \o Fresh(H, N), from)
  BY <1>3, <1>4, <1>5, <1>6, <1>7, <1>8, EnteredSame
<1>10. QED
  BY <1>2, <1>7, <1>9

(* Burn order is one order of what is in force.                            *)
FirstOf(G, a) ==
  {p \in Entry \X Entry :
     \E i, j \in DOMAIN a : p[1] = a[i] /\ p[2] = a[j] /\ BurnsFirst(G, a, i, j)}

LEMMA FirstOfStrict ==
  ASSUME NEW G, IsLedger(G), NEW a \in Actives, Ids(a) \subseteq DOMAIN G
  PROVE  \A x, y : ~(<<x, y>> \in FirstOf(G, a) /\ <<y, x>> \in FirstOf(G, a))
<1> SUFFICES ASSUME NEW x, NEW y, <<x, y>> \in FirstOf(G, a),
                    <<y, x>> \in FirstOf(G, a)
             PROVE  FALSE
  OBVIOUS
<1>1. /\ DOMAIN a = 1 .. Len(a) /\ Len(a) \in Nat
      /\ \A i, j \in DOMAIN a : a[i] = a[j] => i = j
  BY ActiveTyped
<1>2. PICK i, j \in DOMAIN a : x = a[i] /\ y = a[j] /\ BurnsFirst(G, a, i, j)
  BY DEF FirstOf
<1>3. PICK k, l \in DOMAIN a : y = a[k] /\ x = a[l] /\ BurnsFirst(G, a, k, l)
  BY DEF FirstOf
<1>4. k = j /\ l = i
  BY <1>1, <1>2, <1>3
<1>5. PICK g, h : g = a[i].id /\ h = a[j].id
  OBVIOUS
<1>6. g \in DOMAIN G /\ h \in DOMAIN G
  BY <1>5 DEF Ids
<1>7. /\ G[g].priority \in Int /\ G[h].priority \in Int
      /\ G[g].effective \in Int /\ G[h].effective \in Int
  BY <1>6 DEF IsLedger
<1>8. ~(Precedes(G, g, h) /\ Precedes(G, h, g))
  BY <1>7 DEF Precedes
<1>9. /\ Precedes(G, g, h) \/ (~Precedes(G, h, g) /\ i < j)
      /\ Precedes(G, h, g) \/ (~Precedes(G, g, h) /\ j < i)
  BY <1>2, <1>3, <1>4, <1>5 DEF BurnsFirst
<1>10. i < j /\ j < i /\ i \in Nat /\ j \in Nat
  BY <1>1, <1>8, <1>9
<1>11. QED
  BY <1>10

LEMMA SortedOrdered ==
  ASSUME NEW G, IsLedger(G), NEW a \in Actives, Ids(a) \subseteq DOMAIN G
  PROVE  /\ Sorted(G, a) \in Actives /\ Range(Sorted(G, a)) = Range(a)
         /\ InOrder(Sorted(G, a), FirstOf(G, a))
<1>1. \A i \in DOMAIN a : a[i].id \in DOMAIN G
  BY DEF Ids
<1>2. PICK s : s = Sorted(G, a)
  OBVIOUS
<1>3. /\ s \in Actives /\ Range(s) = Range(a) /\ Len(s) = Len(a)
      /\ \A i, j \in 1 .. Len(a) :
           i < j => \E k, l \in DOMAIN a : /\ s[i] = a[k] /\ s[j] = a[l]
                                          /\ BurnsFirst(G, a, k, l)
  <2> DEFINE z == Sorted(G, a)
  <2>1. /\ z \in Actives /\ Range(z) = Range(a) /\ Len(z) = Len(a)
        /\ \A i, j \in 1 .. Len(a) :
             i < j => ~Precedes(G, z[j].id, z[i].id)
        /\ \A i, j \in 1 .. Len(a) :
             i < j => \E k, l \in DOMAIN a : /\ z[i] = a[k] /\ z[j] = a[l]
                                            /\ BurnsFirst(G, a, k, l)
    BY <1>1, SortedActive, Zenon
  <2>2. s = z
    BY <1>2
  <2> HIDE DEF z
  <2>3. QED
    BY <2>1, <2>2
<1>4. DOMAIN s = 1 .. Len(a)
  BY <1>3, ActiveTyped
<1>5. \A k \in DOMAIN a : a[k] \in Entry
  BY ActiveTyped
<1>6. ASSUME NEW i \in DOMAIN s, NEW j \in DOMAIN s, i < j
      PROVE  <<s[i], s[j]>> \in FirstOf(G, a)
  <2>1. PICK k, l \in DOMAIN a : /\ s[i] = a[k] /\ s[j] = a[l]
                                 /\ BurnsFirst(G, a, k, l)
    BY <1>3, <1>4, <1>6
  <2>2. s[i] \in Entry /\ s[j] \in Entry
    BY <1>5, <2>1
  <2>3. QED
    BY <2>1, <2>2 DEF FirstOf
<1>7. QED
  BY <1>2, <1>3, <1>6 DEF InOrder

LEMMA SortedAgrees ==
  ASSUME NEW G, IsLedger(G), NEW H, IsLedger(H), NEW a \in Actives,
         \A g \in Ids(a) : g \in DOMAIN G /\ g \in DOMAIN H /\ H[g] = G[g]
  PROVE  Sorted(G, a) = Sorted(H, a)
<1>1. Ids(a) \subseteq DOMAIN G /\ Ids(a) \subseteq DOMAIN H
  OBVIOUS
<1>2. ASSUME NEW i \in DOMAIN a, NEW j \in DOMAIN a
      PROVE  BurnsFirst(G, a, i, j) <=> BurnsFirst(H, a, i, j)
  <2>1. a[i].id \in Ids(a) /\ a[j].id \in Ids(a)
    BY DEF Ids
  <2>2. G[a[i].id] = H[a[i].id] /\ G[a[j].id] = H[a[j].id]
    BY <2>1
  <2>3. QED
    BY <2>2 DEF BurnsFirst, Precedes
<1>3. FirstOf(G, a) = FirstOf(H, a)
  BY <1>2 DEF FirstOf
<1>4. PICK s, u, R : s = Sorted(G, a) /\ u = Sorted(H, a) /\ R = FirstOf(G, a)
  OBVIOUS
<1>5. s \in Actives /\ Range(s) = Range(a) /\ InOrder(s, R)
  BY <1>1, <1>4, SortedOrdered
<1>6. u \in Actives /\ Range(u) = Range(a) /\ InOrder(u, R)
  BY <1>1, <1>3, <1>4, SortedOrdered
<1>7. \A x, y : ~(<<x, y>> \in R /\ <<y, x>> \in R)
  BY <1>1, <1>4, FirstOfStrict
<1>8. Range(s) = Range(u)
  BY <1>5, <1>6
<1>9. s = u
  BY <1>5, <1>6, <1>7, <1>8, OrderUnique
<1>10. QED
  BY <1>4, <1>9

LEMMA UnexpiredAgrees ==
  ASSUME NEW G, NEW H, NEW a, NEW t, \A g \in Ids(a) : H[g] = G[g]
  PROVE  Unexpired(G, a, t) = Unexpired(H, a, t)
<1>1. \A i \in DOMAIN a : G[a[i].id] = H[a[i].id]
  BY DEF Ids
<1>2. {i \in DOMAIN a : ~Expired(G[a[i].id], t)}
        = {i \in DOMAIN a : ~Expired(H[a[i].id], t)}
  BY <1>1
<1>3. QED
  BY <1>2 DEF Unexpired

(* A period evaluated over either ledger, from the same grants in force    *)
(* and taking in the same that are of use.                                 *)
SameEval(d, e) ==
  d.active = e.active /\ d.usage = e.usage /\ d.overage = e.overage

LEMMA EvalAgrees ==
  ASSUME NEW G, IsLedger(G), NEW H, IsLedger(H), NEW cap \in Nat \cup {None},
         NEW p, p.from \in Int, p.to \in Int, p.from <= p.to,
         Alike(G, H, p.to),
         NEW st, SoundState(G, cap, p.from, st), NEW first,
         NEW z, z.active = st.active, Ids(st.active) \subseteq z.seen, NEW early,
         Taken(G, st, p, first) = Taken(H, z, p, early),
         NEW last, NEW usage \in Nat
  PROVE  SameEval(EvalPeriod(G, cap, st, p, first, last, usage),
                  EvalPeriod(H, cap, z, p, early, last, usage))
<1>1. /\ st.active \in Actives /\ Ids(st.active) \subseteq st.seen
      /\ \A e \in Range(st.active) :
           e.id \in DOMAIN G /\ G[e.id].effective < p.from
  BY DEF SoundState, Sound, MayHold
<1>2. \A e \in Range(st.active) :
        e.id \in DOMAIN G /\ G[e.id].effective < p.to
  <2>1. ASSUME NEW e \in Range(st.active)
        PROVE  e.id \in DOMAIN G /\ G[e.id].effective < p.to
    <3>1. e.id \in DOMAIN G /\ G[e.id].effective < p.from
      BY <1>1
    <3>2. G[e.id].effective \in Int
      BY <3>1 DEF IsLedger
    <3>3. QED
      BY <3>1, <3>2
  <2>2. QED
    BY <2>1
<1>3. Enter(G, st, p, first).active = Enter(H, z, p, early).active
  BY <1>1, <1>2, EnterAgrees
<1>4. PICK in : in = Enter(G, st, p, first).active
  OBVIOUS
<1>5. /\ in \in Actives /\ Ids(in) \subseteq DOMAIN G
      /\ \A e \in Range(in) : InForce(G, cap, p, first, e)
  BY <1>4, EnterInForce, Zenon
<1>6. ASSUME NEW g \in Ids(in)
      PROVE  g \in DOMAIN G /\ g \in DOMAIN H /\ H[g] = G[g]
  <2>1. PICK e \in Range(in) : g = e.id
    BY IdsOfRange
  <2>2. g \in DOMAIN G /\ G[g].effective < p.to
    BY <1>5, <2>1 DEF InForce
  <2>3. QED
    BY <2>2 DEF Alike
<1>7. Sorted(G, in) = Sorted(H, in)
  BY <1>5, <1>6, SortedAgrees
<1>8. Spend(G, in, usage) = Spend(H, in, usage)
  BY <1>7 DEF Spend
<1>9. PICK b : b = Spend(G, in, usage)
  OBVIOUS
<1>10. Ids(b.active) \subseteq Ids(in)
  <2>1. /\ b.active \in Actives /\ Ids(b.active) \subseteq Ids(in)
        /\ \A e \in Range(b.active) : InForce(G, cap, p, first, e)
    BY <1>5, <1>9, SpendInForce
  <2>2. QED
    BY <2>1
<1>11. Unexpired(G, b.active, p.to) = Unexpired(H, b.active, p.to)
  BY <1>6, <1>10, UnexpiredAgrees
<1>12. CarryOver(G, cap, b.active, p.to) = CarryOver(H, cap, b.active, p.to)
  BY <1>11 DEF CarryOver
<1>13. /\ EvalPeriod(G, cap, st, p, first, last, usage).active
            = (IF last THEN b.active ELSE CarryOver(G, cap, b.active, p.to))
       /\ EvalPeriod(G, cap, st, p, first, last, usage).usage = usage
       /\ EvalPeriod(G, cap, st, p, first, last, usage).overage = b.left
  BY <1>4, <1>9 DEF EvalPeriod
<1>14. /\ EvalPeriod(H, cap, z, p, early, last, usage).active
            = (IF last THEN b.active ELSE CarryOver(H, cap, b.active, p.to))
       /\ EvalPeriod(H, cap, z, p, early, last, usage).usage = usage
       /\ EvalPeriod(H, cap, z, p, early, last, usage).overage = b.left
  BY <1>3, <1>4, <1>8, <1>9 DEF EvalPeriod
<1>15. QED
  BY <1>12, <1>13, <1>14 DEF SameEval

(* What has begun by a time, and the grants that can still be spent then.  *)
Before(G, b) == {g \in DOMAIN G : G[g].effective < b}

Full(G, at, active) ==
  \A g \in DOMAIN G :
    G[g].effective < at /\ ~Expired(G[g], at) => g \in Ids(active)

(* What takes effect in a period and is of use in it.                      *)
Due(G, p) ==
  {g \in DOMAIN G : /\ p.from <= G[g].effective /\ G[g].effective < p.to
                    /\ ~Expired(G[g], p.from)}

LEMMA SeenAfter ==
  ASSUME NEW G, IsLedger(G), NEW p, p.from \in Int, p.to \in Int,
         p.from <= p.to, NEW st, NEW first,
         st.seen \subseteq Before(G, p.from),
         ~first => st.seen = Before(G, p.from),
         NEW cap, NEW last, NEW usage
  PROVE  EvalPeriod(G, cap, st, p, first, last, usage).seen = Before(G, p.to)
<1> DEFINE new == {g \in DOMAIN G \ st.seen :
                     G[g].effective < p.to /\ (p.from <= G[g].effective \/ first)}
<1>1. EvalPeriod(G, cap, st, p, first, last, usage).seen = st.seen \cup new
  BY DEF EvalPeriod, Enter
<1>2. \A g \in DOMAIN G : G[g].effective \in Int
  BY DEF IsLedger
<1>3. ASSUME NEW g \in DOMAIN G
      PROVE  g \in st.seen \cup new <=> g \in Before(G, p.to)
  <2>1. G[g].effective < p.from => G[g].effective < p.to
    BY <1>2
  <2>2. G[g].effective < p.from \/ p.from <= G[g].effective
    BY <1>2
  <2>3. CASE first
    BY <2>1, <2>2, <2>3 DEF Before
  <2>4. CASE ~first
    BY <2>1, <2>2, <2>4 DEF Before
  <2>5. QED
    BY <2>3, <2>4
<1>4. st.seen \cup new \subseteq DOMAIN G /\ Before(G, p.to) \subseteq DOMAIN G
  BY DEF Before
<1>5. QED
  BY <1>1, <1>3, <1>4

LEMMA TakenSteady ==
  ASSUME NEW G, IsLedger(G), NEW p, p.from \in Int, p.to \in Int,
         p.from <= p.to, NEW st, NEW first,
         st.seen \subseteq Before(G, p.from),
         first => Full(G, p.from, st.active) /\ Ids(st.active) \subseteq st.seen,
         ~first => st.seen = Before(G, p.from)
  PROVE  Taken(G, st, p, first) = Due(G, p)
<1>1. ASSUME NEW g \in DOMAIN G
      PROVE  g \in Taken(G, st, p, first) <=> g \in Due(G, p)
  <2>1. /\ G[g].effective \in Int
        /\ g \in st.seen => ~(p.from <= G[g].effective)
    BY DEF IsLedger, Before
  <2>2. CASE p.from <= G[g].effective
    BY <2>1, <2>2 DEF Taken, Due
  <2>3. CASE ~(p.from <= G[g].effective)
    <3>1. G[g].effective < p.from
      BY <2>1, <2>3
    <3>2. g \notin Due(G, p)
      BY <2>3 DEF Due
    <3>3. g \notin Taken(G, st, p, first)
      <4>1. CASE first
        BY <3>1, <4>1 DEF Taken, Full
      <4>2. CASE ~first
        BY <2>3, <4>2 DEF Taken
      <4>3. QED
        BY <4>1, <4>2
    <3>4. QED
      BY <3>2, <3>3
  <2>4. QED
    BY <2>2, <2>3
<1>2. QED
  BY <1>1 DEF Taken, Due

LEMMA DueAlike ==
  ASSUME NEW G, NEW H, NEW p, Alike(G, H, p.to)
  PROVE  Due(G, p) = Due(H, p)
<1>1. ASSUME NEW g PROVE g \in Due(G, p) <=> g \in Due(H, p)
  BY DEF Due, Alike
<1>2. QED
  BY <1>1

LEMMA TakenBlank ==
  ASSUME NEW G, NEW H, NEW p, Alike(G, H, p.to)
  PROVE  Taken(G, Blank, p, TRUE) = Taken(H, Blank, p, TRUE)
<1>1. Blank.seen = {}
  BY DEF Blank
<1>2. ASSUME NEW g
      PROVE  g \in Taken(G, Blank, p, TRUE) <=> g \in Taken(H, Blank, p, TRUE)
  BY <1>1 DEF Taken, Alike
<1>3. QED
  BY <1>2

(* What a walk is given.                                                   *)
Walkable(t, ent, G, usage, P) ==
  /\ IsLedger(G) /\ t \in Int
  /\ Anchor(ent) \in Nat /\ ent.dur \in Nat \ {0} /\ ent.cap \in Nat \cup {None}
  /\ usage \in [Int \X Int -> Nat]
  /\ P = Periods(Anchor(ent), ent.dur, t)

(* What each turn of a walk from the anchor starts from and leaves.        *)
Walked(v, t, ent, G, usage, P) ==
  /\ Len(P) \in Nat \ {0} /\ DOMAIN P = 1 .. Len(P)
  /\ v[0] = Blank
  /\ \A i \in 1 .. Len(P) :
       /\ P[i].from \in Int /\ P[i].to \in Int /\ P[i].from <= P[i].to
       /\ Used(t, usage, P, i) \in Nat
       /\ v[i] = EvalPeriod(G, ent.cap, v[i - 1], P[i], i = 1,
                            i = Len(P), Used(t, usage, P, i))
       /\ SoundState(G, ent.cap, P[i].from, v[i - 1])
       /\ v[i].seen = Before(G, P[i].to)
       /\ i > 1 => /\ v[i - 1].seen = Before(G, P[i].from)
                   /\ P[i].from = P[i - 1].to

LEMMA EachWalked ==
  ASSUME NEW t, NEW ent, NEW G, NEW usage, NEW P, Walkable(t, ent, G, usage, P),
         NEW v, v = Walk(t, ent, G, usage, NoSeed)
  PROVE  Walked(v, t, ent, G, usage, P)
<1> DEFINE n == Len(P)
<1>1. /\ IsLedger(G) /\ t \in Int /\ Within(G, G)
      /\ Anchor(ent) \in Nat /\ Anchor(ent) \in Int /\ ent.dur \in Nat \ {0}
      /\ ent.cap \in Nat \cup {None}
      /\ P = Periods(Anchor(ent), ent.dur, t)
  BY DEF Walkable, Within
<1>2. /\ n \in Nat \ {0} /\ DOMAIN P = 1 .. n
      /\ \A i \in 1 .. n : /\ P[i].from \in Int /\ P[i].to \in Int
                           /\ P[i].from <= P[i].to
      /\ \A i \in 1 .. n : i > 1 => P[i].from = P[i - 1].to
  BY <1>1, PeriodsTyped, Zenon
<1>3. StartAt(P, NoSeed) = 1 /\ StartState(G, P, NoSeed) = Blank
  BY <1>1, NoSeedFirst
<1>4. ASSUME NEW i \in 1 .. n PROVE Used(t, usage, P, i) \in Nat
  <2>1. P[i].from \in Int /\ UpTo(t, P, i) \in Int
    BY <1>1, <1>2 DEF UpTo
  <2>2. <<P[i].from, UpTo(t, P, i)>> \in Int \X Int
    BY <2>1
  <2>3. QED
    BY <2>2 DEF Used, Walkable
<1>5. Sound(G, ent.cap, NoSeed.asOf, NoSeed.active)
  BY EmptySound DEF NoSeed
<1>6. PICK start : start = 1
  OBVIOUS
<1>7. \A i \in start .. n :
        /\ P[i].from \in Int /\ P[i].to \in Int /\ P[i].from <= P[i].to
        /\ SoundState(G, ent.cap, P[i].from, v[i - 1])
  BY <1>1, <1>3, <1>4, <1>5, <1>6, WalkSound
<1>8. /\ v[start - 1] = StartState(G, P, NoSeed)
      /\ \A i \in start .. n :
           v[i] = Turn(t, ent, G, usage, P, start, v[i - 1], i)
  BY <1>1, <1>2, <1>3, <1>6, WalkTurns
<1>9. v[0] = Blank
  BY <1>3, <1>6, <1>8
<1>10. \A i \in 1 .. n :
         v[i] = EvalPeriod(G, ent.cap, v[i - 1], P[i], i = 1, i = n,
                           Used(t, usage, P, i))
  BY <1>6, <1>8 DEF Turn
<1> HIDE DEF n
<1> DEFINE Good(i) == v[i].seen = Before(G, P[i].to)
           C == {k \in 0 .. n - 1 : Good(1 + k)}
<1>11. 0 \in C
  <2>1. v[0].seen = {}
    BY <1>9 DEF Blank
  <2>2. 1 \in 1 .. n
    BY <1>2
  <2>3. PICK p, st, u, l, f, cap :
          /\ p = P[1] /\ st = v[0] /\ u = Used(t, usage, P, 1)
          /\ l = (1 = n) /\ f = (1 = 1) /\ cap = ent.cap
    OBVIOUS
  <2>4. f
    BY <2>3
  <2>5. EvalPeriod(G, cap, st, p, f, l, u).seen = Before(G, p.to)
    <3>1. p.from \in Int /\ p.to \in Int /\ p.from <= p.to
      BY <1>2, <2>2, <2>3
    <3>2. st.seen \subseteq Before(G, p.from)
      BY <2>1, <2>3
    <3>3. QED
      BY <1>1, <2>4, <3>1, <3>2, SeenAfter, Zenon
  <2>6. v[1] = EvalPeriod(G, cap, st, p, f, l, u)
    <3>1. v[1] = EvalPeriod(G, ent.cap, v[1 - 1], P[1], 1 = 1, 1 = n,
                            Used(t, usage, P, 1))
      BY <1>10, <2>2
    <3>2. v[1 - 1] = st
      BY <2>3
    <3>3. QED
      BY <2>3, <3>1, <3>2, Zenon
  <2>7. Good(1)
    BY <2>3, <2>5, <2>6
  <2>8. 0 \in 0 .. n - 1 /\ 1 + 0 = 1
    BY <1>2
  <2> HIDE DEF Good
  <2>9. QED
    BY <2>7, <2>8
<1>12. ASSUME NEW k \in 0 .. n - 1, k # 0, k - 1 \in C
       PROVE  k \in C
  <2>1. PICK i : i = 1 + k
    OBVIOUS
  <2>2. i \in 1 .. n /\ i > 1 /\ i - 1 = 1 + (k - 1) /\ (i = 1) = FALSE
    BY <1>2, <1>12, <2>1
  <2>3. v[i - 1].seen = Before(G, P[i - 1].to) /\ P[i].from = P[i - 1].to
    BY <1>2, <1>12, <2>2
  <2>4. PICK p, st, u, l, f, cap :
          /\ p = P[i] /\ st = v[i - 1] /\ u = Used(t, usage, P, i)
          /\ l = (i = n) /\ f = (i = 1) /\ cap = ent.cap
    OBVIOUS
  <2>5. v[i] = EvalPeriod(G, cap, st, p, f, l, u)
    <3>1. v[i] = EvalPeriod(G, ent.cap, v[i - 1], P[i], i = 1, i = n,
                            Used(t, usage, P, i))
      BY <1>10, <2>2
    <3>2. QED
      BY <2>4, <3>1, Zenon
  <2>6. EvalPeriod(G, cap, st, p, f, l, u).seen = Before(G, p.to)
    <3>1. p.from \in Int /\ p.to \in Int /\ p.from <= p.to
      BY <1>2, <2>2, <2>4
    <3>2. st.seen = Before(G, p.from)
      BY <2>3, <2>4
    <3>3. st.seen \subseteq Before(G, p.from)
      BY <3>2
    <3>4. QED
      BY <1>1, <3>1, <3>2, <3>3, SeenAfter, Zenon
  <2>7. Good(i)
    BY <2>4, <2>5, <2>6
  <2> HIDE DEF Good
  <2>8. QED
    BY <2>1, <2>7
<1>13. ASSUME NEW i \in 1 .. n PROVE Good(i)
  <2>1. n - 1 \in Nat /\ i - 1 \in 0 .. n - 1 /\ 1 + (i - 1) = i
    BY <1>2
  <2>2. i - 1 \in C
    <3> HIDE DEF C
    <3>1. \A k \in 0 .. n - 1 : k \in C
      BY <1>11, <1>12, <2>1, CountInduction
    <3>2. QED
      BY <2>1, <3>1
  <2> HIDE DEF Good
  <2>3. QED
    BY <2>1, <2>2
<1>14. ASSUME NEW i \in 1 .. n, i > 1
       PROVE  v[i - 1].seen = Before(G, P[i].from) /\ P[i].from = P[i - 1].to
  <2>1. i - 1 \in 1 .. n
    BY <1>2, <1>14
  <2>2. QED
    BY <1>2, <1>13, <1>14, <2>1
<1>15. \A i \in 1 .. n : SoundState(G, ent.cap, P[i].from, v[i - 1])
  BY <1>6, <1>7
<1>16. QED
  BY <1>2, <1>4, <1>9, <1>10, <1>13, <1>14, <1>15 DEF n, Walked

(* Two walks from the anchor agree where their periods, the rows that had  *)
(* begun and the usage do.                                                 *)
Alongside(P, Q, G, H, usage, other, k) ==
  /\ k < Len(P) /\ k < Len(Q)
  /\ \A i \in 1 .. k : /\ P[i] = Q[i] /\ Alike(G, H, P[i].to)
                       /\ usage[<<P[i].from, P[i].to>>]
                            = other[<<P[i].from, P[i].to>>]

LEMMA TakenAlong ==
  ASSUME NEW G, IsLedger(G), NEW H, IsLedger(H),
         NEW p, p.from \in Int, p.to \in Int, p.from <= p.to,
         Alike(G, H, p.to), NEW st, NEW z, NEW i,
         i = 1 => st = Blank /\ z = Blank,
         i # 1 => st.seen = Before(G, p.from) /\ z.seen = Before(H, p.from)
  PROVE  Taken(G, st, p, i = 1) = Taken(H, z, p, i = 1)
<1>1. CASE i = 1
  <2>1. (i = 1) = TRUE /\ st = Blank /\ z = Blank
    BY <1>1
  <2>2. Taken(G, Blank, p, TRUE) = Taken(H, Blank, p, TRUE)
    BY TakenBlank
  <2>3. QED
    BY <2>1, <2>2, Zenon
<1>2. CASE i # 1
  <2>1. (i = 1) = FALSE
    BY <1>2
  <2>2. st.seen = Before(G, p.from) /\ z.seen = Before(H, p.from)
    BY <1>2
  <2>3. /\ st.seen \subseteq Before(G, p.from)
        /\ z.seen \subseteq Before(H, p.from)
    BY <2>2
  <2>4. PICK f : f = FALSE
    OBVIOUS
  <2>5. Taken(G, st, p, f) = Due(G, p)
    BY <2>2, <2>3, <2>4, TakenSteady, Zenon
  <2>6. Taken(H, z, p, f) = Due(H, p)
    BY <2>2, <2>3, <2>4, TakenSteady, Zenon
  <2>7. Due(G, p) = Due(H, p)
    BY DueAlike
  <2>8. QED
    BY <2>1, <2>4, <2>5, <2>6, <2>7
<1>3. QED
  BY <1>1, <1>2

LEMMA WalksAgree ==
  ASSUME NEW t, NEW a, NEW ent, NEW G, NEW H, NEW usage, NEW other,
         NEW P, Walkable(t, ent, G, usage, P),
         NEW Q, Walkable(a, ent, H, other, Q),
         NEW v, v = Walk(t, ent, G, usage, NoSeed),
         NEW w, w = Walk(a, ent, H, other, NoSeed),
         NEW k \in Nat, Alongside(P, Q, G, H, usage, other, k)
  PROVE  \A i \in 0 .. k : v[i].active = w[i].active
<1> DEFINE Good(i) == v[i].active = w[i].active
           C == {i \in 0 .. k : Good(i)}
<1>1. /\ IsLedger(G) /\ IsLedger(H) /\ ent.cap \in Nat \cup {None}
  BY DEF Walkable
<1>2. Walked(v, t, ent, G, usage, P)
  BY EachWalked
<1>3. Walked(w, a, ent, H, other, Q)
  BY EachWalked
<1>4. /\ v[0] = Blank /\ w[0] = Blank
      /\ Len(P) \in Nat \ {0} /\ Len(Q) \in Nat \ {0}
  BY <1>2, <1>3, Zenon DEF Walked
<1>5. 0 \in C
  BY <1>4
<1>6. ASSUME NEW i \in 0 .. k, i # 0, i - 1 \in C
      PROVE  i \in C
  <2>1. /\ i \in 1 .. k /\ i \in 1 .. Len(P) /\ i \in 1 .. Len(Q)
        /\ (i = Len(P)) = FALSE /\ (i = Len(Q)) = FALSE /\ (i # 1 => i > 1)
    BY <1>6, <1>4 DEF Alongside
  <2>2. PICK p, st, z, cap, u, f :
          /\ p = P[i] /\ st = v[i - 1] /\ z = w[i - 1] /\ cap = ent.cap
          /\ u = Used(t, usage, P, i) /\ f = (i = 1)
    OBVIOUS
  <2>3. /\ p = Q[i] /\ Alike(G, H, p.to)
        /\ u = usage[<<p.from, p.to>>] /\ u = other[<<p.from, p.to>>]
    BY <2>1, <2>2 DEF Alongside, Used, UpTo
  <2>4. u = Used(a, other, Q, i)
    BY <2>1, <2>3 DEF Used, UpTo
  <2>5. p.from \in Int /\ p.to \in Int /\ p.from <= p.to /\ u \in Nat
    BY <1>2, <2>1, <2>2 DEF Walked
  <2>6. v[i] = EvalPeriod(G, cap, st, p, f, FALSE, u)
    <3>1. v[i] = EvalPeriod(G, ent.cap, v[i - 1], P[i], i = 1, i = Len(P),
                            Used(t, usage, P, i))
      BY <1>2, <2>1 DEF Walked
    <3>2. QED
      BY <2>1, <2>2, <3>1, Zenon
  <2>7. w[i] = EvalPeriod(H, cap, z, p, f, FALSE, u)
    <3>1. w[i] = EvalPeriod(H, ent.cap, w[i - 1], Q[i], i = 1, i = Len(Q),
                            Used(a, other, Q, i))
      BY <1>3, <2>1 DEF Walked
    <3>2. QED
      BY <2>1, <2>2, <2>3, <2>4, <3>1, Zenon
  <2>8. SoundState(G, cap, p.from, st) /\ SoundState(H, cap, p.from, z)
    BY <1>2, <1>3, <2>1, <2>2, <2>3 DEF Walked
  <2>9. z.active = st.active /\ Ids(st.active) \subseteq z.seen
    BY <1>6, <2>2, <2>8 DEF SoundState
  <2>10. Taken(G, st, p, f) = Taken(H, z, p, f)
    <3>1. i = 1 => st = Blank /\ z = Blank
      BY <1>4, <2>2
    <3>2. i # 1 => st.seen = Before(G, p.from) /\ z.seen = Before(H, p.from)
      <4>1. SUFFICES ASSUME i > 1
                     PROVE  /\ v[i - 1].seen = Before(G, P[i].from)
                            /\ w[i - 1].seen = Before(H, Q[i].from)
        BY <2>1, <2>2, <2>3
      <4>2. v[i - 1].seen = Before(G, P[i].from)
        BY <1>2, <2>1, <4>1 DEF Walked
      <4>3. w[i - 1].seen = Before(H, Q[i].from)
        BY <1>3, <2>1, <4>1 DEF Walked
      <4>4. QED
        BY <4>2, <4>3
    <3>3. Taken(G, st, p, i = 1) = Taken(H, z, p, i = 1)
      BY <1>1, <2>3, <2>5, <3>1, <3>2, TakenAlong
    <3>4. QED
      BY <2>2, <3>3, Zenon
  <2>11. PICK last : last = FALSE
    OBVIOUS
  <2>12. SameEval(EvalPeriod(G, cap, st, p, f, last, u),
                  EvalPeriod(H, cap, z, p, f, last, u))
    <3>1. cap \in Nat \cup {None}
      BY <1>1, <2>2
    <3>2. QED
      BY <1>1, <2>3, <2>5, <2>8, <2>9, <2>10, <3>1, EvalAgrees
  <2>13. Good(i)
    BY <2>6, <2>7, <2>11, <2>12 DEF SameEval
  <2> HIDE DEF Good
  <2>14. QED
    BY <2>13
<1>7. \A i \in 0 .. k : i \in C
  <2> HIDE DEF C
  <2>1. QED
    BY <1>5, <1>6, CountInduction
<1>8. QED
  BY <1>7

LEMMA AllKnown ==
  ASSUME NEW G, NEW a \in Actives, Ids(a) \subseteq DOMAIN G
  PROVE  Unvoided(G, a) = a
<1>1. {i \in DOMAIN a : a[i].id \in DOMAIN G} = DOMAIN a
  BY DEF Ids
<1>2. PICK n : n = Len(a)
  OBVIOUS
<1>3. n \in Nat /\ DOMAIN a = 1 .. n
  BY <1>2, ActiveTyped
<1>4. PICK u : u = Unvoided(G, a)
  OBVIOUS
<1> DEFINE R == {p \in Entry \X Entry :
                   \E i, j \in DOMAIN a : i < j /\ p[1] = a[i] /\ p[2] = a[j]}
<1>5. InOrder(a, R)
  <2>1. \A i \in DOMAIN a : a[i] \in Entry
    BY ActiveTyped
  <2>2. QED
    BY <2>1 DEF InOrder
<1>6. \A x, y : ~(<<x, y>> \in R /\ <<y, x>> \in R)
  <2>1. SUFFICES ASSUME NEW x, NEW y, <<x, y>> \in R, <<y, x>> \in R
                 PROVE  FALSE
    OBVIOUS
  <2>2. PICK i, j \in DOMAIN a : i < j /\ x = a[i] /\ y = a[j]
    BY <2>1
  <2>3. PICK k, l \in DOMAIN a : k < l /\ y = a[k] /\ x = a[l]
    BY <2>1
  <2>4. k = j /\ l = i
    BY <2>2, <2>3, ActiveTyped
  <2>5. QED
    BY <1>3, <2>2, <2>3, <2>4
<1> HIDE DEF R
<1>7. u \in Actives /\ Range(u) = Range(a)
  <2>1. /\ u \in Actives
        /\ \A e : e \in Range(u) <=> e \in Range(a) /\ e.id \in DOMAIN G
    BY <1>4, UnvoidedActive
  <2>2. \A e \in Range(a) : e.id \in DOMAIN G
    BY IdsOfRange
  <2>3. QED
    BY <2>1, <2>2
<1>8. InOrder(u, R)
  <2>1. PICK I : I = DOMAIN a
    OBVIOUS
  <2>2. u = Kept(a, I)
    BY <1>1, <1>4, <2>1 DEF Unvoided
  <2>3. I \in SUBSET DOMAIN a
    BY <2>1
  <2>4. QED
    BY <1>5, <2>2, <2>3, KeptInOrder
<1>9. u = a
  BY <1>5, <1>6, <1>7, <1>8, OrderUnique
<1>10. QED
  BY <1>4, <1>9

LEMMA Onwards ==
  ASSUME NEW n \in Nat, NEW j \in 0 .. n, NEW v, NEW w, v[j] = w[j],
         \A i \in 1 .. n : i > j /\ v[i - 1] = w[i - 1] => v[i] = w[i]
  PROVE  v[n] = w[n]
<1> DEFINE Good(i) == v[i] = w[i]
           C == {k \in 0 .. n - j : Good(j + k)}
<1>1. n - j \in Nat /\ j + 0 = j /\ j + (n - j) = n
  OBVIOUS
<1>2. 0 \in C
  BY <1>1
<1>3. ASSUME NEW k \in 0 .. n - j, k # 0, k - 1 \in C
      PROVE  k \in C
  <2>1. PICK i : i = j + k
    OBVIOUS
  <2>2. i \in 1 .. n /\ i > j /\ i - 1 = j + (k - 1)
    BY <1>3, <2>1
  <2>3. v[i - 1] = w[i - 1]
    BY <1>3, <2>2
  <2>4. Good(i)
    BY <2>2, <2>3
  <2> HIDE DEF Good
  <2>5. QED
    BY <2>1, <2>4
<1>4. \A k \in 0 .. n - j : k \in C
  <2> HIDE DEF C
  <2>1. QED
    BY <1>1, <1>2, <1>3, CountInduction
<1>5. n - j \in C
  BY <1>1, <1>4
<1>6. QED
  BY <1>1, <1>5

(* From a state that is the ledger's, and holds all that can still be      *)
(* spent, a period evaluated first is the period evaluated in its turn.    *)
Resumed(G, cap, p, st, z, yes, no) ==
  /\ IsLedger(G) /\ cap \in Nat \cup {None}
  /\ p.from \in Int /\ p.to \in Int /\ p.from <= p.to
  /\ SoundState(G, cap, p.from, st) /\ st.seen = Before(G, p.from)
  /\ Full(G, p.from, st.active)
  /\ z.active = st.active /\ z.seen = Ids(st.active)
  /\ yes = TRUE /\ no = FALSE

LEMMA EvalFirst ==
  ASSUME NEW G, NEW cap, NEW p, NEW st, NEW z, NEW yes, NEW no,
         Resumed(G, cap, p, st, z, yes, no), NEW last, NEW usage \in Nat
  PROVE  EvalPeriod(G, cap, st, p, no, last, usage)
           = EvalPeriod(G, cap, z, p, yes, last, usage)
<1> USE DEF Resumed
<1>1. z.active = st.active /\ z.seen = Ids(st.active)
  OBVIOUS
<1>2. Ids(st.active) \subseteq st.seen
  BY DEF SoundState
<1>3. Alike(G, G, p.to)
  BY DEF Alike
<1>4. Taken(G, st, p, no) = Due(G, p)
  BY TakenSteady
<1>5. Taken(G, z, p, yes) = Due(G, p)
  <2>1. /\ z.seen \subseteq Before(G, p.from) /\ Full(G, p.from, z.active)
        /\ Ids(z.active) \subseteq z.seen
    BY <1>1, <1>2
  <2>2. QED
    BY <2>1, TakenSteady
<1>6. PICK d, e : /\ d = EvalPeriod(G, cap, st, p, no, last, usage)
                  /\ e = EvalPeriod(G, cap, z, p, yes, last, usage)
  OBVIOUS
<1>7. SameEval(d, e)
  <2>1. Ids(st.active) \subseteq z.seen
    BY <1>1
  <2>2. QED
    BY <1>1, <1>3, <1>4, <1>5, <1>6, <2>1, EvalAgrees
<1>8. d.seen = Before(G, p.to)
  BY <1>6, SeenAfter
<1>9. e.seen = Before(G, p.to)
  <2>1. z.seen \subseteq Before(G, p.from)
    BY <1>1, <1>2
  <2>2. QED
    BY <1>6, <2>1, SeenAfter
<1>10. /\ d = [active |-> d.active, seen |-> d.seen, usage |-> d.usage,
               overage |-> d.overage]
       /\ e = [active |-> e.active, seen |-> e.seen, usage |-> e.usage,
               overage |-> e.overage]
  <2>1. \A a, s, u, o : LET r == [active |-> a, seen |-> s, usage |-> u, overage |-> o]
                        IN  r = [active |-> r.active, seen |-> r.seen,
                                 usage |-> r.usage, overage |-> r.overage]
    OBVIOUS
  <2>2. \E a, s, u, o : d = [active |-> a, seen |-> s, usage |-> u, overage |-> o]
    BY <1>6, Zenon DEF EvalPeriod
  <2>3. \E a, s, u, o : e = [active |-> a, seen |-> s, usage |-> u, overage |-> o]
    BY <1>6, Zenon DEF EvalPeriod
  <2>4. QED
    BY <2>1, <2>2, <2>3, Zenon
<1>11. d = e
  BY <1>7, <1>8, <1>9, <1>10 DEF SameEval
<1>12. QED
  BY <1>6, <1>11

LEMMA SeedSame ==
  ASSUME NEW t, NEW a, NEW ent, NEW G, NEW usage,
         NEW P, Walkable(t, ent, G, usage, P),
         NEW Q, Walkable(a, ent, G, usage, Q), Q[Len(Q)].from = a,
         NEW seed, seed.asOf = a,
         Walk(a, ent, G, usage, NoSeed)[Len(Q) - 1].active = seed.active,
         Full(G, a, seed.active)
  PROVE  Walk(t, ent, G, usage, seed)[Len(P)]
           = Walk(t, ent, G, usage, NoSeed)[Len(P)]
<1>1. PICK n, v, u, w : /\ n = Len(P)
                        /\ v = Walk(t, ent, G, usage, NoSeed)
                        /\ u = Walk(a, ent, G, usage, NoSeed)
                        /\ w = Walk(t, ent, G, usage, seed)
  OBVIOUS
<1>2. Walked(v, t, ent, G, usage, P) /\ Walked(u, a, ent, G, usage, Q)
  BY <1>1, EachWalked
<1>3. /\ n \in Nat \ {0} /\ DOMAIN P = 1 .. n /\ v[0] = Blank
      /\ Len(Q) \in Nat \ {0} /\ DOMAIN Q = 1 .. Len(Q)
  BY <1>1, <1>2, Zenon DEF Walked
<1>4. PICK j : j = StartAt(P, seed)
  OBVIOUS
<1>5. /\ j \in 1 .. n
      /\ SeedFits(P, seed) => P[j].from = a
      /\ ~SeedFits(P, seed) => j = 1
  <2>1. CASE SeedFits(P, seed)
    <3>1. j \in DOMAIN P /\ P[j].from = seed.asOf
      BY <1>4, <2>1 DEF SeedFits, StartAt
    <3>2. QED
      BY <1>3, <2>1, <3>1
  <2>2. CASE ~SeedFits(P, seed)
    BY <1>3, <1>4, <2>2 DEF StartAt
  <2>3. QED
    BY <2>1, <2>2
<1>6. /\ w[j - 1] = StartState(G, P, seed)
      /\ \A i \in j .. n : w[i] = Turn(t, ent, G, usage, P, j, w[i - 1], i)
  <2>1. /\ P = Periods(Anchor(ent), ent.dur, t)
        /\ Len(P) \in Nat \ {0} /\ j \in 1 .. Len(P)
    BY <1>1, <1>3, <1>5 DEF Walkable
  <2>2. w = Walk(t, ent, G, usage, seed) /\ n = Len(P)
    BY <1>1
  <2>3. /\ w[j - 1] = StartState(G, P, seed)
        /\ \A i \in j .. Len(P) :
             w[i] = Turn(t, ent, G, usage, P, j, w[i - 1], i)
    BY <1>4, <2>1, <2>2, WalkTurns
  <2>4. QED
    BY <2>2, <2>3
<1>7. \A i \in 1 .. n : v[i] = Turn(t, ent, G, usage, P, 1, v[i - 1], i)
  BY <1>1, <1>2, Zenon DEF Walked, Turn
<1>8. ASSUME j = 1, w[0] = Blank
      PROVE  v[n] = w[n]
  <2>1. ASSUME NEW i \in 1 .. n, v[i - 1] = w[i - 1]
        PROVE  v[i] = w[i]
    <3>1. v[i] = Turn(t, ent, G, usage, P, 1, v[i - 1], i)
      BY <1>7
    <3>2. w[i] = Turn(t, ent, G, usage, P, j, w[i - 1], i)
      BY <1>6, <1>8
    <3>3. QED
      BY <1>8, <2>1, <3>1, <3>2
  <2>2. PICK z : z = 0
    OBVIOUS
  <2>3. n \in Nat /\ z \in 0 .. n /\ v[z] = w[z]
    BY <1>3, <1>8, <2>2
  <2>4. QED
    BY <2>1, <2>3, Onwards
<1>9. CASE ~SeedFits(P, seed)
  <2>1. j = 1 /\ w[0] = Blank
    BY <1>5, <1>6, <1>9 DEF StartState
  <2>2. QED
    BY <1>1, <1>8, <2>1
<1>10. CASE SeedFits(P, seed)
  <2>1. P[j].from = a
    BY <1>5, <1>10
  <2>2. Len(Q) = j /\ \A i \in 1 .. j : P[i] = Q[i]
    <3>1. PICK anchor, dur : anchor = Anchor(ent) /\ dur = ent.dur
      OBVIOUS
    <3>2. /\ anchor \in Int /\ dur \in Nat \ {0} /\ t \in Int /\ a \in Int
          /\ P = Periods(anchor, dur, t) /\ Q = Periods(anchor, dur, a)
      BY <3>1 DEF Walkable
    <3>3. j \in 1 .. Len(P)
      BY <1>1, <1>5
    <3>4. QED
      BY <2>1, <3>2, <3>3, PeriodsPrefix
  <2>3. v[j - 1].active = seed.active
    <3>1. PICK k : k = j - 1
      OBVIOUS
    <3>2. k \in Nat /\ k < Len(P) /\ k < Len(Q) /\ k \in 0 .. k
      BY <1>1, <1>5, <2>2, <3>1
    <3>3. Alongside(P, Q, G, G, usage, usage, k)
      <4>1. \A i \in 1 .. k : P[i] = Q[i]
        BY <1>5, <2>2, <3>1
      <4>2. QED
        BY <3>2, <4>1 DEF Alongside, Alike
    <3>4. \A i \in 0 .. k : v[i].active = u[i].active
      BY <1>1, <3>2, <3>3, WalksAgree
    <3>5. v[k].active = u[k].active
      BY <3>2, <3>4
    <3>6. u[k].active = seed.active
      BY <1>1, <2>2, <3>1
    <3>7. QED
      BY <3>1, <3>5, <3>6
  <2>4. PICK p, st, cap, use, last :
          /\ p = P[j] /\ st = v[j - 1] /\ cap = ent.cap
          /\ use = Used(t, usage, P, j) /\ last = (j = n)
    OBVIOUS
  <2>5. /\ p.from \in Int /\ p.to \in Int /\ p.from <= p.to /\ use \in Nat
        /\ SoundState(G, cap, p.from, st)
        /\ j > 1 => st.seen = Before(G, p.from)
    BY <1>1, <1>2, <1>5, <2>4 DEF Walked
  <2>6. p.from = a /\ st.active = seed.active
    BY <2>1, <2>3, <2>4
  <2>7. w[j - 1] = [active |-> st.active, seen |-> Ids(st.active)]
    <3>1. st.active \in Actives /\ Ids(st.active) \subseteq DOMAIN G
      <4>1. /\ st.active \in Actives
            /\ \A e \in Range(st.active) : e.id \in DOMAIN G
        BY <2>5 DEF SoundState, Sound, MayHold
      <4>2. QED
        BY <4>1, IdsOfRange
    <3>2. Unvoided(G, seed.active) = st.active
      BY <2>6, <3>1, AllKnown
    <3>3. QED
      BY <1>6, <1>10, <3>2 DEF StartState
  <2>8. CASE j = 1
    <3>1. w[0] = Blank
      <4>1. st = Blank
        BY <1>3, <2>4, <2>8
      <4>2. st.active = << >> /\ Ids(<< >>) = {}
        BY <4>1 DEF Blank, Ids
      <4>3. w[j - 1] = [active |-> << >>, seen |-> {}]
        BY <2>7, <4>2
      <4>4. QED
        BY <2>8, <4>3 DEF Blank
    <3>2. QED
      BY <1>1, <1>8, <2>8, <3>1
  <2>9. CASE j # 1
    <3>1. j > 1 /\ (j = 1) = FALSE
      BY <1>5, <2>9
    <3>2. PICK z : z = [active |-> st.active, seen |-> Ids(st.active)]
      OBVIOUS
    <3>3. PICK yes, no : yes = TRUE /\ no = FALSE
      OBVIOUS
    <3>4. EvalPeriod(G, cap, st, p, no, last, use)
            = EvalPeriod(G, cap, z, p, yes, last, use)
      <4>1. IsLedger(G) /\ cap \in Nat \cup {None}
        BY <2>4 DEF Walkable
      <4>2. st.seen = Before(G, p.from) /\ Full(G, p.from, st.active)
        BY <2>5, <2>6, <3>1
      <4>3. z.active = st.active /\ z.seen = Ids(st.active)
        BY <3>2
      <4>4. Resumed(G, cap, p, st, z, yes, no)
        BY <2>5, <3>3, <4>1, <4>2, <4>3 DEF Resumed
      <4>5. use \in Nat
        BY <2>5
      <4>6. QED
        BY <4>4, <4>5, EvalFirst
    <3>5. v[j] = EvalPeriod(G, cap, st, p, no, last, use)
      <4>1. v[j] = Turn(t, ent, G, usage, P, 1, v[j - 1], j)
        BY <1>5, <1>7
      <4>2. v[j] = EvalPeriod(G, ent.cap, v[j - 1], P[j], j = 1, j = n,
                              Used(t, usage, P, j))
        BY <1>1, <4>1 DEF Turn
      <4>3. QED
        BY <2>4, <3>1, <3>3, <4>2, Zenon
    <3>6. w[j] = EvalPeriod(G, cap, z, p, yes, last, use)
      <4>1. w[j] = Turn(t, ent, G, usage, P, j, w[j - 1], j)
        BY <1>5, <1>6
      <4>2. w[j] = EvalPeriod(G, ent.cap, w[j - 1], P[j], j = j, j = n,
                              Used(t, usage, P, j))
        BY <1>1, <4>1 DEF Turn
      <4>3. w[j - 1] = z /\ (j = j) = TRUE
        BY <2>7, <3>2
      <4>4. QED
        BY <2>4, <3>3, <4>2, <4>3, Zenon
    <3>7. v[j] = w[j]
      BY <3>4, <3>5, <3>6
    <3>8. ASSUME NEW i \in 1 .. n, i > j, v[i - 1] = w[i - 1]
          PROVE  v[i] = w[i]
      <4>1. v[i] = Turn(t, ent, G, usage, P, 1, v[i - 1], i)
        BY <1>7
      <4>2. w[i] = Turn(t, ent, G, usage, P, j, w[i - 1], i)
        BY <1>5, <1>6, <3>8
      <4>3. (i = 1) = FALSE /\ (i = j) = FALSE
        BY <1>5, <3>8
      <4>4. QED
        BY <3>8, <4>1, <4>2, <4>3, Zenon DEF Turn
    <3>9. n \in Nat /\ j \in 0 .. n
      BY <1>3, <1>5
    <3>10. v[n] = w[n]
      BY <3>7, <3>8, <3>9, Onwards
    <3>11. QED
      BY <1>1, <3>10
  <2>10. QED
    BY <2>8, <2>9
<1>11. QED
  BY <1>9, <1>10

----------------------------------------------------------------------------
(* Boundaries lie on the grid of the anchor, before it too, and a time's   *)
(* period begins at the last of them that is not after it.                 *)
OnGrid(anchor, dur, x) == \E m \in Int : x = anchor + m * dur

Begins(anchor, dur, t, x) ==
  /\ x \in Int /\ OnGrid(anchor, dur, x) /\ x <= t /\ t < x + dur

LastFrom(anchor, dur, t) ==
  LET P == Periods(anchor, dur, t) IN P[Len(P)].from

LEMMA FirstOnGrid ==
  ASSUME NEW anchor \in Int, NEW dur \in Nat \ {0}, NEW t \in Int
  PROVE  OnGrid(anchor, dur, FirstFrom(anchor, dur, t))
<1>1. CASE anchor <= t
  <2>1. FirstFrom(anchor, dur, t) = anchor + 0 * dur /\ 0 \in Int
    BY <1>1 DEF FirstFrom
  <2>2. QED
    BY <2>1 DEF OnGrid
<1>2. CASE ~(anchor <= t)
  <2> DEFINE q == (anchor - t + dur - 1) \div dur
  <2>1. q \in Int
    BY Quotient
  <2>2. FirstFrom(anchor, dur, t) = anchor - dur * q
    BY <1>2 DEF FirstFrom
  <2> HIDE DEF q
  <2>3. PICK m : m = -q
    OBVIOUS
  <2>4. m \in Int /\ anchor - dur * q = anchor + m * dur
    BY <2>1, <2>3
  <2>5. QED
    BY <2>2, <2>4 DEF OnGrid
<1>3. QED
  BY <1>1, <1>2

LEMMA GridNear ==
  ASSUME NEW anchor \in Int, NEW dur \in Nat \ {0}, NEW s \in Int, NEW t \in Int,
         NEW x, Begins(anchor, dur, s, x), NEW y, Begins(anchor, dur, t, y),
         s <= t
  PROVE  x <= y
<1>1. PICK m \in Int : x = anchor + m * dur
  BY DEF Begins, OnGrid
<1>2. PICK k \in Int : y = anchor + k * dur
  BY DEF Begins, OnGrid
<1>3. SUFFICES ASSUME y < x PROVE FALSE
  BY DEF Begins
<1>4. PICK u, v : u = m * dur /\ v = k * dur
  OBVIOUS
<1>5. u \in Int /\ v \in Int /\ x = anchor + u /\ y = anchor + v
  BY <1>1, <1>2, <1>4, TimesMonotone
<1>6. k < m
  <2>1. m <= k => u <= v
    BY <1>4, TimesMonotone
  <2>2. ~(u <= v)
    BY <1>3, <1>5
  <2>3. QED
    BY <2>1, <2>2
<1>7. v + dur <= u
  BY <1>4, <1>6, TimesMonotone
<1>8. QED
  BY <1>5, <1>7 DEF Begins

LEMMA LastBegins ==
  ASSUME NEW anchor \in Int, NEW dur \in Nat \ {0}, NEW t \in Int,
         NEW P, P = Periods(anchor, dur, t), NEW i \in 1 .. Len(P)
  PROVE  /\ Begins(anchor, dur, P[i].from, P[i].from)
         /\ Begins(anchor, dur, t, P[Len(P)].from)
         /\ P[i].from <= P[Len(P)].from
<1>1. PICK x, n : /\ x = FirstFrom(anchor, dur, t) /\ n = Len(P)
                  /\ Shaped(P, x, anchor, dur, t)
  BY PeriodsAre
<1>2. n \in Nat \ {0} /\ x \in Int
  BY <1>1 DEF Shaped
<1>3. PICK m \in Int : x = anchor + m * dur
  BY <1>1, FirstOnGrid DEF OnGrid
<1>4. ASSUME NEW j \in 1 .. n
      PROVE  /\ P[j].from = x + (j - 1) * dur /\ P[j].from \in Int
             /\ OnGrid(anchor, dur, P[j].from)
  <2>1. P[j].from = x + (j - 1) * dur
    BY <1>1, <1>4 DEF Shaped
  <2>2. PICK k \in Int : k = j - 1
    BY <1>2
  <2>3. PICK u, v : u = m * dur /\ v = k * dur
    OBVIOUS
  <2>4. u \in Int /\ v \in Int /\ (m + k) * dur = u + v /\ m + k \in Int
    BY <2>2, <2>3, TimesMonotone
  <2>5. P[j].from = x + v /\ x = anchor + u
    BY <1>3, <2>1, <2>2, <2>3
  <2>6. P[j].from \in Int /\ P[j].from = anchor + (m + k) * dur
    BY <1>2, <2>4, <2>5
  <2>7. QED
    BY <2>1, <2>4, <2>6 DEF OnGrid
<1>5. i \in 1 .. n /\ n \in 1 .. n
  BY <1>1, <1>2
<1>6. Begins(anchor, dur, P[i].from, P[i].from)
  BY <1>4, <1>5 DEF Begins
<1>7. Begins(anchor, dur, t, P[n].from)
  <2>1. P[n].from \in Int /\ OnGrid(anchor, dur, P[n].from)
    BY <1>4, <1>5
  <2>2. P[n].from = x + (n - 1) * dur
    BY <1>4, <1>5
  <2>3. x + (n - 1) * dur <= t /\ t < x + n * dur
    BY <1>1 DEF Shaped
  <2>4. (n - 1) * dur \in Int /\ n * dur = (n - 1) * dur + dur
    BY <1>2
  <2>5. P[n].from <= t /\ t < P[n].from + dur
    BY <1>2, <2>2, <2>3, <2>4
  <2>6. QED
    BY <2>1, <2>5 DEF Begins
<1>8. P[i].from <= P[n].from
  <2>1. PICK u, v : u = (i - 1) * dur /\ v = (n - 1) * dur
    OBVIOUS
  <2>2. i - 1 \in Int /\ n - 1 \in Int /\ i - 1 <= n - 1
    BY <1>2, <1>5
  <2>3. u \in Int /\ v \in Int /\ u <= v
    BY <2>1, <2>2, TimesMonotone
  <2>4. P[i].from = x + u /\ P[n].from = x + v
    BY <1>4, <1>5, <2>1
  <2>5. QED
    BY <1>2, <2>3, <2>4
<1>9. QED
  BY <1>1, <1>6, <1>7, <1>8

LEMMA LastFromIs ==
  ASSUME NEW anchor \in Int, NEW dur \in Nat \ {0}, NEW t \in Int
  PROVE  Begins(anchor, dur, t, LastFrom(anchor, dur, t))
<1>1. PICK P : P = Periods(anchor, dur, t)
  OBVIOUS
<1>2. Len(P) \in Nat \ {0}
  BY <1>1, PeriodsAre DEF Shaped
<1>3. PICK i : i = Len(P)
  OBVIOUS
<1>4. i \in 1 .. Len(P)
  BY <1>2, <1>3
<1>5. Begins(anchor, dur, t, P[Len(P)].from)
  BY <1>1, <1>4, LastBegins
<1>6. QED
  BY <1>1, <1>5 DEF LastFrom

LEMMA LastFromMonotone ==
  ASSUME NEW anchor \in Int, NEW dur \in Nat \ {0}, NEW s \in Int, NEW t \in Int,
         s <= t
  PROVE  LastFrom(anchor, dur, s) <= LastFrom(anchor, dur, t)
BY LastFromIs, GridNear

(* A boundary's period begins there.                                       *)
LEMMA LastFromSteady ==
  ASSUME NEW anchor \in Int, NEW dur \in Nat \ {0}, NEW b,
         Begins(anchor, dur, b, b)
  PROVE  LastFrom(anchor, dur, b) = b
<1>1. b \in Int
  BY DEF Begins
<1>2. PICK x : x = LastFrom(anchor, dur, b)
  OBVIOUS
<1>3. Begins(anchor, dur, b, x) /\ x \in Int
  BY <1>1, <1>2, LastFromIs DEF Begins
<1>4. b <= b
  BY <1>1
<1>5. x <= b /\ b <= x
  BY <1>1, <1>3, <1>4, GridNear
<1>6. QED
  BY <1>1, <1>2, <1>3, <1>5

----------------------------------------------------------------------------
(* What the ledger carries over a boundary b.                              *)
CarriedTo(b, ent, G, usage) ==
  Walk(b, ent, G, usage, NoSeed)[Len(Periods(Anchor(ent), ent.dur, b)) - 1].active

(* Every walk that comes by the boundary carries the same over it.         *)
LEMMA CarriedInWalk ==
  ASSUME NEW t, NEW ent, NEW G, NEW usage, NEW P, Walkable(t, ent, G, usage, P),
         NEW i \in 1 .. Len(P), NEW v, v = Walk(t, ent, G, usage, NoSeed)
  PROVE  v[i - 1].active = CarriedTo(P[i].from, ent, G, usage)
<1>1. PICK anchor, dur, b, Q, w :
        /\ anchor = Anchor(ent) /\ dur = ent.dur /\ b = P[i].from
        /\ Q = Periods(anchor, dur, b) /\ w = Walk(b, ent, G, usage, NoSeed)
  OBVIOUS
<1>2. /\ anchor \in Int /\ dur \in Nat \ {0} /\ t \in Int
      /\ P = Periods(anchor, dur, t)
  BY <1>1 DEF Walkable
<1>3. b \in Int /\ Begins(anchor, dur, b, b)
  BY <1>1, <1>2, LastBegins DEF Begins
<1>4. Q[Len(Q)].from = b
  <2>1. LastFrom(anchor, dur, b) = b
    BY <1>2, <1>3, LastFromSteady
  <2>2. QED
    BY <1>1, <2>1 DEF LastFrom
<1>5. Walkable(b, ent, G, usage, Q)
  BY <1>1, <1>3 DEF Walkable
<1>6. Len(Q) = i /\ \A j \in 1 .. i : P[j] = Q[j]
  BY <1>1, <1>2, <1>3, <1>4, PeriodsPrefix
<1>7. Len(P) \in Nat \ {0}
  BY <1>2, PeriodsAre DEF Shaped
<1>8. PICK k : k = i - 1
  OBVIOUS
<1>9. k \in Nat /\ k < Len(P) /\ k < Len(Q) /\ k \in 0 .. k
  BY <1>6, <1>7, <1>8
<1>10. Alongside(P, Q, G, G, usage, usage, k)
  <2>1. \A j \in 1 .. k : P[j] = Q[j]
    BY <1>6, <1>7, <1>8
  <2>2. QED
    BY <1>9, <2>1 DEF Alongside, Alike
<1>11. \A j \in 0 .. k : v[j].active = w[j].active
  BY <1>1, <1>5, <1>9, <1>10, WalksAgree
<1>12. v[k].active = w[k].active
  BY <1>9, <1>11
<1>13. CarriedTo(b, ent, G, usage) = w[k].active
  BY <1>1, <1>6, <1>8 DEF CarriedTo
<1>14. QED
  BY <1>1, <1>8, <1>12, <1>13

(* What takes effect or is used after it makes no difference.              *)
SameTo(b, ent, G, H, usage, other, P) ==
  /\ Walkable(b, ent, G, usage, P) /\ Walkable(b, ent, H, other, P)
  /\ P[Len(P)].from = b /\ Alike(G, H, b)
  /\ \A x, y \in Int : y <= b => usage[<<x, y>>] = other[<<x, y>>]

LEMMA CarriedSame ==
  ASSUME NEW b, NEW ent, NEW G, NEW H, NEW usage, NEW other, NEW P,
         SameTo(b, ent, G, H, usage, other, P)
  PROVE  CarriedTo(b, ent, G, usage) = CarriedTo(b, ent, H, other)
<1>0. /\ Walkable(b, ent, G, usage, P) /\ Walkable(b, ent, H, other, P)
      /\ P[Len(P)].from = b /\ Alike(G, H, b)
      /\ \A x, y \in Int : y <= b => usage[<<x, y>>] = other[<<x, y>>]
  BY DEF SameTo
<1>1. PICK v, w : /\ v = Walk(b, ent, G, usage, NoSeed)
                  /\ w = Walk(b, ent, H, other, NoSeed)
  OBVIOUS
<1>2. PICK n, k : n = Len(P) /\ k = n - 1
  OBVIOUS
<1>3. Walked(v, b, ent, G, usage, P)
  BY <1>0, <1>1, EachWalked
<1>4. n \in Nat \ {0} /\ k \in Nat /\ k < n /\ k \in 0 .. k
  BY <1>2, <1>3 DEF Walked
<1>5. ASSUME NEW i \in 1 .. k
      PROVE  /\ P[i].from \in Int /\ P[i].to \in Int /\ P[i].to <= b
  <2>1. i \in 1 .. n /\ i + 1 \in 1 .. n /\ i + 1 > 1 /\ i + 1 - 1 = i
    BY <1>2, <1>4
  <2>2. P[i].from \in Int /\ P[i].to \in Int
    BY <1>2, <1>3, <2>1 DEF Walked
  <2>3. P[i + 1].from = P[i].to
    BY <1>2, <1>3, <2>1 DEF Walked
  <2>4. PICK j : j = i + 1
    OBVIOUS
  <2>5. P[j].from <= P[Len(P)].from
    <3>1. PICK anchor, dur : anchor = Anchor(ent) /\ dur = ent.dur
      OBVIOUS
    <3>2. /\ anchor \in Int /\ dur \in Nat \ {0} /\ b \in Int
          /\ P = Periods(anchor, dur, b)
      BY <1>0, <3>1 DEF Walkable
    <3>3. j \in 1 .. Len(P)
      BY <1>2, <2>1, <2>4
    <3>4. QED
      BY <3>2, <3>3, LastBegins
  <2>6. QED
    BY <1>0, <2>2, <2>3, <2>4, <2>5
<1>6. ASSUME NEW i \in 1 .. k
      PROVE  /\ P[i] = P[i] /\ Alike(G, H, P[i].to)
             /\ usage[<<P[i].from, P[i].to>>] = other[<<P[i].from, P[i].to>>]
  <2>1. P[i].from \in Int /\ P[i].to \in Int /\ P[i].to <= b
    BY <1>5
  <2>2. /\ \A g \in DOMAIN G : G[g].effective \in Int
        /\ \A g \in DOMAIN H : H[g].effective \in Int
        /\ b \in Int
    BY <1>0 DEF Walkable, IsLedger
  <2>3. PICK e : e = P[i].to
    OBVIOUS
  <2>4. ASSUME NEW g
        PROVE  /\ g \in DOMAIN G /\ G[g].effective < e => G[g].effective < b
               /\ g \in DOMAIN H /\ H[g].effective < e => H[g].effective < b
    BY <2>1, <2>2, <2>3
  <2>5. Alike(G, H, e)
    BY <1>0, <2>4 DEF Alike
  <2>6. QED
    BY <1>0, <2>1, <2>3, <2>5
<1>7. Alongside(P, P, G, H, usage, other, k)
  BY <1>2, <1>4, <1>6 DEF Alongside
<1>8. \A i \in 0 .. k : v[i].active = w[i].active
  BY <1>0, <1>1, <1>4, <1>7, WalksAgree
<1>9. v[k].active = w[k].active
  BY <1>4, <1>8
<1>10. P = Periods(Anchor(ent), ent.dur, b)
  BY <1>0 DEF Walkable
<1>11. QED
  BY <1>1, <1>2, <1>9, <1>10 DEF CarriedTo

(* It is of grants of the ledger that have begun; nothing is carried into  *)
(* the first period.                                                       *)
LEMMA CarriedKnown ==
  ASSUME NEW t, NEW ent, NEW G, NEW usage, NEW P, Walkable(t, ent, G, usage, P),
         NEW i \in 1 .. Len(P),
         NEW a, a = CarriedTo(P[i].from, ent, G, usage)
  PROVE  /\ a \in Actives
         /\ \A e \in Range(a) :
              e.id \in DOMAIN G /\ G[e.id].effective < P[i].from
         /\ Ids(a) \subseteq Before(G, P[i].from)
         /\ i = 1 => a = << >>
<1>1. PICK v : v = Walk(t, ent, G, usage, NoSeed)
  OBVIOUS
<1>2. Walked(v, t, ent, G, usage, P)
  BY <1>1, EachWalked
<1>3. v[i - 1].active = a
  BY <1>1, CarriedInWalk
<1>4. SoundState(G, ent.cap, P[i].from, v[i - 1]) /\ v[0] = Blank
  BY <1>2 DEF Walked
<1>5. /\ a \in Actives
      /\ \A e \in Range(a) : e.id \in DOMAIN G /\ G[e.id].effective < P[i].from
  BY <1>3, <1>4 DEF SoundState, Sound, MayHold
<1>6. Ids(a) \subseteq Before(G, P[i].from)
  BY <1>5, IdsOfRange DEF Before
<1>7. i = 1 => a = << >>
  BY <1>3, <1>4 DEF Blank
<1>8. QED
  BY <1>5, <1>6, <1>7

(* A walk in step with the ledger at a boundary, whichever seed it is from *)
(* and however many periods it has evaluated.                              *)
InStep(H, b, carried, st, first, i) ==
  /\ st.active = carried
  /\ i = 1 => first = TRUE /\ st = Blank
  /\ i > 1 /\ first = TRUE =>
       st.seen = Ids(st.active) /\ Full(H, b, st.active)
  /\ i > 1 /\ first # TRUE => first = FALSE /\ st.seen = Before(H, b)

(* Then it takes in what the ledger's own walk does.                       *)
Abreast(G, H, p, st, z, one, first) ==
  /\ Taken(G, st, p, one) = Taken(H, z, p, first)
  /\ Ids(z.active) \subseteq z.seen
  /\ z.seen \subseteq Before(H, p.from)
  /\ first = TRUE \/ (first = FALSE /\ z.seen = Before(H, p.from))

Matched(G, H, p, st, i) ==
  /\ IsLedger(G) /\ IsLedger(H) /\ Alike(G, H, p.to)
  /\ p.from \in Int /\ p.to \in Int /\ p.from <= p.to
  /\ i \in Nat \ {0}
  /\ i = 1 => st = Blank
  /\ i > 1 => st.seen = Before(G, p.from)

LEMMA TakenInStep ==
  ASSUME NEW G, NEW H, NEW p, NEW st, NEW z, NEW i, Matched(G, H, p, st, i),
         NEW first, InStep(H, p.from, z.active, z, first, i),
         Ids(z.active) \subseteq Before(H, p.from),
         NEW one, one = (i = 1)
  PROVE  Abreast(G, H, p, st, z, one, first)
<1> USE DEF Matched
<1>1. CASE i = 1
  <2>1. (i = 1) = TRUE /\ first = TRUE /\ st = Blank /\ z = Blank
    BY <1>1 DEF InStep
  <2>2. Taken(G, Blank, p, TRUE) = Taken(H, Blank, p, TRUE)
    BY TakenBlank
  <2>3. Ids(z.active) = {} /\ z.seen = {}
    BY <2>1 DEF Blank, Ids
  <2>4. Taken(G, st, p, one) = Taken(H, z, p, first)
    BY <2>1, <2>2, Zenon
  <2>5. QED
    BY <2>1, <2>3, <2>4 DEF Abreast
<1>2. CASE i # 1
  <2>1. i > 1 /\ (i = 1) = FALSE /\ (first = TRUE \/ first = FALSE)
    <3>1. (i = 1) = FALSE
      BY <1>2
    <3>2. i > 1
      BY <1>2
    <3>3. first # TRUE => first = FALSE
      BY <3>2, Zenon DEF InStep
    <3>4. QED
      BY <3>1, <3>2, <3>3, Zenon
  <2>2. st.seen = Before(G, p.from)
    BY <2>1
  <2>3. PICK no : no = FALSE
    OBVIOUS
  <2>4. Taken(G, st, p, no) = Due(G, p)
    BY <2>2, <2>3, TakenSteady
  <2>5. Due(G, p) = Due(H, p)
    BY DueAlike
  <2>6. CASE first = TRUE
    <3>1. z.seen = Ids(z.active) /\ Full(H, p.from, z.active)
      BY <2>1, <2>6 DEF InStep
    <3>2. Taken(H, z, p, first) = Due(H, p)
      BY <2>6, <3>1, TakenSteady
    <3>3. QED
      BY <2>1, <2>3, <2>4, <2>5, <2>6, <3>1, <3>2 DEF Abreast
  <2>7. CASE first = FALSE
    <3>1. z.seen = Before(H, p.from)
      BY <2>1, <2>7 DEF InStep
    <3>2. Taken(H, z, p, first) = Due(H, p)
      BY <2>7, <3>1, TakenSteady
    <3>3. QED
      BY <2>1, <2>3, <2>4, <2>5, <2>7, <3>1, <3>2 DEF Abreast
  <2>8. QED
    BY <2>1, <2>6, <2>7
<1>3. QED
  BY <1>1, <1>2

(* And evaluates the period as the ledger's own does.                      *)
LEMMA EvalInStep ==
  ASSUME NEW t, NEW ent, NEW G, NEW usage, NEW P, Walkable(t, ent, G, usage, P),
         NEW H, IsLedger(H), NEW i \in 1 .. Len(P), i < Len(P),
         Alike(G, H, P[i].to), NEW z, NEW first,
         InStep(H, P[i].from, CarriedTo(P[i].from, ent, G, usage), z, first, i),
         NEW no, no = FALSE,
         NEW e, e = EvalPeriod(H, ent.cap, z, P[i], first, no,
                               usage[<<P[i].from, P[i].to>>])
  PROVE  InStep(H, P[i + 1].from, CarriedTo(P[i + 1].from, ent, G, usage),
                [active |-> e.active, seen |-> e.seen], no, i + 1)
<1>1. PICK v : v = Walk(t, ent, G, usage, NoSeed)
  OBVIOUS
<1>2. Walked(v, t, ent, G, usage, P)
  BY <1>1, EachWalked
<1>3. PICK p, st, cap, u, one :
        /\ p = P[i] /\ st = v[i - 1] /\ cap = ent.cap
        /\ u = usage[<<P[i].from, P[i].to>>] /\ one = (i = 1)
  OBVIOUS
<1>4. /\ Len(P) \in Nat \ {0} /\ i \in Nat \ {0} /\ i + 1 \in 1 .. Len(P)
      /\ i + 1 > 1 /\ i + 1 - 1 = i /\ (i = Len(P)) = FALSE
  BY <1>2 DEF Walked
<1>5. /\ p.from \in Int /\ p.to \in Int /\ p.from <= p.to
      /\ P[i + 1].from = p.to
      /\ SoundState(G, cap, p.from, st)
      /\ i > 1 => st.seen = Before(G, p.from)
  <2>1. /\ P[i].from \in Int /\ P[i].to \in Int /\ P[i].from <= P[i].to
        /\ SoundState(G, ent.cap, P[i].from, v[i - 1])
        /\ i > 1 => v[i - 1].seen = Before(G, P[i].from)
    BY <1>2 DEF Walked
  <2>2. PICK k : k = i + 1
    OBVIOUS
  <2>3. P[k].from = P[k - 1].to /\ k - 1 = i
    <3>1. k \in 1 .. Len(P) /\ k > 1 /\ k - 1 = i
      BY <1>4, <2>2
    <3>2. QED
      BY <1>2, <3>1 DEF Walked
  <2>4. QED
    BY <1>3, <2>1, <2>2, <2>3
<1>6. u \in Nat /\ Used(t, usage, P, i) = u
  <2>1. Used(t, usage, P, i) = u
    BY <1>3, <1>4 DEF Used, UpTo
  <2>2. Used(t, usage, P, i) \in Nat
    BY <1>2 DEF Walked
  <2>3. QED
    BY <2>1, <2>2
<1>7. v[i] = EvalPeriod(G, cap, st, p, one, no, u)
  <2>1. v[i] = EvalPeriod(G, ent.cap, v[i - 1], P[i], i = 1, i = Len(P),
                          Used(t, usage, P, i))
    BY <1>2 DEF Walked
  <2>2. QED
    BY <1>3, <1>4, <1>6, <2>1, Zenon
<1>8. st.active = z.active
  <2>1. st.active = CarriedTo(P[i].from, ent, G, usage)
    BY <1>1, <1>3, CarriedInWalk
  <2>2. QED
    BY <2>1 DEF InStep
<1>9. Ids(z.active) \subseteq Before(H, p.from)
  <2>1. Ids(st.active) \subseteq Before(G, p.from)
    <3>1. PICK a : a = CarriedTo(P[i].from, ent, G, usage)
      OBVIOUS
    <3>2. Ids(a) \subseteq Before(G, P[i].from)
      BY <3>1, CarriedKnown
    <3>3. st.active = a
      BY <1>1, <1>3, <3>1, CarriedInWalk
    <3>4. QED
      BY <1>3, <3>2, <3>3
  <2>2. ASSUME NEW g \in Before(G, p.from) PROVE g \in Before(H, p.from)
    <3>1. g \in DOMAIN G /\ G[g].effective < p.from /\ G[g].effective \in Int
      BY DEF Before, Walkable, IsLedger
    <3>2. G[g].effective < p.to
      BY <1>5, <3>1
    <3>3. g \in DOMAIN H /\ H[g] = G[g]
      BY <1>3, <3>1, <3>2 DEF Alike
    <3>4. QED
      BY <3>1, <3>3 DEF Before
  <2>3. QED
    BY <1>8, <2>1, <2>2
<1>10. InStep(H, p.from, z.active, z, first, i)
  BY <1>3 DEF InStep
<1>11. i = 1 => st = Blank
  <2>1. i = 1 => i - 1 = 0
    OBVIOUS
  <2>2. v[0] = Blank
    BY <1>2 DEF Walked
  <2>3. QED
    BY <1>3, <2>1, <2>2
<1>12. Abreast(G, H, p, st, z, one, first)
  <2>1. Matched(G, H, p, st, i)
    BY <1>3, <1>4, <1>5, <1>11 DEF Matched, Walkable
  <2>2. one = (i = 1)
    BY <1>3
  <2>3. QED
    BY <1>9, <1>10, <2>1, <2>2, TakenInStep
<1>13. e = EvalPeriod(H, cap, z, p, first, no, u)
  BY <1>3
<1>14. e.seen = Before(H, p.to)
  <2>1. z.seen \subseteq Before(H, p.from)
    BY <1>12 DEF Abreast
  <2>2. CASE first = TRUE
    <3>1. PICK yes : yes = TRUE
      OBVIOUS
    <3>2. e = EvalPeriod(H, cap, z, p, yes, no, u)
      BY <1>13, <2>2, <3>1
    <3>3. EvalPeriod(H, cap, z, p, yes, no, u).seen = Before(H, p.to)
      BY <1>5, <2>1, <3>1, SeenAfter
    <3>4. QED
      BY <3>2, <3>3
  <2>3. CASE first = FALSE /\ z.seen = Before(H, p.from)
    BY <1>5, <1>13, <2>1, <2>3, SeenAfter
  <2>4. QED
    BY <1>12, <2>2, <2>3 DEF Abreast
<1>15. SameEval(v[i], e)
  <2>1. IsLedger(G) /\ Alike(G, H, p.to) /\ cap \in Nat \cup {None}
    BY <1>3 DEF Walkable
  <2>2. Taken(G, st, p, one) = Taken(H, z, p, first)
    BY <1>12 DEF Abreast
  <2>3. Ids(st.active) \subseteq z.seen /\ z.active = st.active
    BY <1>8, <1>12 DEF Abreast
  <2>4. SameEval(EvalPeriod(G, cap, st, p, one, no, u),
                 EvalPeriod(H, cap, z, p, first, no, u))
    BY <1>5, <1>6, <2>1, <2>2, <2>3, EvalAgrees
  <2>5. QED
    BY <1>7, <1>13, <2>4
<1>16. v[i].active = CarriedTo(P[i + 1].from, ent, G, usage)
  <2>1. PICK k : k = i + 1
    OBVIOUS
  <2>2. k \in 1 .. Len(P) /\ k - 1 = i
    BY <1>4, <2>1
  <2>3. v[k - 1].active = CarriedTo(P[k].from, ent, G, usage)
    BY <1>1, <2>2, CarriedInWalk
  <2>4. QED
    BY <2>1, <2>2, <2>3
<1>17. e.active = CarriedTo(P[i + 1].from, ent, G, usage)
  BY <1>15, <1>16 DEF SameEval
<1>18. e.seen = Before(H, P[i + 1].from)
  BY <1>5, <1>14
<1>19. i + 1 # 1
  BY <1>4
<1>20. no # TRUE
  BY Zenon
<1>21. QED
  BY <1>17, <1>18, <1>19, <1>20 DEF InStep

(* It begins in step: at the first period from nothing, or at a boundary   *)
(* from what the ledger carries over it, if no grant was dropped as spent. *)
LEMMA WalkableLen ==
  ASSUME NEW t, NEW ent, NEW G, NEW usage, NEW P, Walkable(t, ent, G, usage, P)
  PROVE  Len(P) \in Nat \ {0} /\ DOMAIN P = 1 .. Len(P)
<1>1. PICK anchor, dur : anchor = Anchor(ent) /\ dur = ent.dur
  OBVIOUS
<1>2. /\ anchor \in Int /\ dur \in Nat \ {0} /\ t \in Int
      /\ P = Periods(anchor, dur, t)
  BY <1>1 DEF Walkable
<1>3. QED
  BY <1>2, PeriodsAre DEF Shaped

LEMMA BlankInStep ==
  ASSUME NEW t, NEW ent, NEW G, NEW usage, NEW P, Walkable(t, ent, G, usage, P),
         NEW H, NEW yes, yes = TRUE, NEW i, i = 1
  PROVE  InStep(H, P[i].from, CarriedTo(P[i].from, ent, G, usage), Blank, yes, i)
<1>1. i \in 1 .. Len(P)
  <2>1. Len(P) \in Nat \ {0}
    BY WalkableLen
  <2>2. QED
    BY <2>1
<1>2. PICK a : a = CarriedTo(P[i].from, ent, G, usage)
  OBVIOUS
<1>3. a = << >>
  BY <1>1, <1>2, CarriedKnown
<1>4. QED
  BY <1>2, <1>3 DEF InStep, Blank

LEMMA StartInStep ==
  ASSUME NEW t, NEW ent, NEW G, NEW usage, NEW P, Walkable(t, ent, G, usage, P),
         NEW H, Alike(G, H, P[Len(P)].from),
         NEW seed, SeedFits(P, seed), IsLedger(H),
         seed.active = CarriedTo(seed.asOf, ent, G, usage),
         Full(G, seed.asOf, seed.active),
         NEW i, i = StartAt(P, seed), NEW yes, yes = TRUE
  PROVE  InStep(H, P[i].from, CarriedTo(P[i].from, ent, G, usage),
                StartState(H, P, seed), yes, i)
<1>1. PICK a, b : a = seed.active /\ b = seed.asOf
  OBVIOUS
<1>2. DOMAIN P = 1 .. Len(P) /\ Len(P) \in Nat \ {0}
  BY WalkableLen
<1>3. i \in 1 .. Len(P) /\ P[i].from = b
  <2>1. i \in DOMAIN P /\ P[i].from = seed.asOf
    BY DEF SeedFits, StartAt
  <2>2. QED
    BY <1>1, <1>2, <2>1
<1>4. a = CarriedTo(P[i].from, ent, G, usage)
  BY <1>1, <1>3
<1>5. /\ a \in Actives /\ Ids(a) \subseteq Before(G, b)
      /\ i = 1 => a = << >>
  BY <1>3, <1>4, CarriedKnown
<1>6. b \in Int /\ P[Len(P)].from \in Int /\ b <= P[Len(P)].from
  <2>1. PICK anchor, dur : anchor = Anchor(ent) /\ dur = ent.dur
    OBVIOUS
  <2>2. /\ anchor \in Int /\ dur \in Nat \ {0} /\ t \in Int
        /\ P = Periods(anchor, dur, t)
    BY <2>1 DEF Walkable
  <2>3. QED
    BY <1>3, <2>2, LastBegins DEF Begins
<1>7. Alike(G, H, b)
  <2>1. PICK c : c = P[Len(P)].from
    OBVIOUS
  <2>2. /\ \A g \in DOMAIN G : G[g].effective \in Int
        /\ \A g \in DOMAIN H : H[g].effective \in Int
    BY DEF Walkable, IsLedger
  <2>3. ASSUME NEW g
        PROVE  /\ g \in DOMAIN G /\ G[g].effective < b => G[g].effective < c
               /\ g \in DOMAIN H /\ H[g].effective < b => H[g].effective < c
    BY <1>6, <2>1, <2>2
  <2>4. Alike(G, H, c)
    BY <2>1
  <2>5. QED
    BY <2>3, <2>4 DEF Alike
<1>8. Ids(a) \subseteq DOMAIN H
  BY <1>5, <1>7 DEF Before, Alike
<1>9. Unvoided(H, a) = a
  BY <1>5, <1>8, AllKnown
<1>10. StartState(H, P, seed) = [active |-> a, seen |-> Ids(a)]
  BY <1>1, <1>9 DEF StartState
<1>11. Full(H, b, a)
  <2>1. Full(G, b, a)
    BY <1>1
  <2>2. QED
    BY <1>7, <2>1 DEF Full, Alike
<1>12. i = 1 => StartState(H, P, seed) = Blank
  <2>1. SUFFICES ASSUME i = 1 PROVE StartState(H, P, seed) = Blank
    OBVIOUS
  <2>2. a = << >> /\ Ids(<< >>) = {}
    BY <1>5, <2>1 DEF Ids
  <2>3. QED
    BY <1>10, <2>2 DEF Blank
<1>13. QED
  BY <1>3, <1>4, <1>10, <1>11, <1>12 DEF InStep

=============================================================================
