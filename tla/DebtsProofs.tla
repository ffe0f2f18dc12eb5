------------------------------ MODULE DebtsProofs ------------------------------
(***************************************************************************)
(* What holds of debts for any users, rows, amounts and inputs: splits add *)
(* up and are fair to the cent, the balances of a group are those of a     *)
(* moment, whoever is owed money finds out for what, and what is suggested *)
(* settles the balances in fewer payments than there are users.            *)
(***************************************************************************)
EXTENDS Debts, FiniteSetTheorems, TLAPS

-------------------------------------------------------------------------------
(* Sums over finite sets: SumFunctionOnSet is a fold over a set, and only   *)
(* the set and the terms matter.                                            *)

LEMMA SmallestSubset ==
    ASSUME NEW S, IsFiniteSet(S), NEW Some \in SUBSET SUBSET S, Some # {}
    PROVE  \E T \in Some : \A U \in Some : U \subseteq T => U = T
<1>1. FiniteSubsetsOf(S) = SUBSET S
  BY FS_FiniteSubsetsOfFinite
<1>2. PICK T \in Some : \A U \in Some : <<U, T>> \notin StrictSubsetOrdering(S)
  BY <1>1, FS_StrictSubsetOrderingWellFounded, WFMin
<1>3. QED
  BY <1>2 DEF StrictSubsetOrdering

LEMMA SetInduction ==
    ASSUME NEW S, IsFiniteSet(S), NEW Good, {} \in Good,
           \A T \in SUBSET S, x \in S : T \in Good /\ x \notin T => T \cup {x} \in Good
    PROVE  S \in Good
<1> SUFFICES ASSUME S \notin Good
             PROVE  FALSE
  OBVIOUS
<1>1. PICK T \in SUBSET S :
        /\ T \notin Good
        /\ \A U \in SUBSET S : U \notin Good /\ U \subseteq T => U = T
  <2> DEFINE Bad == {T \in SUBSET S : T \notin Good}
  <2>1. S \in Bad /\ Bad \in SUBSET SUBSET S
    OBVIOUS
  <2>2. \E T \in Bad : \A U \in Bad : U \subseteq T => U = T
    <3> HIDE DEF Bad
    <3>1. QED
      BY <2>1, SmallestSubset
  <2>3. QED
    BY <2>2
<1>2. PICK x : x \in T
  BY <1>1
<1>3. T \ {x} \in SUBSET S /\ T \ {x} # T /\ T \ {x} \subseteq T /\ T = (T \ {x}) \cup {x}
  BY <1>1, <1>2
<1>4. T \ {x} \in Good
  BY <1>1, <1>3
<1>5. QED
  BY <1>1, <1>2, <1>3, <1>4

Folded(it, D, pick, base, h, Val) ==
    /\ it \in [SUBSET D -> Val]
    /\ \A s \in SUBSET D :
          it[s] = IF s = {} THEN base ELSE h[<<pick[s], it[s \ {pick[s]}]>>]

LEMMA FoldUnique ==
    ASSUME NEW S, IsFiniteSet(S), NEW pick, \A s \in SUBSET S : s # {} => pick[s] \in s,
           NEW Val, NEW base, NEW h,
           NEW A \in SUBSET S, NEW B \in SUBSET S, NEW f, NEW g,
           Folded(f, A, pick, base, h, Val), Folded(g, B, pick, base, h, Val),
           NEW r \in SUBSET (A \cap B)
    PROVE  f[r] = g[r]
<1> SUFFICES ASSUME f[r] # g[r]
             PROVE  FALSE
  OBVIOUS
<1> DEFINE Differ == {s \in SUBSET (A \cap B) : f[s] # g[s]}
<1>1. IsFiniteSet(A \cap B)
  BY FS_Subset
<1>2. PICK s \in Differ : \A u \in Differ : u \subseteq s => u = s
  <2>1. r \in Differ /\ Differ \in SUBSET SUBSET (A \cap B)
    OBVIOUS
  <2> HIDE DEF Differ
  <2>2. QED
    BY <1>1, <2>1, SmallestSubset
<1>3. s # {}
  BY <1>2 DEF Folded
<1>4. pick[s] \in s
  BY <1>3
<1>5. f[s \ {pick[s]}] = g[s \ {pick[s]}]
  BY <1>2, <1>4
<1>6. QED
  BY <1>2, <1>3, <1>5 DEF Folded

LEMMA FoldExists ==
    ASSUME NEW S, IsFiniteSet(S), NEW pick, \A s \in SUBSET S : s # {} => pick[s] \in s,
           NEW Val, NEW base \in Val, NEW h, \A x \in S, a \in Val : h[<<x, a>>] \in Val
    PROVE  \E it : Folded(it, S, pick, base, h, Val)
<1> DEFINE Good == {T \in SUBSET S : \E it : Folded(it, T, pick, base, h, Val)}
<1> SUFFICES ASSUME S \notin Good
             PROVE  FALSE
  OBVIOUS
<1>1. PICK T \in SUBSET S :
        /\ T \notin Good
        /\ \A U \in SUBSET S : U \notin Good /\ U \subseteq T => U = T
  <2> DEFINE Bad == {T \in SUBSET S : T \notin Good}
  <2>1. S \in Bad /\ Bad \in SUBSET SUBSET S
    OBVIOUS
  <2>2. \E T \in Bad : \A U \in Bad : U \subseteq T => U = T
    <3> HIDE DEF Bad
    <3>1. QED
      BY <2>1, SmallestSubset
  <2>3. QED
    BY <2>2
<1> DEFINE It(U) == CHOOSE it : Folded(it, U, pick, base, h, Val)
           Left(s) == s \ {pick[s]}
           f == [s \in SUBSET T |-> IF s = {} THEN base ELSE h[<<pick[s], It(Left(s))[Left(s)]>>]]
<1>2. \A U \in SUBSET T : U # T => Folded(It(U), U, pick, base, h, Val)
  BY <1>1
<1> HIDE DEF It
<1>3. \A s \in SUBSET T : s # {} => /\ pick[s] \in T /\ Left(s) \in SUBSET T
                                    /\ Left(s) # T /\ Left(s) # s
  BY <1>1
<1>4. ASSUME NEW U \in SUBSET T, U # T
      PROVE  It(U)[U] \in Val
  <2>1. It(U) \in [SUBSET U -> Val]
    BY <1>2, <1>4 DEF Folded
  <2>2. QED
    BY <2>1
<1>5. f \in [SUBSET T -> Val]
  <2> SUFFICES ASSUME NEW s \in SUBSET T, s # {}
               PROVE  h[<<pick[s], It(Left(s))[Left(s)]>>] \in Val
    OBVIOUS
  <2>1. pick[s] \in S /\ It(Left(s))[Left(s)] \in Val
    BY <1>1, <1>3, <1>4
  <2>2. QED
    BY <2>1
<1>6. \A U \in SUBSET T : U # T => f[U] = It(U)[U]
  <2> SUFFICES ASSUME NEW U \in SUBSET T, U # T
               PROVE  f[U] = It(U)[U]
    OBVIOUS
  <2>1. Folded(It(U), U, pick, base, h, Val)
    BY <1>2
  <2>2. CASE U = {}
    BY <2>1, <2>2 DEF Folded
  <2>3. CASE U # {}
    <3>1. Folded(It(Left(U)), Left(U), pick, base, h, Val)
      BY <1>2, <1>3, <2>3
    <3>2. Left(U) \in SUBSET S /\ U \in SUBSET S /\ Left(U) \in SUBSET (U \cap Left(U))
      BY <1>1
    <3>3. It(U)[Left(U)] = It(Left(U))[Left(U)]
      BY <2>1, <3>1, <3>2, FoldUnique
    <3>4. It(U)[U] = h[<<pick[U], It(U)[Left(U)]>>]
      BY <2>1, <2>3 DEF Folded
    <3>5. QED
      BY <2>3, <3>3, <3>4
  <2>4. QED
    BY <2>2, <2>3
<1>7. \A s \in SUBSET T : f[s] = IF s = {} THEN base ELSE h[<<pick[s], f[Left(s)]>>]
  <2> SUFFICES ASSUME NEW s \in SUBSET T, s # {}
               PROVE  f[s] = h[<<pick[s], f[Left(s)]>>]
    OBVIOUS
  <2>1. f[Left(s)] = It(Left(s))[Left(s)]
    BY <1>3, <1>6
  <2>2. QED
    BY <2>1
<1>8. Folded(f, T, pick, base, h, Val)
  BY <1>5, <1>7 DEF Folded
<1>9. QED
  BY <1>1, <1>8

\* The element that the folds of the community modules take next.
First(s) == CHOOSE x \in s : TRUE

LEMMA SumIsFold ==
    ASSUME NEW S, IsFiniteSet(S), NEW f, \A x \in S : f[x] \in Int
    PROVE  \E it, pick, h :
              /\ pick = [s \in SUBSET S |-> First(s)]
              /\ h = [xa \in S \X Int |-> f[xa[1]] + xa[2]]
              /\ Folded(it, S, pick, 0, h, Int)
              /\ SumFunctionOnSet(f, S) = it[S]
<1> DEFINE pick == [s \in SUBSET S |-> First(s)]
           h == [xa \in S \X Int |-> f[xa[1]] + xa[2]]
           Rec(it) == it = [s \in SUBSET S |->
                               IF s = {} THEN 0
                               ELSE f[CHOOSE x \in s : TRUE] + it[s \ {CHOOSE x \in s : TRUE}]]
           sum == CHOOSE it : Rec(it)
<1>1. \A s \in SUBSET S : s # {} => pick[s] \in s
  BY DEF First
<1>2. \A x \in S, a \in Int : h[<<x, a>>] = f[x] + a /\ h[<<x, a>>] \in Int
  OBVIOUS
<1>3. PICK it : Folded(it, S, pick, 0, h, Int)
  <2>1. 0 \in Int
    OBVIOUS
  <2> HIDE DEF pick, h
  <2>2. QED
    BY <1>1, <1>2, <2>1, FoldExists, Zenon
<1>4. \A s \in SUBSET S : s # {} => /\ pick[s] = First(s) /\ First(s) \in S
                                    /\ it[s \ {First(s)}] \in Int
  BY <1>1, <1>3 DEF Folded
<1>5. ASSUME NEW s \in SUBSET S
      PROVE  it[s] = IF s = {} THEN 0 ELSE f[First(s)] + it[s \ {First(s)}]
  <2>1. it[s] = IF s = {} THEN 0 ELSE h[<<pick[s], it[s \ {pick[s]}]>>]
    BY <1>3 DEF Folded
  <2> HIDE DEF h, pick
  <2>2. QED
    BY <2>1, <1>2, <1>4
<1>6. it \in [SUBSET S -> Int]
  BY <1>3 DEF Folded
<1>7. Rec(it)
  <2>1. it = [s \in SUBSET S |-> IF s = {} THEN 0 ELSE f[First(s)] + it[s \ {First(s)}]]
    BY <1>5, <1>6
  <2>2. QED
    BY <2>1 DEF First
<1>8. Rec(sum)
  <2>1. (\E i : Rec(i)) => Rec(CHOOSE i : Rec(i))
    <3> HIDE DEF Rec
    <3>1. QED
      OBVIOUS
  <2>2. QED
    BY <1>7, <2>1
<1>9. SumFunctionOnSet(f, S) = sum[S]
  BY DEF SumFunctionOnSet, FoldFunctionOnSet, MapThenFoldSet
<1> HIDE DEF sum
<1>10. sum = [s \in SUBSET S |-> sum[s]] /\ \A s \in SUBSET S : sum[s] = IF s = {} THEN 0 ELSE f[First(s)] + sum[s \ {First(s)}]
  <2>1. sum = [s \in SUBSET S |-> IF s = {} THEN 0 ELSE f[First(s)] + sum[s \ {First(s)}]]
    BY <1>8 DEF First
  <2>2. QED
    BY <2>1
<1>11. ASSUME NEW s \in SUBSET S
       PROVE  sum[s] = it[s]
  <2> DEFINE Bad == {t \in SUBSET S : sum[t] # it[t]}
  <2> SUFFICES ASSUME s \in Bad
               PROVE  FALSE
    OBVIOUS
  <2>1. Bad \in SUBSET SUBSET S
    OBVIOUS
  <2>2. PICK t \in Bad : \A u \in Bad : u \subseteq t => u = t
    <3> HIDE DEF Bad
    <3>1. QED
      BY <2>1, SmallestSubset
  <2>3. t \in SUBSET S /\ sum[t] # it[t] /\ t # {}
    BY <1>5, <1>10, <2>2
  <2>4. First(t) \in t
    BY <2>3 DEF First
  <2>5. sum[t \ {First(t)}] = it[t \ {First(t)}]
    BY <2>2, <2>4
  <2>6. QED
    BY <1>5, <1>10, <2>3, <2>5
<1>12. sum = it
  BY <1>6, <1>10, <1>11
<1>13. QED
  BY <1>3, <1>9, <1>12

LEMMA SumEmpty == \A f : SumFunctionOnSet(f, {}) = 0
<1> SUFFICES ASSUME NEW f
             PROVE  SumFunctionOnSet(f, {}) = 0
  OBVIOUS
<1>1. IsFiniteSet({}) /\ \A x \in {} : f[x] \in Int
  BY FS_EmptySet
<1>2. PICK it, pick, h : Folded(it, {}, pick, 0, h, Int) /\ SumFunctionOnSet(f, {}) = it[{}]
  BY <1>1, SumIsFold
<1>3. it[{}] = 0
  BY <1>2 DEF Folded
<1>4. QED
  BY <1>2, <1>3

LEMMA SumType ==
    ASSUME NEW S, IsFiniteSet(S), NEW f, \A x \in S : f[x] \in Int
    PROVE  SumFunctionOnSet(f, S) \in Int
<1>1. PICK it, pick, h : Folded(it, S, pick, 0, h, Int) /\ SumFunctionOnSet(f, S) = it[S]
  BY SumIsFold
<1>2. it[S] \in Int
  BY <1>1 DEF Folded
<1>3. QED
  BY <1>1, <1>2

LEMMA SumFirst ==
    ASSUME NEW S, IsFiniteSet(S), NEW f, \A x \in S : f[x] \in Int, S # {}
    PROVE  /\ First(S) \in S
           /\ SumFunctionOnSet(f, S) = f[First(S)] + SumFunctionOnSet(f, S \ {First(S)})
<1> DEFINE R == S \ {First(S)}
           pick(D) == [s \in SUBSET D |-> First(s)]
           h(D) == [xa \in D \X Int |-> f[xa[1]] + xa[2]]
<1>1. First(S) \in S /\ R \in SUBSET S /\ IsFiniteSet(R) /\ \A x \in R : f[x] \in Int
  BY FS_RemoveElement DEF First
<1>2. PICK it : Folded(it, S, pick(S), 0, h(S), Int) /\ SumFunctionOnSet(f, S) = it[S]
  BY SumIsFold
<1>3. PICK jt : Folded(jt, R, pick(R), 0, h(R), Int) /\ SumFunctionOnSet(f, R) = jt[R]
  BY <1>1, SumIsFold
<1>4. Folded(jt, R, pick(S), 0, h(S), Int)
  <2>1. jt \in [SUBSET R -> Int]
    BY <1>3 DEF Folded
  <2>2. ASSUME NEW s \in SUBSET R, s # {}
        PROVE  jt[s] = h(S)[<<pick(S)[s], jt[s \ {pick(S)[s]}]>>]
    <3>1. First(s) \in R /\ First(s) \in S /\ s \in SUBSET S /\ jt[s \ {First(s)}] \in Int
      BY <1>1, <2>1, <2>2 DEF First
    <3>2. jt[s] = h(R)[<<pick(R)[s], jt[s \ {pick(R)[s]}]>>]
      BY <1>3, <2>2 DEF Folded
    <3>3. jt[s] = f[First(s)] + jt[s \ {First(s)}]
      BY <2>2, <3>1, <3>2
    <3>4. QED
      BY <3>1, <3>3
  <2>3. ASSUME NEW s \in SUBSET R, s = {}
        PROVE  jt[s] = 0
    BY <1>3, <2>3 DEF Folded
  <2> HIDE DEF pick, h
  <2>4. QED
    BY <2>1, <2>2, <2>3 DEF Folded
<1>5. it[R] = jt[R]
  <2>1. \A s \in SUBSET S : s # {} => pick(S)[s] \in s
    BY DEF First
  <2>2. S \in SUBSET S /\ R \in SUBSET (S \cap R)
    BY <1>1
  <2>3. R \in SUBSET S /\ Folded(it, S, pick(S), 0, h(S), Int)
    BY <1>1, <1>2
  <2> HIDE DEF pick, h, R
  <2>4. \A p, b, k, V :
           (\A s \in SUBSET S : s # {} => p[s] \in s) /\ Folded(it, S, p, b, k, V) /\ Folded(jt, R, p, b, k, V)
              => it[R] = jt[R]
    BY <2>2, <2>3, FoldUnique
  <2>5. QED
    BY <1>4, <2>1, <2>3, <2>4
<1>6. it[S] = f[First(S)] + it[R]
  <2>1. it[S] = h(S)[<<pick(S)[S], it[S \ {pick(S)[S]}]>>] /\ it[R] \in Int
    BY <1>1, <1>2 DEF Folded
  <2>2. QED
    BY <1>1, <2>1
<1>7. QED
  BY <1>1, <1>2, <1>3, <1>5, <1>6

\* A sum may be taken apart at any element.
LEMMA SumRemove ==
    ASSUME NEW S, IsFiniteSet(S), NEW f, \A x \in S : f[x] \in Int, NEW x \in S
    PROVE  SumFunctionOnSet(f, S) = f[x] + SumFunctionOnSet(f, S \ {x})
<1> DEFINE Sum(T) == SumFunctionOnSet(f, T)
           Bad == {T \in SUBSET S : \E z \in T : Sum(T) # f[z] + Sum(T \ {z})}
<1> SUFFICES ASSUME S \in Bad
             PROVE  FALSE
  OBVIOUS
<1>1. PICK T \in SUBSET S :
        /\ \E z \in T : Sum(T) # f[z] + Sum(T \ {z})
        /\ \A U \in SUBSET T : U # T => \A z \in U : Sum(U) = f[z] + Sum(U \ {z})
  <2>1. Bad \in SUBSET SUBSET S
    OBVIOUS
  <2>2. \E T \in Bad : \A U \in Bad : U \subseteq T => U = T
    <3> HIDE DEF Bad
    <3>1. QED
      BY <2>1, SmallestSubset
  <2> HIDE DEF Sum
  <2>3. QED
    BY <2>2
<1>2. ASSUME NEW U \in SUBSET S
      PROVE  /\ IsFiniteSet(U) /\ Sum(U) \in Int
             /\ U # {} => First(U) \in U /\ Sum(U) = f[First(U)] + Sum(U \ {First(U)})
  <2>1. IsFiniteSet(U) /\ \A z \in U : f[z] \in Int
    BY FS_Subset
  <2>2. QED
    BY <2>1, SumType, SumFirst
<1> HIDE DEF Sum
<1>3. PICK z \in T : Sum(T) # f[z] + Sum(T \ {z})
  BY <1>1
<1> DEFINE c == First(T)
           rest == (T \ {c}) \ {z}
<1>4. c \in T /\ c # z /\ Sum(T) = f[c] + Sum(T \ {c})
  BY <1>2, <1>3
<1>5. Sum(T \ {c}) = f[z] + Sum(rest)
  BY <1>1, <1>3, <1>4
<1>6. Sum(T \ {z}) = f[c] + Sum(rest)
  <2>1. (T \ {z}) \ {c} = rest
    OBVIOUS
  <2>2. QED
    BY <1>1, <1>3, <1>4, <2>1
<1>7. Sum(rest) \in Int /\ f[c] \in Int /\ f[z] \in Int
  BY <1>2, <1>3, <1>4
<1> HIDE DEF c, rest
<1>8. QED
  BY <1>3, <1>4, <1>5, <1>6, <1>7

LEMMA SumAdd ==
    ASSUME NEW S, IsFiniteSet(S), NEW x, x \notin S,
           NEW f, \A y \in S \cup {x} : f[y] \in Int
    PROVE  SumFunctionOnSet(f, S \cup {x}) = f[x] + SumFunctionOnSet(f, S)
<1>1. IsFiniteSet(S \cup {x}) /\ (S \cup {x}) \ {x} = S
  BY FS_AddElement
<1>2. QED
  BY <1>1, SumRemove

LEMMA SumEqual ==
    ASSUME NEW S, IsFiniteSet(S), NEW f, NEW g, \A x \in S : f[x] \in Int /\ g[x] = f[x]
    PROVE  SumFunctionOnSet(g, S) = SumFunctionOnSet(f, S)
<1> DEFINE Good == {T \in SUBSET S : SumFunctionOnSet(g, T) = SumFunctionOnSet(f, T)}
<1>1. {} \in Good
  BY SumEmpty
<1>2. ASSUME NEW T \in SUBSET S, NEW x \in S, T \in Good, x \notin T
      PROVE  T \cup {x} \in Good
  <2>1. IsFiniteSet(T) /\ T \cup {x} \in SUBSET S
    BY FS_Subset
  <2>2. /\ \A y \in T \cup {x} : f[y] \in Int /\ g[y] \in Int
        /\ f[x] = g[x]
    OBVIOUS
  <2>3. /\ SumFunctionOnSet(f, T \cup {x}) = f[x] + SumFunctionOnSet(f, T)
        /\ SumFunctionOnSet(g, T \cup {x}) = g[x] + SumFunctionOnSet(g, T)
    BY <1>2, <2>1, <2>2, SumAdd
  <2>4. QED
    BY <1>2, <2>1, <2>2, <2>3
<1>3. S \in Good
  <2> HIDE DEF Good
  <2>1. QED
    BY <1>1, <1>2, SetInduction
<1>4. QED
  BY <1>3

\* Sums add up term by term.
LEMMA SumPlus ==
    ASSUME NEW S, IsFiniteSet(S), NEW f, NEW g, NEW h,
           \A x \in S : f[x] \in Int /\ g[x] \in Int /\ h[x] = f[x] + g[x]
    PROVE  SumFunctionOnSet(h, S) = SumFunctionOnSet(f, S) + SumFunctionOnSet(g, S)
<1> DEFINE Good == {T \in SUBSET S :
              SumFunctionOnSet(h, T) = SumFunctionOnSet(f, T) + SumFunctionOnSet(g, T)}
<1>1. {} \in Good
  BY SumEmpty
<1>2. ASSUME NEW T \in SUBSET S, NEW x \in S, T \in Good, x \notin T
      PROVE  T \cup {x} \in Good
  <2>1. IsFiniteSet(T) /\ T \cup {x} \in SUBSET S
    BY FS_Subset
  <2>2. /\ \A y \in T \cup {x} : f[y] \in Int /\ g[y] \in Int /\ h[y] \in Int
        /\ h[x] = f[x] + g[x]
    OBVIOUS
  <2>3. /\ SumFunctionOnSet(f, T \cup {x}) = f[x] + SumFunctionOnSet(f, T)
        /\ SumFunctionOnSet(g, T \cup {x}) = g[x] + SumFunctionOnSet(g, T)
        /\ SumFunctionOnSet(h, T \cup {x}) = h[x] + SumFunctionOnSet(h, T)
    BY <1>2, <2>1, <2>2, SumAdd
  <2>4. SumFunctionOnSet(f, T) \in Int /\ SumFunctionOnSet(g, T) \in Int
    BY <2>1, <2>2, SumType
  <2>5. SumFunctionOnSet(h, T) = SumFunctionOnSet(f, T) + SumFunctionOnSet(g, T)
    BY <1>2
  <2>6. QED
    BY <2>1, <2>2, <2>3, <2>4, <2>5
<1>3. S \in Good
  <2> HIDE DEF Good
  <2>1. QED
    BY <1>1, <1>2, SetInduction
<1>4. QED
  BY <1>3

\* Sums of disjoint sets add up.
LEMMA SumUnion ==
    ASSUME NEW S, IsFiniteSet(S), NEW R, IsFiniteSet(R), S \cap R = {},
           NEW f, \A x \in S \cup R : f[x] \in Int
    PROVE  SumFunctionOnSet(f, S \cup R) = SumFunctionOnSet(f, S) + SumFunctionOnSet(f, R)
<1> DEFINE Good == {T \in SUBSET S :
              SumFunctionOnSet(f, T \cup R) = SumFunctionOnSet(f, T) + SumFunctionOnSet(f, R)}
<1>0. SumFunctionOnSet(f, R) \in Int
  BY SumType
<1>1. {} \in Good
  BY <1>0, SumEmpty
<1>2. ASSUME NEW T \in SUBSET S, NEW x \in S, T \in Good, x \notin T
      PROVE  T \cup {x} \in Good
  <2>1. /\ IsFiniteSet(T) /\ T \cup {x} \in SUBSET S /\ IsFiniteSet(T \cup R)
        /\ (T \cup {x}) \cup R = (T \cup R) \cup {x} /\ x \notin T \cup R
    BY <1>2, FS_Subset, FS_Union
  <2>2. \A y \in (T \cup R) \cup {x} : f[y] \in Int
    OBVIOUS
  <2>3. /\ SumFunctionOnSet(f, T \cup {x}) = f[x] + SumFunctionOnSet(f, T)
        /\ SumFunctionOnSet(f, (T \cup R) \cup {x}) = f[x] + SumFunctionOnSet(f, T \cup R)
    BY <1>2, <2>1, <2>2, SumAdd
  <2>4. SumFunctionOnSet(f, T) \in Int /\ f[x] \in Int
    BY <2>1, <2>2, SumType
  <2>5. SumFunctionOnSet(f, T \cup R) = SumFunctionOnSet(f, T) + SumFunctionOnSet(f, R)
    BY <1>2
  <2>6. SumFunctionOnSet(f, (T \cup {x}) \cup R) = SumFunctionOnSet(f, (T \cup R) \cup {x})
    BY <2>1, Zenon
  <2> DEFINE a == SumFunctionOnSet(f, T \cup {x})
             b == SumFunctionOnSet(f, T)
             c == SumFunctionOnSet(f, (T \cup R) \cup {x})
             d == SumFunctionOnSet(f, T \cup R)
             e == SumFunctionOnSet(f, R)
             k == f[x]
  <2>7. k \in Int /\ b \in Int /\ e \in Int /\ a = k + b /\ c = k + d /\ d = b + e
    BY <1>0, <2>3, <2>4, <2>5
  <2>8. c = a + e
    <3> HIDE DEF a, b, c, d, e, k
    <3>1. QED
      BY <2>7
  <2>9. SumFunctionOnSet(f, (T \cup R) \cup {x}) = SumFunctionOnSet(f, T \cup {x}) + SumFunctionOnSet(f, R)
    BY <2>8
  <2>10. SumFunctionOnSet(f, (T \cup {x}) \cup R) = SumFunctionOnSet(f, T \cup {x}) + SumFunctionOnSet(f, R)
    BY <2>6, <2>9, Zenon
  <2>11. QED
    BY <2>1, <2>10
<1>3. S \in Good
  <2> HIDE DEF Good
  <2>1. QED
    BY <1>1, <1>2, SetInduction
<1>4. QED
  BY <1>3

\* Sums grow with their terms.
LEMMA SumMono ==
    ASSUME NEW S, IsFiniteSet(S), NEW f, NEW g,
           \A x \in S : f[x] \in Int /\ g[x] \in Int /\ f[x] <= g[x]
    PROVE  SumFunctionOnSet(f, S) <= SumFunctionOnSet(g, S)
<1> DEFINE Good == {T \in SUBSET S : SumFunctionOnSet(f, T) <= SumFunctionOnSet(g, T)}
<1>1. {} \in Good
  BY SumEmpty
<1>2. ASSUME NEW T \in SUBSET S, NEW x \in S, T \in Good, x \notin T
      PROVE  T \cup {x} \in Good
  <2>1. IsFiniteSet(T) /\ T \cup {x} \in SUBSET S
    BY FS_Subset
  <2>2. /\ \A y \in T \cup {x} : f[y] \in Int /\ g[y] \in Int
        /\ f[x] <= g[x]
    OBVIOUS
  <2>3. /\ SumFunctionOnSet(f, T \cup {x}) = f[x] + SumFunctionOnSet(f, T)
        /\ SumFunctionOnSet(g, T \cup {x}) = g[x] + SumFunctionOnSet(g, T)
    BY <1>2, <2>1, <2>2, SumAdd
  <2>4. SumFunctionOnSet(f, T) \in Int /\ SumFunctionOnSet(g, T) \in Int
    BY <2>1, <2>2, SumType
  <2>5. SumFunctionOnSet(f, T) <= SumFunctionOnSet(g, T)
    BY <1>2
  <2>6. QED
    BY <2>1, <2>2, <2>3, <2>4, <2>5
<1>3. S \in Good
  <2> HIDE DEF Good
  <2>1. QED
    BY <1>1, <1>2, SetInduction
<1>4. QED
  BY <1>3

LEMMA SumZero ==
    ASSUME NEW S, IsFiniteSet(S), NEW f, \A x \in S : f[x] = 0
    PROVE  SumFunctionOnSet(f, S) = 0
<1> DEFINE Good == {T \in SUBSET S : SumFunctionOnSet(f, T) = 0}
<1>1. {} \in Good
  BY SumEmpty
<1>2. ASSUME NEW T \in SUBSET S, NEW x \in S, T \in Good, x \notin T
      PROVE  T \cup {x} \in Good
  <2>1. IsFiniteSet(T) /\ T \cup {x} \in SUBSET S
    BY FS_Subset
  <2>2. f[x] = 0 /\ \A y \in T \cup {x} : f[y] \in Int
    OBVIOUS
  <2>3. SumFunctionOnSet(f, T \cup {x}) = f[x] + SumFunctionOnSet(f, T)
    BY <1>2, <2>1, <2>2, SumAdd
  <2>4. QED
    BY <1>2, <2>1, <2>2, <2>3
<1>3. S \in Good
  <2> HIDE DEF Good
  <2>1. QED
    BY <1>1, <1>2, SetInduction
<1>4. QED
  BY <1>3

\* A factor may be taken out of a sum.
LEMMA SumScale ==
    ASSUME NEW S, IsFiniteSet(S), NEW f, NEW g, NEW k \in Int,
           \A x \in S : f[x] \in Int /\ g[x] = k * f[x]
    PROVE  SumFunctionOnSet(g, S) = k * SumFunctionOnSet(f, S)
<1> DEFINE Good == {T \in SUBSET S : SumFunctionOnSet(g, T) = k * SumFunctionOnSet(f, T)}
<1>1. {} \in Good
  BY SumEmpty
<1>2. ASSUME NEW T \in SUBSET S, NEW x \in S, T \in Good, x \notin T
      PROVE  T \cup {x} \in Good
  <2>1. IsFiniteSet(T) /\ T \cup {x} \in SUBSET S
    BY FS_Subset
  <2>2. /\ \A y \in T \cup {x} : f[y] \in Int /\ g[y] \in Int
        /\ g[x] = k * f[x]
    OBVIOUS
  <2>3. /\ SumFunctionOnSet(f, T \cup {x}) = f[x] + SumFunctionOnSet(f, T)
        /\ SumFunctionOnSet(g, T \cup {x}) = g[x] + SumFunctionOnSet(g, T)
    BY <1>2, <2>1, <2>2, SumAdd
  <2>4. SumFunctionOnSet(f, T) \in Int /\ f[x] \in Int
    BY <2>1, <2>2, SumType
  <2>5. SumFunctionOnSet(g, T) = k * SumFunctionOnSet(f, T)
    BY <1>2
  <2>6. \A a, b \in Int : k * (a + b) = k * a + k * b
    OBVIOUS
  <2>7. QED
    BY <2>1, <2>2, <2>3, <2>4, <2>5, <2>6
<1>3. S \in Good
  <2> HIDE DEF Good
  <2>1. QED
    BY <1>1, <1>2, SetInduction
<1>4. QED
  BY <1>3

-------------------------------------------------------------------------------
(* run_min_cash_flow.                                                       *)

\* Terms of one sign that add up to nothing are nothing.
LEMMA SumOfOneSign ==
    ASSUME NEW S, IsFiniteSet(S), NEW f,
           (\A x \in S : f[x] \in Int /\ f[x] >= 0) \/ (\A x \in S : f[x] \in Int /\ f[x] <= 0),
           SumFunctionOnSet(f, S) = 0
    PROVE  \A x \in S : f[x] = 0
<1> SUFFICES ASSUME NEW x \in S
             PROVE  f[x] = 0
  OBVIOUS
<1> DEFINE none == [y \in S |-> 0]
           R == S \ {x}
<1>1. IsFiniteSet(R) /\ R \subseteq S /\ \A y \in R : none[y] = 0 /\ f[y] \in Int
  BY FS_RemoveElement
<1>2. SumFunctionOnSet(none, R) = 0
  <2> HIDE DEF none
  <2>1. QED
    BY <1>1, SumZero
<1>3. /\ SumFunctionOnSet(f, S) = f[x] + SumFunctionOnSet(f, R)
      /\ SumFunctionOnSet(f, R) \in Int
  BY <1>1, SumRemove, SumType
<1>4. CASE \A y \in S : f[y] \in Int /\ f[y] >= 0
  <2>1. \A y \in R : none[y] \in Int /\ f[y] \in Int /\ none[y] <= f[y]
    BY <1>1, <1>4
  <2>2. SumFunctionOnSet(none, R) <= SumFunctionOnSet(f, R)
    <3> HIDE DEF none, R
    <3>1. QED
      BY <1>1, <2>1, SumMono
  <2>3. QED
    BY <1>2, <1>3, <1>4, <2>2
<1>5. CASE \A y \in S : f[y] \in Int /\ f[y] <= 0
  <2>1. \A y \in R : none[y] \in Int /\ f[y] \in Int /\ f[y] <= none[y]
    BY <1>1, <1>5
  <2>2. SumFunctionOnSet(f, R) <= SumFunctionOnSet(none, R)
    <3> HIDE DEF none, R
    <3>1. QED
      BY <1>1, <2>1, SumMono
  <2>3. QED
    BY <1>2, <1>3, <1>5, <2>2
<1>6. QED
  BY <1>4, <1>5

\* What has been suggested and what is still queued make up the balance, and
\* the queued balances add up to what all balances add up to.
Settling ==
    Remainder = 0 =>
        /\ \A u \in Users : Received(u) - Given(u) + queued[u] = net[u]
        /\ SumFunctionOnSet(queued, Users) = SumFunctionOnSet(net, Users)

\* Sums over some of the rows of a list that one row is appended to.
LEMMA AppendedSum ==
    ASSUME NEW n \in Nat, NEW p, NEW q,
           \A i \in 1 .. n : p[i] \in Int /\ q[i] = p[i],
           q[n + 1] \in Int,
           NEW C \in SUBSET (1 .. n)
    PROVE  /\ SumFunctionOnSet(p, C) \in Int
           /\ SumFunctionOnSet(q, C) = SumFunctionOnSet(p, C)
           /\ SumFunctionOnSet(q, C \cup {n + 1}) = SumFunctionOnSet(p, C) + q[n + 1]
<1>1. IsFiniteSet(C)
  <2>1. IsFiniteSet(1 .. n)
    BY FS_Interval
  <2>2. QED
    BY <2>1, FS_Subset
<1>2. n + 1 \notin C
  OBVIOUS
<1>3. /\ \A i \in C : p[i] \in Int /\ q[i] = p[i]
      /\ \A i \in C \cup {n + 1} : q[i] \in Int
  OBVIOUS
<1>4. SumFunctionOnSet(p, C) \in Int /\ SumFunctionOnSet(q, C) = SumFunctionOnSet(p, C)
  BY <1>1, <1>3, SumType, SumEqual
<1>5. SumFunctionOnSet(q, C \cup {n + 1}) = q[n + 1] + SumFunctionOnSet(q, C)
  BY <1>1, <1>2, <1>3, SumAdd
<1>6. QED
  BY <1>4, <1>5

LEMMA GivenType == TypeOK => \A u \in Users : Given(u) \in Int /\ Received(u) \in Int
<1> SUFFICES ASSUME TypeOK, NEW C \in SUBSET DOMAIN suggestions
             PROVE  SumFunctionOnSet(Paid, C) \in Int
  BY DEF Given, Received
<1>1. IsFiniteSet(DOMAIN suggestions) /\ \A i \in DOMAIN suggestions : Paid[i] \in Int
  <2>1. suggestions \in Seq(Suggestion)
    BY DEF TypeOK
  <2>2. Len(suggestions) \in Nat /\ DOMAIN suggestions = 1 .. Len(suggestions)
    BY <2>1
  <2>3. IsFiniteSet(DOMAIN suggestions)
    BY <2>2, FS_Interval
  <2>4. \A i \in DOMAIN suggestions : Paid[i] \in Int
    <3>1. \A i \in DOMAIN suggestions : suggestions[i] \in Suggestion
      BY <2>1, <2>2
    <3>2. QED
      BY <3>1 DEF Paid, Suggestion
  <2>5. QED
    BY <2>3, <2>4, Zenon
<1>2. IsFiniteSet(C) /\ \A i \in C : Paid[i] \in Int
  BY <1>1, FS_Subset
<1>3. QED
  BY <1>2, SumType

\* A suggestion more.
LEMMA SuggestionAdds ==
    ASSUME TypeOK, NEW s \in Suggestion, suggestions' = Append(suggestions, s), NEW u \in Users
    PROVE  /\ Given(u) \in Int /\ Received(u) \in Int
           /\ Given(u)' = Given(u) + (IF s.payer = u THEN s.amount ELSE 0)
           /\ Received(u)' = Received(u) + (IF s.receiver = u THEN s.amount ELSE 0)
<1> DEFINE n == Len(suggestions)
           A == {i \in 1 .. n : suggestions[i].payer = u}
           B == {i \in 1 .. n : suggestions[i].receiver = u}
           p == Paid
           q == Paid'
<1>1. /\ n \in Nat /\ DOMAIN suggestions = 1 .. n /\ DOMAIN suggestions' = 1 .. (n + 1)
      /\ \A i \in 1 .. n : suggestions'[i] = suggestions[i] /\ suggestions[i] \in Suggestion
      /\ suggestions'[n + 1] = s
  <2>1. suggestions \in Seq(Suggestion)
    BY DEF TypeOK
  <2>2. QED
    BY <2>1
<1>2. /\ \A i \in 1 .. n : p[i] \in Int /\ q[i] = p[i]
      /\ q[n + 1] = s.amount /\ q[n + 1] \in Int
  BY <1>1 DEF Paid, Suggestion
<1>3. /\ Given(u) = SumFunctionOnSet(p, A) /\ Received(u) = SumFunctionOnSet(p, B)
      /\ s.payer = u => Given(u)' = SumFunctionOnSet(q, A \cup {n + 1})
      /\ s.payer # u => Given(u)' = SumFunctionOnSet(q, A)
      /\ s.receiver = u => Received(u)' = SumFunctionOnSet(q, B \cup {n + 1})
      /\ s.receiver # u => Received(u)' = SumFunctionOnSet(q, B)
  <2>1. /\ {i \in DOMAIN suggestions' : suggestions'[i].payer = u} = IF s.payer = u THEN A \cup {n + 1} ELSE A
        /\ {i \in DOMAIN suggestions' : suggestions'[i].receiver = u} = IF s.receiver = u THEN B \cup {n + 1} ELSE B
    BY <1>1
  <2>2. QED
    BY <1>1, <2>1 DEF Given, Received
<1>4. A \in SUBSET (1 .. n) /\ B \in SUBSET (1 .. n)
  OBVIOUS
<1> HIDE DEF A, B, n, p, q
<1>5. ASSUME NEW C \in SUBSET (1 .. n)
      PROVE  /\ SumFunctionOnSet(p, C) \in Int
             /\ SumFunctionOnSet(q, C) = SumFunctionOnSet(p, C)
             /\ SumFunctionOnSet(q, C \cup {n + 1}) = SumFunctionOnSet(p, C) + q[n + 1]
  <2>1. /\ n \in Nat /\ \A i \in 1 .. n : p[i] \in Int /\ q[i] = p[i]
        /\ q[n + 1] \in Int
    BY <1>1, <1>2
  <2>2. QED
    BY <2>1, AppendedSum
<1>6. Given(u) \in Int /\ Received(u) \in Int
  BY <1>3, <1>4, <1>5
<1>7. Given(u)' = Given(u) + (IF s.payer = u THEN s.amount ELSE 0)
  <2>1. CASE s.payer = u
    BY <1>2, <1>3, <1>4, <1>5, <2>1
  <2>2. CASE s.payer # u
    <3>1. SumFunctionOnSet(q, A) = SumFunctionOnSet(p, A)
      BY <1>4, <1>5
    <3>2. Given(u)' = Given(u)
      BY <1>3, <2>2, <3>1
    <3>3. QED
      BY <1>6, <2>2, <3>2
  <2>3. QED
    BY <2>1, <2>2
<1>8. Received(u)' = Received(u) + (IF s.receiver = u THEN s.amount ELSE 0)
  <2>1. CASE s.receiver = u
    BY <1>2, <1>3, <1>4, <1>5, <2>1
  <2>2. CASE s.receiver # u
    <3>1. SumFunctionOnSet(q, B) = SumFunctionOnSet(p, B)
      BY <1>4, <1>5
    <3>2. Received(u)' = Received(u)
      BY <1>3, <2>2, <3>1
    <3>3. QED
      BY <1>6, <2>2, <3>2
  <2>3. QED
    BY <2>1, <2>2
<1>9. QED
  BY <1>6, <1>7, <1>8

Queued == Creditors \cup Debtors

\* What is queued lies between nothing and the user's balance.
SameSide ==
    \A u \in Users : \/ 0 <= queued[u] /\ queued[u] <= net[u]
                     \/ net[u] <= queued[u] /\ queued[u] <= 0

\* Every suggestion has emptied one of its two users for good.
RoomLeft == Len(suggestions) + Cardinality(Queued) <= Cardinality(Users)

CashInv ==
    TypeOK /\ SameSide /\ WithinBalances /\ RoomLeft /\ FewSuggestions /\ Settling

LEMMA QueuedIsFinite ==
    /\ IsFiniteSet(Users) /\ IsFiniteSet(Queued)
    /\ Cardinality(Users) \in Nat /\ Cardinality(Queued) \in Nat
    /\ Cardinality(Queued) <= Cardinality(Users)
<1>1. Queued \in SUBSET Users
  BY DEF Queued, Creditors, Debtors
<1>2. QED
  BY <1>1, UsersAssumption, FS_Subset, FS_CardinalityType

\* Balances that nothing has been taken from yet.
Fresh == net \in [Users -> Int] /\ queued = net /\ suggestions = <<>>

LEMMA FreshIsFine == Fresh => CashInv
<1> SUFFICES ASSUME Fresh
             PROVE  CashInv
  OBVIOUS
<1>1. TypeOK /\ SameSide /\ WithinBalances /\ FewSuggestions
  BY DEF Fresh, TypeOK, SameSide, WithinBalances, FewSuggestions
<1>2. RoomLeft
  BY QueuedIsFinite DEF Fresh, RoomLeft
<1>3. Settling
  <2>1. \A u \in Users : Given(u) = 0 /\ Received(u) = 0
    <3>1. \A u \in Users : /\ {i \in DOMAIN suggestions : suggestions[i].payer = u} = {}
                           /\ {i \in DOMAIN suggestions : suggestions[i].receiver = u} = {}
      BY DEF Fresh
    <3>2. QED
      BY <3>1, SumEmpty DEF Given, Received
  <2>2. QED
    BY <2>1 DEF Fresh, Settling
<1>4. QED
  BY <1>1, <1>2, <1>3 DEF CashInv

LEMMA FreshNextIsFine == Fresh' => CashInv'
BY FreshIsFine, PTL

\* A remainder that is pushed back is not made larger.
LEMMA RestType == \A x \in Nat : Rest(x) \in 0 .. x
BY DEF Rest

\* One round: a positive payment between two users, within both balances, that
\* empties one of the two and leaves the others alone.
LEMMA Round ==
    ASSUME CashInv, NEW p \in Users, NEW r \in Users, Suggest(p, r)
    PROVE  LET a == Amount(p, r) IN
           /\ p \in Debtors /\ r \in Creditors /\ p # r
           /\ a \in Nat \ {0} /\ a <= net[r] /\ a <= -net[p]
           /\ suggestions' = Append(suggestions, [payer |-> p, receiver |-> r, amount |-> a])
           /\ queued' \in [Users -> Int] /\ net' = net
           /\ \A u \in Users \ {p, r} : queued'[u] = queued[u]
           /\ 0 <= queued'[r] /\ queued'[r] <= queued[r]
           /\ queued[p] <= queued'[p] /\ queued'[p] <= 0
           /\ queued'[r] = 0 \/ queued'[p] = 0
           /\ Remainder = 0 => queued'[r] = queued[r] - a /\ queued'[p] = queued[p] + a
<1> DEFINE a == Amount(p, r)
<1> USE DEF CashInv
<1>1. /\ p \in Debtors /\ r \in Creditors /\ p # r
      /\ queued[p] \in Int /\ queued[r] \in Int
      /\ queued[p] < 0 /\ queued[r] > 0
      /\ net[p] \in Int /\ net[r] \in Int
  BY DEF Suggest, Tops, Creditors, Debtors, TypeOK
<1>2. /\ a \in Nat \ {0} /\ a <= queued[r] /\ a <= -queued[p]
      /\ a = queued[r] \/ a = -queued[p]
  BY <1>1 DEF Amount, Smaller
<1>3. a <= net[r] /\ a <= -net[p]
  BY <1>1, <1>2 DEF SameSide
<1>4. /\ suggestions' = Append(suggestions, [payer |-> p, receiver |-> r, amount |-> a])
      /\ queued' = Pushed(p, r, a) /\ net' = net
  BY <1>2 DEF Suggest
<1> HIDE DEF a
<1>5. /\ queued'[r] = Rest(queued[r] - a) /\ queued'[p] = -Rest(-queued[p] - a)
      /\ \A u \in Users \ {p, r} : queued'[u] = queued[u]
      /\ DOMAIN queued' = Users
      /\ queued' = [u \in Users |-> queued'[u]]
  BY <1>1, <1>4 DEF Pushed, TypeOK
<1>6. /\ 0 <= queued'[r] /\ queued'[r] <= queued[r] /\ queued'[r] \in Int
      /\ queued[p] <= queued'[p] /\ queued'[p] <= 0 /\ queued'[p] \in Int
      /\ queued'[r] = 0 \/ queued'[p] = 0
  <2>1. queued[r] - a \in Nat /\ -queued[p] - a \in Nat
    BY <1>1, <1>2
  <2>2. queued[r] - a = 0 \/ -queued[p] - a = 0
    BY <1>1, <1>2
  <2>3. /\ Rest(queued[r] - a) \in 0 .. (queued[r] - a)
        /\ Rest(-queued[p] - a) \in 0 .. (-queued[p] - a)
    BY <2>1, RestType
  <2>4. /\ queued'[r] \in 0 .. (queued[r] - a)
        /\ -queued'[p] \in 0 .. (-queued[p] - a) /\ queued'[p] \in Int
    <3> DEFINE x == Rest(-queued[p] - a)
    <3>1. x \in 0 .. (-queued[p] - a) /\ queued'[p] = -x
      BY <1>5, <2>3
    <3> HIDE DEF x
    <3>2. QED
      BY <1>5, <2>3, <3>1
  <2>5. QED
    BY <1>1, <1>2, <2>1, <2>2, <2>4
<1>7. \A u \in Users : queued'[u] \in Int
  BY <1>5, <1>6 DEF TypeOK
<1>8. queued' \in [Users -> Int]
  BY <1>5, <1>7
<1>9. Remainder = 0 => queued'[r] = queued[r] - a /\ queued'[p] = queued[p] + a
  BY <1>1, <1>2, <1>5 DEF Rest
<1>10. QED
  BY <1>1, <1>2, <1>3, <1>4, <1>5, <1>6, <1>8, <1>9 DEF a

LEMMA RoundKeepsCashInv ==
    ASSUME CashInv, NEW p \in Users, NEW r \in Users, Suggest(p, r)
    PROVE  CashInv'
<1> DEFINE a == Amount(p, r)
           s == [payer |-> p, receiver |-> r, amount |-> a]
<1>1. /\ p \in Debtors /\ r \in Creditors /\ p # r
      /\ a \in Nat \ {0} /\ a <= net[r] /\ a <= -net[p]
      /\ suggestions' = Append(suggestions, s)
      /\ queued' \in [Users -> Int] /\ net' = net
      /\ \A u \in Users \ {p, r} : queued'[u] = queued[u]
      /\ 0 <= queued'[r] /\ queued'[r] <= queued[r]
      /\ queued[p] <= queued'[p] /\ queued'[p] <= 0
      /\ queued'[r] = 0 \/ queued'[p] = 0
      /\ Remainder = 0 => queued'[r] = queued[r] - a /\ queued'[p] = queued[p] + a
  BY Round
<1> HIDE DEF a
<1>2. s \in Suggestion /\ suggestions \in Seq(Suggestion)
  BY <1>1 DEF Suggestion, CashInv, TypeOK
<1>3. TypeOK'
  BY <1>1, <1>2 DEF CashInv, TypeOK
<1>4. /\ Len(suggestions') = Len(suggestions) + 1 /\ Len(suggestions) \in Nat
      /\ \A i \in DOMAIN suggestions' :
             suggestions'[i] = s \/ (i \in DOMAIN suggestions /\ suggestions'[i] = suggestions[i])
  BY <1>1, <1>2
<1>5. SameSide'
  <2> SUFFICES ASSUME NEW u \in Users
               PROVE  \/ 0 <= queued'[u] /\ queued'[u] <= net'[u]
                      \/ net'[u] <= queued'[u] /\ queued'[u] <= 0
    BY DEF SameSide
  <2>1. /\ queued[u] \in Int /\ queued'[u] \in Int /\ net[u] \in Int
        /\ queued[p] < 0 /\ queued[r] > 0
    BY <1>1 DEF CashInv, TypeOK, Creditors, Debtors
  <2>2. QED
    BY <1>1, <2>1 DEF CashInv, SameSide
<1>6. WithinBalances'
  BY <1>1, <1>4 DEF CashInv, WithinBalances
<1>7. Cardinality(Queued) >= 2 /\ Cardinality(Queued') < Cardinality(Queued)
  <2>1. PICK gone \in {p, r} : queued'[gone] = 0
    BY <1>1
  <2>2. gone \in Queued /\ gone \in Users
    BY <1>1, <2>1 DEF Queued
  <2>3. Queued' \in SUBSET (Queued \ {gone})
    <3> SUFFICES ASSUME NEW u \in Queued'
                 PROVE  u \in Queued \ {gone}
      OBVIOUS
    <3>1. u \in Users /\ (queued'[u] > 0 \/ queued'[u] < 0)
      BY DEF Queued, Creditors, Debtors
    <3>2. u # gone
      BY <2>1, <3>1
    <3>3. CASE u \in {p, r}
      BY <1>1, <3>2, <3>3 DEF Queued
    <3>4. CASE u \notin {p, r}
      BY <1>1, <3>1, <3>2, <3>4 DEF Queued, Creditors, Debtors
    <3>5. QED
      BY <3>3, <3>4
  <2>4. IsFiniteSet(Queued) /\ Cardinality(Queued) \in Nat
    BY QueuedIsFinite
  <2>5. /\ IsFiniteSet(Queued \ {gone})
        /\ Cardinality(Queued \ {gone}) = Cardinality(Queued) - 1
    BY <2>2, <2>4, FS_RemoveElement
  <2>6. IsFiniteSet(Queued') /\ Cardinality(Queued') <= Cardinality(Queued \ {gone})
    BY <2>3, <2>5, FS_Subset
  <2>7. Cardinality(Queued') \in Nat
    BY <2>6, FS_CardinalityType
  <2>8. Cardinality(Queued) >= 2
    <3>1. {p, r} \in SUBSET Queued
      BY <1>1 DEF Queued
    <3>2. IsFiniteSet({p}) /\ Cardinality({p}) = 1
      BY FS_Singleton
    <3>3. IsFiniteSet({p} \cup {r}) /\ Cardinality({p} \cup {r}) = 2
      <4>1. r \notin {p}
        BY <1>1
      <4>2. Cardinality({p} \cup {r}) = Cardinality({p}) + 1
        BY <3>2, <4>1, FS_AddElement, Zenon
      <4>3. IsFiniteSet({p} \cup {r})
        BY <3>2, FS_AddElement, Zenon
      <4>4. QED
        BY <3>2, <4>2, <4>3
    <3>4. {p} \cup {r} = {p, r}
      OBVIOUS
    <3>5. Cardinality({p, r}) <= Cardinality(Queued)
      BY <2>4, <3>1, FS_Subset
    <3>6. QED
      BY <2>4, <3>3, <3>4, <3>5
  <2>9. QED
    BY <2>4, <2>5, <2>6, <2>7, <2>8
<1>8. Cardinality(Queued') \in Nat
  <2>1. Queued' \in SUBSET Users
    BY DEF Queued, Creditors, Debtors
  <2>2. QED
    BY <2>1, UsersAssumption, FS_Subset, FS_CardinalityType
<1>9. RoomLeft' /\ FewSuggestions'
  BY <1>4, <1>7, <1>8, QueuedIsFinite DEF CashInv, RoomLeft, FewSuggestions
<1>10. ASSUME Remainder = 0, NEW u \in Users
       PROVE  Received(u)' - Given(u)' + queued'[u] = net'[u]
  <2>1. /\ Given(u) \in Int /\ Received(u) \in Int
        /\ Given(u)' = Given(u) + (IF p = u THEN a ELSE 0)
        /\ Received(u)' = Received(u) + (IF r = u THEN a ELSE 0)
    <3>1. s.payer = p /\ s.receiver = r /\ s.amount = a
      OBVIOUS
    <3> HIDE DEF s
    <3>2. QED
      BY <1>1, <1>2, <3>1, SuggestionAdds DEF CashInv
  <2>2. queued[u] \in Int /\ net[u] \in Int /\ Received(u) - Given(u) + queued[u] = net[u]
    BY <1>10 DEF CashInv, TypeOK, Settling
  <2>3. queued'[u] = queued[u] + (IF p = u THEN a ELSE 0) - (IF r = u THEN a ELSE 0)
    <3>1. /\ queued'[r] = queued[r] - a /\ queued'[p] = queued[p] + a /\ a \in Int /\ p # r
          /\ \A w \in Users \ {p, r} : queued'[w] = queued[w]
      BY <1>1, <1>10
    <3>2. CASE u = p
      BY <2>2, <3>1, <3>2
    <3>3. CASE u = r
      BY <2>2, <3>1, <3>3
    <3>4. CASE u # p /\ u # r
      BY <2>2, <3>1, <3>4
    <3>5. QED
      BY <3>2, <3>3, <3>4
  <2>4. net'[u] = net[u] /\ a \in Int /\ p # r
    BY <1>1
  <2>5. CASE p = u
    BY <2>1, <2>2, <2>3, <2>4, <2>5
  <2>6. CASE r = u
    BY <2>1, <2>2, <2>3, <2>4, <2>6
  <2>7. CASE p # u /\ r # u
    BY <2>1, <2>2, <2>3, <2>4, <2>7
  <2>8. QED
    BY <2>5, <2>6, <2>7
<1>11. ASSUME Remainder = 0
       PROVE  SumFunctionOnSet(queued', Users) = SumFunctionOnSet(net', Users)
  <2> DEFINE R == (Users \ {p}) \ {r}
             Sum(f, S) == SumFunctionOnSet(f, S)
  <2>1. /\ IsFiniteSet(Users \ {p}) /\ IsFiniteSet(R) /\ r \in Users \ {p}
        /\ \A u \in Users : queued[u] \in Int /\ queued'[u] \in Int
        /\ \A u \in R : queued[u] \in Int /\ queued'[u] = queued[u]
    BY <1>1, UsersAssumption, FS_RemoveElement DEF CashInv, TypeOK
  <2>2. Sum(queued, Users) = queued[p] + (queued[r] + Sum(queued, R))
    <3>1. Sum(queued, Users) = queued[p] + Sum(queued, Users \ {p})
      BY <2>1, UsersAssumption, SumRemove
    <3>2. Sum(queued, Users \ {p}) = queued[r] + Sum(queued, R)
      BY <2>1, SumRemove
    <3>3. QED
      BY <3>1, <3>2
  <2>3. Sum(queued', Users) = queued'[p] + (queued'[r] + Sum(queued', R))
    <3>1. Sum(queued', Users) = queued'[p] + Sum(queued', Users \ {p})
      BY <2>1, UsersAssumption, SumRemove
    <3>2. Sum(queued', Users \ {p}) = queued'[r] + Sum(queued', R)
      BY <2>1, SumRemove
    <3>3. QED
      BY <3>1, <3>2
  <2> HIDE DEF R
  <2>4. Sum(queued', R) = Sum(queued, R) /\ Sum(queued, R) \in Int
    BY <2>1, SumEqual, SumType
  <2>5. Sum(queued, Users) = Sum(net, Users)
    BY <1>11 DEF CashInv, Settling
  <2> HIDE DEF Sum
  <2>6. Sum(queued', Users) = Sum(queued, Users)
    BY <1>1, <1>11, <2>1, <2>2, <2>3, <2>4
  <2>7. QED
    BY <1>1, <2>5, <2>6 DEF Sum
<1>12. Settling'
  BY <1>10, <1>11 DEF Settling
<1>13. QED
  BY <1>3, <1>5, <1>6, <1>9, <1>12 DEF CashInv

\* When the loop is over nothing is queued any more.
LEMMA ReturnedMeansSettled == CashInv => (Remainder = 0 => SettlesEverything)
<1> SUFFICES ASSUME CashInv, Remainder = 0, Returned, SumFunction(net) = 0, NEW u \in Users
             PROVE  Received(u) - Given(u) = net[u]
  BY DEF SettlesEverything
<1>1. SumFunctionOnSet(queued, Users) = 0
  BY DEF CashInv, TypeOK, Settling, SumFunction
<1>2. \/ \A x \in Users : queued[x] \in Int /\ queued[x] >= 0
      \/ \A x \in Users : queued[x] \in Int /\ queued[x] <= 0
  BY DEF CashInv, TypeOK, Returned, Creditors, Debtors
<1>3. queued[u] = 0
  BY <1>1, <1>2, UsersAssumption, SumOfOneSign
<1>4. Received(u) \in Int /\ Given(u) \in Int /\ net[u] \in Int
  BY GivenType DEF CashInv, TypeOK
<1>5. QED
  BY <1>3, <1>4 DEF CashInv, Settling

-------------------------------------------------------------------------------
(* SplitService.                                                            *)

LEMMA FunctionIsSeq ==
    ASSUME NEW X, NEW n \in Nat, NEW s \in [1 .. n -> X]
    PROVE  s \in Seq(X) /\ Len(s) = n /\ DOMAIN s = 1 .. n
OBVIOUS

LEMMA FirstRow ==
    ASSUME NEW n \in Nat \ {0}
    PROVE  LET R == (1 .. n) \ {1} IN
           IsFiniteSet(1 .. n) /\ 1 \in 1 .. n /\ IsFiniteSet(R) /\ Cardinality(R) = n - 1
<1>1. IsFiniteSet(1 .. n) /\ Cardinality(1 .. n) = n
  BY FS_Interval
<1>2. 1 \in 1 .. n
  OBVIOUS
<1>3. QED
  BY <1>1, <1>2, FS_RemoveElement

LEMMA SplitsSum == \A f : Splits!SumOf(f) = SumFunctionOnSet(f, DOMAIN f)
BY DEF Splits!SumOf, Splits!SumFunction, Splits!SumFunctionOnSet, Splits!FoldFunctionOnSet,
       Splits!MapThenFoldSet, SumFunctionOnSet, FoldFunctionOnSet, MapThenFoldSet

LEMMA LedgerSum == \A f, S : Ledger!SumFunctionOnSet(f, S) = SumFunctionOnSet(f, S)
BY DEF Ledger!SumFunctionOnSet, Ledger!FoldFunctionOnSet,
       Ledger!MapThenFoldSet, SumFunctionOnSet, FoldFunctionOnSet, MapThenFoldSet

\* Rounding is off by half at most.
LEMMA RoundedIsClose ==
    ASSUME NEW a \in Int, NEW b \in Nat \ {0}
    PROVE  /\ Splits!Rounded(a, b) \in Int
           /\ 2 * (Splits!Rounded(a, b) * b - a) <= b
           /\ -b <= 2 * (Splits!Rounded(a, b) * b - a)
           /\ b = 1 => Splits!Rounded(a, b) = a
<1> DEFINE d == a \div b
           m == a % b
<1>1. d \in Int /\ m \in Int /\ 0 <= m /\ m < b /\ a = b * d + m
  OBVIOUS
<1>2. /\ Splits!Rounded(a, b) \in {d, d + 1}
      /\ Splits!Rounded(a, b) = d => 2 * m <= b
      /\ Splits!Rounded(a, b) = d + 1 => 2 * m >= b
  BY <1>1 DEF Splits!Rounded
<1> HIDE DEF d, m
<1>3. (d + 1) * b - a = b - m /\ d * b - a = -m
  BY <1>1
<1>4. QED
  BY <1>1, <1>2, <1>3

\* Terms between -b and b, doubled, add up to no more than b for each of them.
LEMMA SumBound ==
    ASSUME NEW S, IsFiniteSet(S), NEW f, NEW b \in Nat,
           \A x \in S : f[x] \in Int /\ -b <= 2 * f[x] /\ 2 * f[x] <= b
    PROVE  /\ -(b * Cardinality(S)) <= 2 * SumFunctionOnSet(f, S)
           /\ 2 * SumFunctionOnSet(f, S) <= b * Cardinality(S)
<1> DEFINE Good == {T \in SUBSET S :
              /\ -(b * Cardinality(T)) <= 2 * SumFunctionOnSet(f, T)
              /\ 2 * SumFunctionOnSet(f, T) <= b * Cardinality(T)}
<1>1. {} \in Good
  BY SumEmpty, FS_EmptySet
<1>2. ASSUME NEW T \in SUBSET S, NEW x \in S, T \in Good, x \notin T
      PROVE  T \cup {x} \in Good
  <2>1. /\ IsFiniteSet(T) /\ T \cup {x} \in SUBSET S /\ Cardinality(T) \in Nat
        /\ Cardinality(T \cup {x}) = Cardinality(T) + 1
    BY <1>2, FS_Subset, FS_AddElement, FS_CardinalityType
  <2>2. \A y \in T \cup {x} : f[y] \in Int
    OBVIOUS
  <2>3. SumFunctionOnSet(f, T \cup {x}) = f[x] + SumFunctionOnSet(f, T)
    BY <1>2, <2>1, <2>2, SumAdd
  <2>4. SumFunctionOnSet(f, T) \in Int
    BY <2>1, <2>2, SumType
  <2>5. b * (Cardinality(T) + 1) = b * Cardinality(T) + b /\ b * Cardinality(T) \in Int
    <3>1. \A c \in Nat : b * (c + 1) = b * c + b /\ b * c \in Int
      OBVIOUS
    <3>2. QED
      BY <2>1, <3>1, Zenon
  <2>6. /\ -(b * Cardinality(T)) <= 2 * SumFunctionOnSet(f, T)
        /\ 2 * SumFunctionOnSet(f, T) <= b * Cardinality(T)
        /\ -b <= 2 * f[x] /\ 2 * f[x] <= b /\ f[x] \in Int
    BY <1>2
  <2> DEFINE c == b * Cardinality(T)
             t == SumFunctionOnSet(f, T)
  <2>7. /\ -(c + b) <= 2 * (f[x] + t) /\ 2 * (f[x] + t) <= c + b
    <3>1. c \in Int /\ t \in Int /\ -c <= 2 * t /\ 2 * t <= c
      BY <2>4, <2>5, <2>6
    <3> HIDE DEF c, t
    <3>2. QED
      BY <2>6, <3>1
  <2>8. QED
    BY <2>1, <2>3, <2>5, <2>7
<1>3. S \in Good
  <2> HIDE DEF Good
  <2>1. QED
    BY <1>1, <1>2, SetInduction
<1>4. QED
  BY <1>3

\* One for each.
LEMMA OnesCount ==
    ASSUME NEW n \in Nat
    PROVE  SumFunctionOnSet([i \in 1 .. n |-> 1], 1 .. n) = n
<1> DEFINE one == [i \in 1 .. n |-> 1]
           Good == {T \in SUBSET (1 .. n) : SumFunctionOnSet(one, T) = Cardinality(T)}
<1>1. IsFiniteSet(1 .. n) /\ Cardinality(1 .. n) = n
  BY FS_Interval
<1>2. {} \in Good
  BY SumEmpty, FS_EmptySet
<1>3. ASSUME NEW T \in SUBSET (1 .. n), NEW x \in 1 .. n, T \in Good, x \notin T
      PROVE  T \cup {x} \in Good
  <2>1. /\ IsFiniteSet(T) /\ T \cup {x} \in SUBSET (1 .. n) /\ Cardinality(T) \in Nat
        /\ Cardinality(T \cup {x}) = Cardinality(T) + 1
    BY <1>1, <1>3, FS_Subset, FS_AddElement, FS_CardinalityType
  <2>2. one[x] = 1 /\ \A y \in T \cup {x} : one[y] \in Int
    OBVIOUS
  <2> HIDE DEF one
  <2>3. SumFunctionOnSet(one, T \cup {x}) = 1 + SumFunctionOnSet(one, T)
    BY <1>3, <2>1, <2>2, SumAdd
  <2>4. QED
    BY <1>3, <2>1, <2>3
<1>4. (1 .. n) \in Good
  <2> HIDE DEF Good
  <2>1. QED
    BY <1>1, <1>2, <1>3, SetInduction
<1>5. QED
  BY <1>1, <1>4

\* A call has been accepted before it computes, and computes from what was sent.
SplitInv ==
    /\ step \in {"called", "validated", "refused", "computed"} => call \in Splits!Call
    /\ step \in {"validated", "computed"} => Splits!Valid
    /\ step = "computed" => owed = Splits!Adjusted(Splits!Shares)

\* What SplitService computes from: at least one participant, and due fractions
\* with one positive denominator.
LEMMA Accepted ==
    ASSUME call \in Splits!Call, Splits!Valid
    PROVE  \E n \in Nat \ {0} :
              /\ call.splits \in [1 .. n -> [user : Members, value : Values[call.method]]]
              /\ Len(call.splits) = n /\ Splits!Rows = 1 .. n
              /\ call.total \in Nat
              /\ call.method \in {"equal", "exact", "percentage", "shares"}
<1>1. PICK m \in Splits!Methods : call \in [method : {m}, total : Totals, splits : Splits!Inputs(m)]
  BY DEF Splits!Call
<1>2. PICK n \in 0 .. MaxParticipants : call.splits \in [1 .. n -> [user : Members, value : Values[m]]]
  BY <1>1 DEF Splits!Inputs
<1>3. n # 0
  <2> SUFFICES ASSUME n = 0
               PROVE  FALSE
    OBVIOUS
  <2>1. call.splits = <<>>
    BY <1>2
  <2>2. QED
    BY <2>1 DEF Splits!Valid
<1>4. n \in Nat \ {0}
  BY <1>3, InputsAssumption
<1>5. Len(call.splits) = n /\ Splits!Rows = 1 .. n
  BY <1>2, <1>4, FunctionIsSeq DEF Splits!Rows
<1>6. m \in {"equal", "exact", "percentage", "shares"} /\ call.method = m /\ call.total \in Nat
  BY <1>1, InputsAssumption DEF Splits!Methods
<1>7. QED
  BY <1>2, <1>4, <1>5, <1>6

LEMMA DueType ==
    ASSUME call \in Splits!Call, Splits!Valid
    PROVE  \E d \in Nat \ {0} : \A i \in Splits!Rows : Splits!Due(i).num \in Nat /\ Splits!Due(i).den = d
<1>1. PICK n \in Nat \ {0} :
              /\ call.splits \in [1 .. n -> [user : Members, value : Values[call.method]]]
              /\ Len(call.splits) = n /\ Splits!Rows = 1 .. n
              /\ call.total \in Nat
              /\ call.method \in {"equal", "exact", "percentage", "shares"}
  BY Accepted
<1> DEFINE Goal(d) == \A i \in 1 .. n : Splits!Due(i).num \in Nat /\ Splits!Due(i).den = d
<1>2. CASE call.method = "equal"
  <2>1. Goal(n)
    BY <1>1, <1>2 DEF Splits!Due
  <2>2. QED
    BY <1>1, <2>1
<1>3. ASSUME call.method # "equal", NEW i \in 1 .. n
      PROVE  Splits!Value(i) \in Nat /\ (call.method = "shares" => Splits!Value(i) >= 1)
  <2>1. Splits!Value(i) # Missing
    BY <1>1, <1>3 DEF Splits!Valid
  <2>2. Splits!Value(i) \in Int
    BY <1>1, <2>1, InputsAssumption DEF Splits!Value
  <2>3. IF call.method = "shares" THEN Splits!Value(i) >= 1 ELSE Splits!Value(i) >= 0
    BY <1>1, <1>3 DEF Splits!Valid
  <2>4. QED
    BY <2>2, <2>3
<1>4. CASE call.method = "exact"
  <2>1. Goal(1)
    BY <1>1, <1>3, <1>4 DEF Splits!Due
  <2>2. QED
    BY <1>1, <2>1
<1>5. CASE call.method = "percentage"
  <2>1. Goal(10000)
    <3> SUFFICES ASSUME NEW i \in 1 .. n
                 PROVE  Splits!Due(i).num \in Nat /\ Splits!Due(i).den = 10000
      OBVIOUS
    <3>1. Splits!Value(i) \in Nat /\ call.total \in Nat
      BY <1>1, <1>3, <1>5
    <3>2. call.total * Splits!Value(i) \in Nat
      BY <3>1
    <3>3. Splits!Due(i) = [num |-> call.total * Splits!Value(i), den |-> 10000]
      BY <1>5 DEF Splits!Due, Splits!Hundred
    <3>4. QED
      BY <3>2, <3>3
  <2>2. QED
    BY <1>1, <2>1
<1>6. CASE call.method = "shares"
  <2>1. \A i \in 1 .. n : Splits!Value(i) \in Nat /\ Splits!Value(i) >= 1
    BY <1>3, <1>6
  <2>2. Splits!SumOfValues \in Nat \ {0}
    <3> DEFINE v == [i \in Splits!Rows |-> Splits!Value(i)]
    <3>1. Splits!SumOfValues = SumFunctionOnSet(v, 1 .. n)
      BY <1>1, SplitsSum DEF Splits!SumOfValues
    <3>2. IsFiniteSet(1 .. n) /\ 1 \in 1 .. n
      <4>1. 1 \in Int /\ n \in Int /\ 1 \in 1 .. n
        OBVIOUS
      <4>2. QED
        BY <4>1, FS_Interval
    <3>3. \A i \in 1 .. n : v[i] \in Int /\ v[i] >= 1
      BY <1>1, <2>1
    <3> HIDE DEF v
    <3> DEFINE R == (1 .. n) \ {1}
               none == [i \in 1 .. n |-> 0]
    <3>4. SumFunctionOnSet(v, 1 .. n) = v[1] + SumFunctionOnSet(v, R)
      BY <3>2, <3>3, SumRemove
    <3>5. /\ IsFiniteSet(R)
          /\ \A i \in R : v[i] \in Int /\ none[i] \in Int /\ none[i] = 0 /\ none[i] <= v[i]
      <4>1. IsFiniteSet(R)
        BY <3>2, FS_RemoveElement
      <4>2. QED
        BY <3>3, <4>1
    <3> HIDE DEF R, none
    <3>6. /\ SumFunctionOnSet(none, R) = 0 /\ SumFunctionOnSet(none, R) <= SumFunctionOnSet(v, R)
          /\ SumFunctionOnSet(v, R) \in Int
      BY <3>5, SumZero, SumMono, SumType
    <3>7. QED
      BY <3>1, <3>2, <3>3, <3>4, <3>6
  <2>3. Goal(Splits!SumOfValues)
    <3> SUFFICES ASSUME NEW i \in 1 .. n
                 PROVE  Splits!Due(i).num \in Nat /\ Splits!Due(i).den = Splits!SumOfValues
      OBVIOUS
    <3>1. Splits!Value(i) \in Nat /\ call.total \in Nat
      BY <1>1, <2>1
    <3>2. call.total * Splits!Value(i) \in Nat
      BY <3>1
    <3>3. Splits!Due(i) = [num |-> call.total * Splits!Value(i), den |-> Splits!SumOfValues]
      BY <1>6 DEF Splits!Due
    <3>4. QED
      BY <3>2, <3>3
  <2>4. QED
    BY <1>1, <2>2, <2>3
<1>7. QED
  BY <1>1, <1>2, <1>4, <1>5, <1>6

\* What was accepted, in numbers: the denominator is d for all, the numerators add
\* up to the total times d, as nearly as the method asks for.
LEMMA AcceptedSums ==
    ASSUME call \in Splits!Call, Splits!Valid, NEW num, num = [i \in Splits!Rows |-> Splits!Due(i).num],
           NEW d, d = Splits!Due(1).den
    PROVE  LET off == call.total * d - SumFunctionOnSet(num, Splits!Rows) IN
           /\ off \in Int
           /\ call.method = "exact" => off \in -1 .. 1 /\ d = 1
           /\ call.method = "percentage" => -call.total <= off /\ off <= call.total
           /\ call.method \in {"equal", "shares"} => off = 0
<1> DEFINE t == call.total
           N == SumFunctionOnSet(num, Splits!Rows)
           v == [i \in Splits!Rows |-> Splits!Value(i)]
           V == SumFunctionOnSet(v, Splits!Rows)
<1>1. PICK n \in Nat \ {0} :
              /\ call.splits \in [1 .. n -> [user : Members, value : Values[call.method]]]
              /\ Len(call.splits) = n /\ Splits!Rows = 1 .. n
              /\ t \in Nat
              /\ call.method \in {"equal", "exact", "percentage", "shares"}
  BY Accepted
<1>2. PICK e \in Nat \ {0} : \A i \in Splits!Rows : Splits!Due(i).num \in Nat /\ Splits!Due(i).den = e
  BY DueType
<1>3. d = e /\ d \in Nat \ {0}
  BY <1>1, <1>2
<1>4. IsFiniteSet(Splits!Rows) /\ \A i \in Splits!Rows : num[i] \in Int
  <2>1. IsFiniteSet(1 .. n)
    BY FS_Interval
  <2>2. \A i \in Splits!Rows : num[i] \in Int
    BY <1>2
  <2>3. QED
    BY <1>1, <2>1, <2>2, Zenon
<1>5. N \in Int
  BY <1>4, SumType
<1>6. t * d - N \in Int
  BY <1>1, <1>3, <1>5
<1>7. CASE call.method = "equal"
  <2> DEFINE one == [i \in 1 .. n |-> 1]
  <2>1. d = n /\ \A i \in 1 .. n : num[i] = t
    BY <1>1, <1>7 DEF Splits!Due
  <2>2. N = t * SumFunctionOnSet(one, 1 .. n)
    <3>1. \A i \in Splits!Rows : one[i] \in Int /\ num[i] = t * one[i]
      BY <1>1, <2>1
    <3>2. t \in Int
      BY <1>1
    <3> HIDE DEF one, t
    <3>3. N = t * SumFunctionOnSet(one, Splits!Rows)
      BY <1>4, <3>1, <3>2, SumScale
    <3>4. QED
      BY <1>1, <3>3, Zenon
  <2>3. SumFunctionOnSet(one, 1 .. n) = n
    BY OnesCount
  <2>4. QED
    BY <1>1, <1>3, <1>5, <1>7, <2>1, <2>2, <2>3
<1>8. ASSUME call.method # "equal"
      PROVE  /\ \A i \in Splits!Rows : v[i] \in Nat
             /\ V \in Int /\ Splits!SumOfValues = V
  <2>1. ASSUME NEW i \in 1 .. n
        PROVE  Splits!Value(i) \in Nat
    <3>1. Splits!Value(i) # Missing
      BY <1>1, <1>8 DEF Splits!Valid
    <3>2. Splits!Value(i) \in Int
      BY <1>1, <3>1, InputsAssumption DEF Splits!Value
    <3>3. IF call.method = "shares" THEN Splits!Value(i) >= 1 ELSE Splits!Value(i) >= 0
      BY <1>1, <1>8 DEF Splits!Valid
    <3>4. QED
      BY <3>2, <3>3
  <2>2. \A i \in Splits!Rows : v[i] \in Nat
    BY <1>1, <2>1
  <2>3. V \in Int
    <3> HIDE DEF v
    <3>1. QED
      BY <1>4, <2>2, SumType
  <2>4. Splits!SumOfValues = V
    BY SplitsSum DEF Splits!SumOfValues
  <2>5. QED
    BY <2>2, <2>3, <2>4
<1>9. ASSUME call.method \in {"percentage", "shares"}
      PROVE  N = t * V
  <2>1. \A i \in Splits!Rows : v[i] \in Int /\ num[i] = t * v[i]
    BY <1>8, <1>9 DEF Splits!Due
  <2> HIDE DEF v
  <2>2. QED
    BY <1>1, <1>4, <2>1, SumScale
<1>10. CASE call.method = "exact"
  <2>1. d = 1 /\ \A i \in Splits!Rows : v[i] \in Int /\ num[i] = v[i]
    BY <1>8, <1>10 DEF Splits!Due
  <2>2. N = V
    <3> HIDE DEF v
    <3>1. QED
      BY <1>4, <2>1, SumEqual
  <2>3. Splits!Distance(V, t) <= 1
    BY <1>8, <1>10 DEF Splits!Valid
  <2> HIDE DEF V, t
  <2>4. t - V \in -1 .. 1
    BY <1>1, <1>8, <1>10, <2>3 DEF Splits!Distance
  <2>5. t * d - N \in -1 .. 1
    BY <1>1, <2>1, <2>2, <2>4
  <2>6. QED
    BY <1>6, <1>10, <2>1, <2>5 DEF t
<1>11. CASE call.method = "percentage"
  <2>1. d = 10000 /\ Splits!Distance(V, 10000) <= 1
    BY <1>1, <1>8, <1>11 DEF Splits!Valid, Splits!Due, Splits!Hundred
  <2>2. 10000 - V \in -1 .. 1 /\ t * d - N = t * (10000 - V)
    <3>1. V \in Int /\ t \in Int /\ N = t * V
      BY <1>1, <1>8, <1>9, <1>11
    <3> HIDE DEF V, t, N
    <3>2. QED
      BY <2>1, <3>1 DEF Splits!Distance
  <2>3. t * (10000 - V) \in {-t, 0, t}
    <3> HIDE DEF V, t
    <3>1. 10000 - V \in {-1, 0, 1}
      BY <2>2
    <3>2. QED
      BY <1>1, <3>1
  <2>4. QED
    BY <1>1, <1>6, <1>11, <2>2, <2>3
<1>12. CASE call.method = "shares"
  <2>1. d = V
    BY <1>1, <1>8, <1>12 DEF Splits!Due
  <2>2. QED
    BY <1>1, <1>5, <1>8, <1>9, <1>12, <2>1
<1>13. QED
  BY <1>1, <1>7, <1>10, <1>11, <1>12

\* What is owed: the shares, the first of them adjusted.
LEMMA Computed ==
    ASSUME SplitInv, step = "computed"
    PROVE  LET s == Splits!Shares IN
           \E n \in Nat \ {0}, d \in Nat \ {0} :
              /\ s \in [1 .. n -> Int]
              /\ Splits!Rows = 1 .. n /\ call.total \in Nat
              /\ call \in Splits!Call /\ Splits!Valid
              /\ call.method \in {"equal", "exact", "percentage", "shares"}
              /\ \A i \in 1 .. n : /\ Splits!Due(i).num \in Nat /\ Splits!Due(i).den = d
                                   /\ s[i] = Splits!Rounded(Splits!Due(i).num, d)
              /\ SumFunctionOnSet(s, 1 .. n) \in Int
              /\ owed = [s EXCEPT ![1] = @ + call.total - SumFunctionOnSet(s, 1 .. n)]
              /\ owed \in [1 .. n -> Int] /\ Len(owed) = n
<1>1. call \in Splits!Call /\ Splits!Valid /\ owed = Splits!Adjusted(Splits!Shares)
  BY DEF SplitInv
<1>2. PICK n \in Nat \ {0} :
              /\ call.splits \in [1 .. n -> [user : Members, value : Values[call.method]]]
              /\ Len(call.splits) = n /\ Splits!Rows = 1 .. n
              /\ call.total \in Nat
              /\ call.method \in {"equal", "exact", "percentage", "shares"}
  BY <1>1, Accepted
<1>3. PICK d \in Nat \ {0} : \A i \in Splits!Rows : Splits!Due(i).num \in Nat /\ Splits!Due(i).den = d
  BY <1>1, DueType
<1> DEFINE s == Splits!Shares
           S == SumFunctionOnSet(s, 1 .. n)
<1>4. s \in [1 .. n -> Int] /\ \A i \in 1 .. n : s[i] = Splits!Rounded(Splits!Due(i).num, d)
  <2>1. ASSUME NEW i \in 1 .. n
        PROVE  Splits!Rounded(Splits!Due(i).num, d) \in Int
    <3>1. Splits!Due(i).num \in Int
      BY <1>2, <1>3
    <3>2. QED
      BY <3>1, RoundedIsClose
  <2>2. s = [i \in 1 .. n |-> Splits!Rounded(Splits!Due(i).num, d)]
    BY <1>2, <1>3 DEF Splits!Shares
  <2>3. QED
    BY <2>1, <2>2
<1> HIDE DEF s
<1>5. S \in Int
  <2>1. IsFiniteSet(1 .. n)
    BY FS_Interval
  <2>2. QED
    BY <1>4, <2>1, SumType
<1>6. owed = [s EXCEPT ![1] = @ + call.total - S]
  <2>1. Splits!SumOf(s) = S
    BY <1>4, SplitsSum
  <2>2. QED
    BY <1>1, <2>1 DEF Splits!Adjusted, s
<1>7. owed \in [1 .. n -> Int]
  <2>1. s[1] \in Int /\ s[1] + call.total - S \in Int
    BY <1>2, <1>4, <1>5
  <2> HIDE DEF S
  <2>2. QED
    BY <1>4, <1>6, <2>1
<1>8. Len(owed) = n
  BY <1>7, FunctionIsSeq
<1>9. QED
  BY <1>1, <1>2, <1>3, <1>4, <1>5, <1>6, <1>7, <1>8 DEF s

LEMMA ComputedSumsToTotal == SplitInv => SumsToTotal
<1> SUFFICES ASSUME SplitInv, step = "computed"
             PROVE  Splits!SumOf(owed) = call.total
  BY DEF SumsToTotal, Splits!SumsToTotal
<1> DEFINE s == Splits!Shares
<1>1. PICK n \in Nat \ {0}, d \in Nat \ {0} :
        /\ s \in [1 .. n -> Int]
        /\ call.total \in Nat
        /\ SumFunctionOnSet(s, 1 .. n) \in Int
        /\ owed = [s EXCEPT ![1] = @ + call.total - SumFunctionOnSet(s, 1 .. n)]
        /\ owed \in [1 .. n -> Int]
  BY Computed
<1> HIDE DEF s
<1> DEFINE R == (1 .. n) \ {1}
           S == SumFunctionOnSet(s, 1 .. n)
<1>2. IsFiniteSet(1 .. n) /\ 1 \in 1 .. n /\ IsFiniteSet(R)
  BY FirstRow
<1>3. /\ owed[1] = s[1] + call.total - S /\ s[1] \in Int
      /\ \A i \in R : owed[i] = s[i] /\ s[i] \in Int
  BY <1>1
<1>4. S = s[1] + SumFunctionOnSet(s, R)
  BY <1>1, <1>2, SumRemove
<1>5. SumFunctionOnSet(owed, 1 .. n) = owed[1] + SumFunctionOnSet(owed, R)
  BY <1>1, <1>2, SumRemove
<1>6. SumFunctionOnSet(owed, R) = SumFunctionOnSet(s, R) /\ SumFunctionOnSet(s, R) \in Int
  BY <1>2, <1>3, SumEqual, SumType
<1> HIDE DEF R
<1>7. SumFunctionOnSet(owed, 1 .. n) = call.total
  BY <1>1, <1>3, <1>4, <1>5, <1>6
<1>8. Splits!SumOf(owed) = SumFunctionOnSet(owed, 1 .. n)
  BY <1>1, SplitsSum
<1>9. QED
  BY <1>7, <1>8

LEMMA ComputedIsFair == SplitInv => FairToTheCent
<1> SUFFICES ASSUME SplitInv, step = "computed", NEW i \in Splits!Rows
             PROVE  2 * Splits!Distance(owed[i] * Splits!Due(i).den, Splits!Due(i).num)
                       <= IF i = 1 THEN Splits!Slack ELSE Splits!Due(i).den
  BY DEF FairToTheCent, Splits!FairToTheCent
<1> DEFINE s == Splits!Shares
<1>1. PICK n \in Nat \ {0}, d \in Nat \ {0} :
              /\ s \in [1 .. n -> Int]
              /\ Splits!Rows = 1 .. n /\ call.total \in Nat
              /\ call \in Splits!Call /\ Splits!Valid
              /\ call.method \in {"equal", "exact", "percentage", "shares"}
              /\ \A j \in 1 .. n : /\ Splits!Due(j).num \in Nat /\ Splits!Due(j).den = d
                                   /\ s[j] = Splits!Rounded(Splits!Due(j).num, d)
              /\ SumFunctionOnSet(s, 1 .. n) \in Int
              /\ owed = [s EXCEPT ![1] = @ + call.total - SumFunctionOnSet(s, 1 .. n)]
              /\ owed \in [1 .. n -> Int] /\ Len(owed) = n
  BY Computed
<1> HIDE DEF s
<1> DEFINE t == call.total
           R == (1 .. n) \ {1}
           S == SumFunctionOnSet(s, 1 .. n)
           num == [j \in Splits!Rows |-> Splits!Due(j).num]
           sd == [j \in 1 .. n |-> d * s[j]]
           err == [j \in 1 .. n |-> s[j] * d - num[j]]
           N == SumFunctionOnSet(num, 1 .. n)
           off == t * d - N
<1>2. ASSUME NEW j \in 1 .. n
      PROVE  /\ err[j] \in Int /\ -d <= 2 * err[j] /\ 2 * err[j] <= d
             /\ d = 1 => err[j] = 0
             /\ num[j] \in Int /\ sd[j] \in Int /\ sd[j] = err[j] + num[j]
  <2>1. /\ s[j] = Splits!Rounded(num[j], d) /\ num[j] \in Nat /\ s[j] \in Int
    BY <1>1
  <2>2. /\ 2 * (s[j] * d - num[j]) <= d /\ -d <= 2 * (s[j] * d - num[j])
        /\ d = 1 => s[j] = num[j]
    <3> DEFINE a == num[j]
    <3>1. a \in Int /\ s[j] = Splits!Rounded(a, d)
      BY <2>1
    <3> HIDE DEF a, num
    <3>2. QED
      BY <3>1, RoundedIsClose DEF a
  <2>3. s[j] * d \in Int /\ s[j] * d = d * s[j]
    BY <2>1
  <2>4. err[j] = s[j] * d - num[j] /\ sd[j] = d * s[j]
    OBVIOUS
  <2> HIDE DEF err, num, sd
  <2>5. d = 1 => s[j] * d = s[j]
    BY <2>1
  <2>6. QED
    BY <2>1, <2>2, <2>3, <2>4, <2>5
<1>3. CASE i # 1
  <2>1. i \in 1 .. n /\ owed[i] = s[i] /\ s[i] \in Int
        /\ Splits!Due(i).den = d /\ Splits!Due(i).num = num[i]
    BY <1>1, <1>3
  <2>2. owed[i] * d = err[i] + num[i]
    <3>1. err[i] = s[i] * d - num[i]
      BY <2>1
    <3>2. num[i] \in Int
      BY <1>2, <2>1
    <3> HIDE DEF err, num
    <3>3. s[i] * d \in Int
      BY <2>1
    <3>4. QED
      BY <2>1, <3>1, <3>2, <3>3
  <2>3. QED
    <3> HIDE DEF err, num
    <3>1. QED
      BY <1>2, <1>3, <2>1, <2>2 DEF Splits!Distance
<1>4. CASE i = 1
  <2>1. IsFiniteSet(1 .. n) /\ 1 \in 1 .. n /\ IsFiniteSet(R) /\ Cardinality(R) = n - 1
    BY FirstRow
  <2>2. SumFunctionOnSet(sd, 1 .. n) = d * S
    <3>1. \A j \in 1 .. n : s[j] \in Int /\ sd[j] = d * s[j]
      BY <1>1
    <3> HIDE DEF sd
    <3>2. QED
      BY <2>1, <3>1, SumScale
  <2>3. SumFunctionOnSet(sd, 1 .. n) = SumFunctionOnSet(err, 1 .. n) + N
    <3> HIDE DEF err, num, sd
    <3>1. QED
      BY <1>2, <2>1, SumPlus
  <2>4. SumFunctionOnSet(err, 1 .. n) = err[1] + SumFunctionOnSet(err, R)
    <3> HIDE DEF err
    <3>1. QED
      BY <1>2, <2>1, SumRemove
  <2>5. /\ -(d * (n - 1)) <= 2 * SumFunctionOnSet(err, R)
        /\ 2 * SumFunctionOnSet(err, R) <= d * (n - 1)
        /\ SumFunctionOnSet(err, R) \in Int
    <3>1. \A j \in R : err[j] \in Int /\ -d <= 2 * err[j] /\ 2 * err[j] <= d
      BY <1>2
    <3> HIDE DEF err, R
    <3>2. QED
      BY <2>1, <3>1, SumBound, SumType
  <2>6. d = 1 => SumFunctionOnSet(err, R) = 0
    <3>1. d = 1 => \A j \in R : err[j] = 0
      BY <1>2
    <3> HIDE DEF err, R
    <3>2. QED
      BY <2>1, <3>1, SumZero
  <2>7. N \in Int
    <3> HIDE DEF num
    <3>1. QED
      BY <1>2, <2>1, SumType
  <2>8. /\ off \in Int
        /\ call.method = "exact" => off \in -1 .. 1 /\ d = 1
        /\ call.method = "percentage" => -t <= off /\ off <= t
        /\ call.method \in {"equal", "shares"} => off = 0
    <3>1. d = Splits!Due(1).den
      BY <1>1, <2>1
    <3> HIDE DEF off
    <3>2. QED
      BY <1>1, <3>1, AcceptedSums DEF off
  <2>9. owed[1] * d - num[1] = off - SumFunctionOnSet(err, R)
    <3>1. owed[1] = s[1] + t - S /\ s[1] \in Int /\ S \in Int /\ t \in Int
      BY <1>1, <2>1
    <3>2. err[1] = s[1] * d - num[1] /\ num[1] \in Int
      BY <1>1, <1>2, <2>1
    <3> HIDE DEF S, t, num, err, sd, N, R
    <3> DEFINE X == SumFunctionOnSet(err, R)
    <3>3. d * S = err[1] + X + N /\ X \in Int
      BY <2>2, <2>3, <2>4, <2>5, <3>2, <2>7
    <3>4. owed[1] * d = s[1] * d + t * d - d * S
      BY <3>1
    <3>5. s[1] * d \in Int /\ t * d \in Int /\ d * S \in Int
      BY <3>1
    <3> HIDE DEF X
    <3>6. QED
      BY <3>2, <3>3, <3>4, <3>5, <2>7 DEF X
  <2>10. /\ Splits!Due(1).den = d /\ Splits!Due(1).num = num[1] /\ num[1] \in Int
         /\ owed[1] * d \in Int
    BY <1>1, <1>2, <2>1
  <2>11. d * (n - 1) <= n * d /\ n * d \in Int /\ d * (n - 1) \in Int
    OBVIOUS
  <2>12. /\ call.method = "exact" => Splits!Slack = 2
         /\ call.method = "percentage" => Splits!Slack = n * d + 2 * t
         /\ call.method \in {"equal", "shares"} => Splits!Slack = n * d
    BY <1>1, <2>10 DEF Splits!Slack
  <2> DEFINE X == SumFunctionOnSet(err, R)
             Y == owed[1] * d
  <2> HIDE DEF num, off, X, Y
  <2>13. /\ -(d * (n - 1)) <= 2 * X /\ 2 * X <= d * (n - 1) /\ X \in Int
         /\ Y - num[1] = off - X /\ Y \in Int /\ t \in Nat
         /\ Splits!Distance(owed[i] * Splits!Due(i).den, Splits!Due(i).num) = Splits!Distance(Y, num[1])
    BY <1>1, <1>4, <2>5, <2>9, <2>10 DEF X, Y
  <2>14. Splits!Distance(Y, num[1]) \in {off - X, X - off}
    BY <2>8, <2>10, <2>13 DEF Splits!Distance
  <2>15. CASE call.method = "exact"
    BY <1>4, <2>6, <2>8, <2>12, <2>13, <2>14, <2>15 DEF X
  <2>16. CASE call.method # "exact"
    <3>1. off \in Int /\ Splits!Slack >= n * d + 2 * off /\ Splits!Slack >= n * d - 2 * off /\ Splits!Slack \in Int
      <4> DEFINE m == n * d
                 slack == Splits!Slack
      <4>1. m \in Int /\ t \in Nat /\ off \in Int
        BY <2>8, <2>11, <2>13
      <4> HIDE DEF m, slack, t
      <4>2. \/ slack = m + 2 * t /\ -t <= off /\ off <= t
            \/ slack = m /\ off = 0
        BY <1>1, <2>8, <2>12, <2>16 DEF m, slack
      <4>3. slack >= m + 2 * off /\ slack >= m - 2 * off /\ slack \in Int
        BY <4>1, <4>2
      <4>4. QED
        BY <4>1, <4>3 DEF m, slack
    <3> DEFINE k == n * d
               l == d * (n - 1)
    <3>2. l <= k /\ k \in Int /\ l \in Int
      BY <2>11
    <3> HIDE DEF k, l
    <3>3. 2 * (off - X) <= Splits!Slack /\ 2 * (X - off) <= Splits!Slack
      BY <2>13, <3>1, <3>2 DEF k, l
    <3>4. QED
      BY <1>4, <2>13, <2>14, <3>3
  <2>17. QED
    BY <2>15, <2>16
<1>5. QED
  BY <1>3, <1>4

-------------------------------------------------------------------------------
(* Sums of sums.                                                            *)

\* Terms that are nothing do not count.
LEMMA SumOfSome ==
    ASSUME NEW S, IsFiniteSet(S), NEW T \in SUBSET S, NEW f, \A x \in S : f[x] \in Int,
           \A x \in S \ T : f[x] = 0
    PROVE  SumFunctionOnSet(f, T) = SumFunctionOnSet(f, S)
<1> DEFINE R == S \ T
<1>1. IsFiniteSet(T) /\ IsFiniteSet(R) /\ T \cap R = {} /\ T \cup R = S
  BY FS_Subset
<1>2. SumFunctionOnSet(f, R) = 0
  BY <1>1, SumZero
<1>3. (\A x \in T \cup R : f[x] \in Int) /\ \A x \in T : f[x] \in Int
  BY <1>1
<1> HIDE DEF R
<1>4. SumFunctionOnSet(f, T \cup R) = SumFunctionOnSet(f, T) + SumFunctionOnSet(f, R)
  BY <1>1, <1>3, SumUnion
<1>5. SumFunctionOnSet(f, T) \in Int
  BY <1>1, <1>3, SumType
<1>6. SumFunctionOnSet(f, S) = SumFunctionOnSet(f, T \cup R)
  BY <1>1, Zenon
<1>7. QED
  BY <1>2, <1>4, <1>5, <1>6

\* part[a]: those of B with the key a.
Parts(part, key, A, B) == \A a \in A : part[a] = {i \in B : key[i] = a}
SumsOfParts(g, f, part, A) == \A a \in A : g[a] = SumFunctionOnSet(f, part[a])

\* The sum over a set is the sum of what its parts add up to.
LEMMA SumOfParts ==
    ASSUME NEW A, IsFiniteSet(A), NEW B, IsFiniteSet(B), NEW f, \A i \in B : f[i] \in Int,
           NEW key, \A i \in B : key[i] \in A,
           NEW part, Parts(part, key, A, B), NEW g, SumsOfParts(g, f, part, A)
    PROVE  SumFunctionOnSet(g, A) = SumFunctionOnSet(f, B)
<1>0. \A a \in A : g[a] = SumFunctionOnSet(f, {i \in B : key[i] = a})
  BY DEF Parts, SumsOfParts
<1> DEFINE Part(T) == {i \in B : key[i] \in T}
           Good == {T \in SUBSET A : SumFunctionOnSet(g, T) = SumFunctionOnSet(f, Part(T))}
<1>1. {} \in Good
  <2>1. Part({}) = {}
    OBVIOUS
  <2>2. QED
    BY <2>1, SumEmpty
<1>2. ASSUME NEW T \in SUBSET A, NEW x \in A, T \in Good, x \notin T
      PROVE  T \cup {x} \in Good
  <2> DEFINE X == {i \in B : key[i] = x}
  <2>1. IsFiniteSet(X) /\ IsFiniteSet(Part(T)) /\ IsFiniteSet(T)
    BY FS_Subset
  <2>2. Part(T \cup {x}) = Part(T) \cup X /\ Part(T) \cap X = {}
    BY <1>2
  <2>3. \A i \in Part(T) \cup X : f[i] \in Int
    OBVIOUS
  <2>4. g[x] = SumFunctionOnSet(f, X) /\ SumFunctionOnSet(f, X) \in Int
    BY <1>0, <2>1, SumType
  <2>5. \A a \in A : g[a] \in Int
    <3> SUFFICES ASSUME NEW a \in A
                 PROVE  SumFunctionOnSet(f, {i \in B : key[i] = a}) \in Int
      BY <1>0
    <3>1. IsFiniteSet({i \in B : key[i] = a})
      BY FS_Subset
    <3>2. QED
      BY <3>1, SumType
  <2>6. SumFunctionOnSet(g, T \cup {x}) = g[x] + SumFunctionOnSet(g, T)
    BY <1>2, <2>1, <2>5, SumAdd
  <2>7. SumFunctionOnSet(g, T) = SumFunctionOnSet(f, Part(T)) /\ SumFunctionOnSet(f, Part(T)) \in Int
    BY <1>2, <2>1, SumType
  <2> HIDE DEF Part, X
  <2>8. SumFunctionOnSet(f, Part(T) \cup X) = SumFunctionOnSet(f, Part(T)) + SumFunctionOnSet(f, X)
    BY <2>1, <2>2, <2>3, SumUnion
  <2>9. SumFunctionOnSet(f, Part(T \cup {x})) = SumFunctionOnSet(f, Part(T) \cup X)
    BY <2>2, Zenon
  <2>10. SumFunctionOnSet(f, Part(T \cup {x})) = SumFunctionOnSet(g, T \cup {x})
    BY <2>4, <2>6, <2>7, <2>8, <2>9
  <2>11. QED
    BY <2>10
<1>3. A \in Good
  <2> HIDE DEF Good
  <2>1. QED
    BY <1>1, <1>2, SetInduction
<1>4. Part(A) = B
  OBVIOUS
<1>5. QED
  BY <1>3, <1>4, Zenon

\* A table by rows and by columns, and what the rows of a table add up to.
Table(F, G, A, B) == \A a \in A, b \in B : F[a][b] \in Int /\ G[b][a] = F[a][b]
RowSums(rows, F, A, B) == \A a \in A : rows[a] = SumFunctionOnSet(F[a], B)

\* A table adds up to the same by rows and by columns.
LEMMA SumSwap ==
    ASSUME NEW A, IsFiniteSet(A), NEW B, IsFiniteSet(B),
           NEW F, NEW G, Table(F, G, A, B),
           NEW rows, RowSums(rows, F, A, B), NEW columns, RowSums(columns, G, B, A)
    PROVE  SumFunctionOnSet(rows, A) = SumFunctionOnSet(columns, B)
<1> USE DEF Table, RowSums
<1> DEFINE part(T) == [b \in B |-> SumFunctionOnSet(G[b], T)]
           Good == {T \in SUBSET A : SumFunctionOnSet(rows, T) = SumFunctionOnSet(part(T), B)}
<1>1. {} \in Good
  <2> DEFINE none == part({})
  <2>1. \A b \in B : none[b] = 0
    BY SumEmpty
  <2> HIDE DEF none
  <2>2. SumFunctionOnSet(none, B) = 0
    BY <2>1, SumZero
  <2>3. QED
    BY <2>2, SumEmpty DEF none
<1>2. \A a \in A : rows[a] \in Int
  BY SumType
<1>3. ASSUME NEW T \in SUBSET A, NEW x \in A, T \in Good, x \notin T
      PROVE  T \cup {x} \in Good
  <2> DEFINE f == F[x]
             g == part(T)
             h == part(T \cup {x})
  <2>1. IsFiniteSet(T)
    BY FS_Subset
  <2>2. SumFunctionOnSet(rows, T \cup {x}) = rows[x] + SumFunctionOnSet(rows, T)
    BY <1>2, <1>3, <2>1, SumAdd
  <2>3. ASSUME NEW b \in B
        PROVE  f[b] \in Int /\ g[b] \in Int /\ h[b] = f[b] + g[b]
    <3>1. \A a \in T \cup {x} : G[b][a] \in Int
      OBVIOUS
    <3>2. SumFunctionOnSet(G[b], T \cup {x}) = G[b][x] + SumFunctionOnSet(G[b], T)
      BY <1>3, <2>1, <3>1, SumAdd
    <3>3. SumFunctionOnSet(G[b], T) \in Int
      BY <2>1, <3>1, SumType
    <3>4. QED
      BY <3>2, <3>3
  <2>4. rows[x] = SumFunctionOnSet(f, B)
    OBVIOUS
  <2>5. SumFunctionOnSet(rows, T) = SumFunctionOnSet(g, B)
    BY <1>3
  <2> HIDE DEF f, g, h
  <2>6. SumFunctionOnSet(h, B) = SumFunctionOnSet(f, B) + SumFunctionOnSet(g, B)
    BY <2>3, SumPlus
  <2>7. SumFunctionOnSet(rows, T \cup {x}) = SumFunctionOnSet(h, B)
    BY <2>2, <2>4, <2>5, <2>6
  <2>8. QED
    BY <2>7 DEF h
<1>4. A \in Good
  <2> HIDE DEF Good
  <2>1. QED
    BY <1>1, <1>3, SetInduction
<1>5. SumFunctionOnSet(part(A), B) = SumFunctionOnSet(columns, B)
  <2> DEFINE p == part(A)
  <2>1. \A b \in B : p[b] = columns[b] /\ columns[b] \in Int
    <3> SUFFICES ASSUME NEW b \in B
                 PROVE  p[b] = columns[b] /\ columns[b] \in Int
      OBVIOUS
    <3>1. \A a \in A : G[b][a] \in Int
      OBVIOUS
    <3>2. QED
      BY <3>1, SumType
  <2> HIDE DEF p
  <2>2. SumFunctionOnSet(p, B) = SumFunctionOnSet(columns, B)
    BY <2>1, SumEqual
  <2>3. QED
    BY <2>2 DEF p
<1>6. QED
  BY <1>4, <1>5

-------------------------------------------------------------------------------
(* The rows of a group and the four aggregates of a member.                 *)

Bill == UNION {[owing -> Nat] : owing \in SUBSET Members}
ExpenseRow == [payer : Members, shares : Bill, deleted : BOOLEAN]
PaymentRow ==
    {p \in [payer : Members, receiver : Members, amount : Nat \ {0},
            status : {"pending", "confirmed", "disputed"}] : p.payer # p.receiver}

ShareTo(E, u) == [i \in DOMAIN E |-> Ledger!ShareOf(u, E[i])]
CostOf(E) == [i \in DOMAIN E |-> Ledger!Cost(E[i])]
AmountOf(P) == [j \in DOMAIN P |-> P[j].amount]

LEMMA MembersAreFinite == IsFiniteSet(Members)
BY MembersAssumption, UsersAssumption, FS_Subset

LEMMA TotalOfRows ==
    ASSUME NEW S, IsFiniteSet(S), NEW f, \A x \in S : f[x] \in Int, NEW g, g = [x \in S |-> f[x]]
    PROVE  Ledger!SumFunction(g) = SumFunctionOnSet(f, S) /\ SumFunctionOnSet(f, S) \in Int
<1>1. Ledger!SumFunction(g) = SumFunctionOnSet(g, S)
  BY LedgerSum DEF Ledger!SumFunction
<1>2. \A x \in S : f[x] \in Int /\ g[x] = f[x]
  OBVIOUS
<1>3. SumFunctionOnSet(g, S) = SumFunctionOnSet(f, S)
  BY <1>2, SumEqual
<1>4. QED
  BY <1>1, <1>3, SumType

LEMMA ShareType ==
    ASSUME NEW e \in ExpenseRow, NEW u
    PROVE  /\ Ledger!ShareOf(u, e) \in Nat
           /\ DOMAIN e.shares \subseteq Members /\ IsFiniteSet(DOMAIN e.shares)
           /\ \A v \in DOMAIN e.shares : e.shares[v] \in Nat /\ Ledger!ShareOf(v, e) = e.shares[v]
           /\ u \notin DOMAIN e.shares => Ledger!ShareOf(u, e) = 0
<1>1. PICK owing \in SUBSET Members : e.shares \in [owing -> Nat]
  BY DEF ExpenseRow, Bill
<1>2. IsFiniteSet(owing)
  BY MembersAreFinite, FS_Subset
<1>3. QED
  BY <1>1, <1>2 DEF Ledger!ShareOf

\* An expense costs what all members owe of it.
LEMMA CostIsShares ==
    ASSUME NEW e \in ExpenseRow
    PROVE  /\ Ledger!Cost(e) = SumFunctionOnSet([u \in Members |-> Ledger!ShareOf(u, e)], Members)
           /\ Ledger!Cost(e) \in Int
<1> DEFINE D == DOMAIN e.shares
           f == [u \in Members |-> Ledger!ShareOf(u, e)]
           g == [u \in D |-> e.shares[u]]
<1>1. /\ D \in SUBSET Members /\ IsFiniteSet(D) /\ IsFiniteSet(Members)
      /\ \A u \in Members : f[u] \in Int
      /\ \A u \in Members \ D : f[u] = 0
      /\ \A u \in D : f[u] = e.shares[u]
  BY ShareType, MembersAreFinite
<1>2. g = [u \in D |-> f[u]] /\ \A u \in D : f[u] \in Int
  BY <1>1
<1>3. Ledger!Cost(e) = Ledger!SumFunction(g)
  BY DEF Ledger!Cost, Ledger!TotalOf
<1> HIDE DEF f, g
<1>4. Ledger!SumFunction(g) = SumFunctionOnSet(f, D) /\ SumFunctionOnSet(f, D) \in Int
  BY <1>1, <1>2, TotalOfRows
<1>5. SumFunctionOnSet(f, D) = SumFunctionOnSet(f, Members)
  BY <1>1, SumOfSome
<1>6. QED
  BY <1>3, <1>4, <1>5 DEF f

LEMMA ExpenseRows ==
    ASSUME NEW E \in Seq(ExpenseRow)
    PROVE  /\ IsFiniteSet(DOMAIN E) /\ Ledger!Live(E) \in SUBSET DOMAIN E
           /\ \A i \in DOMAIN E : /\ E[i] \in ExpenseRow /\ E[i].payer \in Members
                                  /\ CostOf(E)[i] = Ledger!Cost(E[i]) /\ CostOf(E)[i] \in Int
           /\ \A u : \A i \in DOMAIN E : ShareTo(E, u)[i] = Ledger!ShareOf(u, E[i]) /\ ShareTo(E, u)[i] \in Nat
<1>1. DOMAIN E = 1 .. Len(E) /\ Len(E) \in Nat
  OBVIOUS
<1>2. IsFiniteSet(DOMAIN E)
  BY <1>1, FS_Interval
<1>3. \A i \in DOMAIN E : E[i] \in ExpenseRow /\ E[i].payer \in Members
  <2>1. \A i \in DOMAIN E : E[i] \in ExpenseRow
    BY <1>1
  <2>2. QED
    BY <2>1 DEF ExpenseRow
<1>4. ASSUME NEW i \in DOMAIN E
      PROVE  CostOf(E)[i] = Ledger!Cost(E[i]) /\ CostOf(E)[i] \in Int
  BY <1>3, CostIsShares DEF CostOf
<1>5. ASSUME NEW u, NEW i \in DOMAIN E
      PROVE  ShareTo(E, u)[i] = Ledger!ShareOf(u, E[i]) /\ ShareTo(E, u)[i] \in Nat
  BY <1>3, ShareType DEF ShareTo
<1>6. Ledger!Live(E) \in SUBSET DOMAIN E
  BY DEF Ledger!Live
<1>7. QED
  BY <1>2, <1>3, <1>4, <1>5, <1>6

LEMMA PaymentRows ==
    ASSUME NEW P \in Seq(PaymentRow)
    PROVE  /\ IsFiniteSet(DOMAIN P) /\ Ledger!Counted(P) \in SUBSET DOMAIN P
           /\ \A j \in DOMAIN P : /\ P[j] \in PaymentRow /\ P[j].payer \in Members
                                  /\ P[j].receiver \in Members /\ P[j].payer # P[j].receiver
                                  /\ AmountOf(P)[j] = P[j].amount /\ AmountOf(P)[j] \in Nat \ {0}
<1>1. DOMAIN P = 1 .. Len(P) /\ Len(P) \in Nat
  OBVIOUS
<1>2. IsFiniteSet(DOMAIN P)
  BY <1>1, FS_Interval
<1>3. \A j \in DOMAIN P : P[j] \in PaymentRow
  BY <1>1
<1>4. \A j \in DOMAIN P : /\ P[j].payer \in Members /\ P[j].receiver \in Members
                          /\ P[j].payer # P[j].receiver /\ P[j].amount \in Nat \ {0}
  BY <1>3 DEF PaymentRow
<1>5. Ledger!Counted(P) \in SUBSET DOMAIN P
  BY DEF Ledger!Counted
<1>6. QED
  BY <1>2, <1>3, <1>4, <1>5 DEF AmountOf

\* The sums of the ledger, over the rows they are about.
LEMMA ExpenseSums ==
    ASSUME NEW E \in Seq(ExpenseRow), NEW u, NEW S \in SUBSET DOMAIN E
    PROVE  /\ Ledger!SumFunction([i \in S |-> Ledger!ShareOf(u, E[i])]) = SumFunctionOnSet(ShareTo(E, u), S)
           /\ SumFunctionOnSet(ShareTo(E, u), S) \in Int
           /\ Ledger!SumFunction([i \in S |-> Ledger!Cost(E[i])]) = SumFunctionOnSet(CostOf(E), S)
           /\ SumFunctionOnSet(CostOf(E), S) \in Int
<1> DEFINE f == ShareTo(E, u)
           c == CostOf(E)
           g == [i \in S |-> Ledger!ShareOf(u, E[i])]
           d == [i \in S |-> Ledger!Cost(E[i])]
<1>1. IsFiniteSet(S)
  BY ExpenseRows, FS_Subset
<1>2. /\ \A i \in S : f[i] \in Int /\ c[i] \in Int
      /\ g = [i \in S |-> f[i]] /\ d = [i \in S |-> c[i]]
  BY ExpenseRows
<1> HIDE DEF f, c, g, d
<1>3. /\ Ledger!SumFunction(g) = SumFunctionOnSet(f, S) /\ SumFunctionOnSet(f, S) \in Int
      /\ Ledger!SumFunction(d) = SumFunctionOnSet(c, S) /\ SumFunctionOnSet(c, S) \in Int
  BY <1>1, <1>2, TotalOfRows
<1>4. QED
  BY <1>3 DEF f, c, g, d

LEMMA PaymentSums ==
    ASSUME NEW P \in Seq(PaymentRow), NEW S \in SUBSET DOMAIN P
    PROVE  /\ Ledger!SumFunction([j \in S |-> P[j].amount]) = SumFunctionOnSet(AmountOf(P), S)
           /\ SumFunctionOnSet(AmountOf(P), S) \in Int
<1> DEFINE f == AmountOf(P)
           g == [j \in S |-> P[j].amount]
<1>1. IsFiniteSet(S)
  BY PaymentRows, FS_Subset
<1>2. (\A j \in S : f[j] \in Int) /\ g = [j \in S |-> f[j]]
  BY PaymentRows
<1> HIDE DEF f, g
<1>3. Ledger!SumFunction(g) = SumFunctionOnSet(f, S) /\ SumFunctionOnSet(f, S) \in Int
  BY <1>1, <1>2, TotalOfRows
<1>4. QED
  BY <1>3 DEF f, g

PaidBy(E, a) == {i \in Ledger!Live(E) : E[i].payer = a}
Between(P, a, b) == {j \in Ledger!Counted(P) : P[j].payer = a /\ P[j].receiver = b}

LEMMA GroupSums ==
    ASSUME NEW E \in Seq(ExpenseRow), NEW P \in Seq(PaymentRow), NEW u
    PROVE  /\ Ledger!PaidExpenses(E, u) = SumFunctionOnSet(CostOf(E), PaidBy(E, u))
           /\ Ledger!PaidExpenses(E, u) \in Int
           /\ Ledger!OwedSplits(E, u) = SumFunctionOnSet(ShareTo(E, u), Ledger!Live(E))
           /\ Ledger!OwedSplits(E, u) \in Int
           /\ Ledger!PaidPayments(P, u) =
                 SumFunctionOnSet(AmountOf(P), {j \in Ledger!Counted(P) : P[j].payer = u})
           /\ Ledger!PaidPayments(P, u) \in Int
           /\ Ledger!ReceivedPayments(P, u) =
                 SumFunctionOnSet(AmountOf(P), {j \in Ledger!Counted(P) : P[j].receiver = u})
           /\ Ledger!ReceivedPayments(P, u) \in Int
<1>1. /\ PaidBy(E, u) \in SUBSET DOMAIN E /\ Ledger!Live(E) \in SUBSET DOMAIN E
      /\ {j \in Ledger!Counted(P) : P[j].payer = u} \in SUBSET DOMAIN P
      /\ {j \in Ledger!Counted(P) : P[j].receiver = u} \in SUBSET DOMAIN P
  BY DEF PaidBy, Ledger!Live, Ledger!Counted
<1>2. /\ Ledger!PaidExpenses(E, u) = SumFunctionOnSet(CostOf(E), PaidBy(E, u))
      /\ SumFunctionOnSet(CostOf(E), PaidBy(E, u)) \in Int
  BY <1>1, ExpenseSums DEF Ledger!PaidExpenses, Ledger!TotalOf, PaidBy
<1>3. /\ Ledger!OwedSplits(E, u) = SumFunctionOnSet(ShareTo(E, u), Ledger!Live(E))
      /\ SumFunctionOnSet(ShareTo(E, u), Ledger!Live(E)) \in Int
  BY <1>1, ExpenseSums DEF Ledger!OwedSplits, Ledger!TotalOf
<1>4. /\ Ledger!PaidPayments(P, u) =
            SumFunctionOnSet(AmountOf(P), {j \in Ledger!Counted(P) : P[j].payer = u})
      /\ Ledger!PaidPayments(P, u) \in Int
  BY <1>1, PaymentSums DEF Ledger!PaidPayments, Ledger!TotalOf
<1>5. /\ Ledger!ReceivedPayments(P, u) =
            SumFunctionOnSet(AmountOf(P), {j \in Ledger!Counted(P) : P[j].receiver = u})
      /\ Ledger!ReceivedPayments(P, u) \in Int
  BY <1>1, PaymentSums DEF Ledger!ReceivedPayments, Ledger!TotalOf
<1>6. QED
  BY <1>2, <1>3, <1>4, <1>5

LEMMA PairSums ==
    ASSUME NEW E \in Seq(ExpenseRow), NEW P \in Seq(PaymentRow), NEW u, NEW v
    PROVE  /\ Ledger!Pairwise(E, P, u, v) =
                SumFunctionOnSet(ShareTo(E, v), PaidBy(E, u)) - SumFunctionOnSet(ShareTo(E, u), PaidBy(E, v))
                    + SumFunctionOnSet(AmountOf(P), Between(P, u, v)) - SumFunctionOnSet(AmountOf(P), Between(P, v, u))
           /\ SumFunctionOnSet(ShareTo(E, v), PaidBy(E, u)) \in Int
           /\ SumFunctionOnSet(ShareTo(E, u), PaidBy(E, v)) \in Int
           /\ SumFunctionOnSet(AmountOf(P), Between(P, u, v)) \in Int
           /\ SumFunctionOnSet(AmountOf(P), Between(P, v, u)) \in Int
<1> DEFINE lent(a, b) == [i \in PaidBy(E, a) |-> Ledger!ShareOf(b, E[i])]
           given(a, b) == [j \in Between(P, a, b) |-> P[j].amount]
<1>1. Ledger!Pairwise(E, P, u, v) =
          Ledger!SumFunction(lent(u, v)) - Ledger!SumFunction(lent(v, u))
              + Ledger!SumFunction(given(u, v)) - Ledger!SumFunction(given(v, u))
  BY DEF Ledger!Pairwise, Ledger!TotalOf, PaidBy, Between
<1>2. \A a : PaidBy(E, a) \in SUBSET DOMAIN E
  BY DEF PaidBy, Ledger!Live
<1>3. \A a, b : Between(P, a, b) \in SUBSET DOMAIN P
  BY DEF Between, Ledger!Counted
<1>4. \A a, b : /\ Ledger!SumFunction(lent(a, b)) = SumFunctionOnSet(ShareTo(E, b), PaidBy(E, a))
                /\ SumFunctionOnSet(ShareTo(E, b), PaidBy(E, a)) \in Int
  BY <1>2, ExpenseSums
<1>5. \A a, b : /\ Ledger!SumFunction(given(a, b)) = SumFunctionOnSet(AmountOf(P), Between(P, a, b))
                /\ SumFunctionOnSet(AmountOf(P), Between(P, a, b)) \in Int
  BY <1>3, PaymentSums
<1> HIDE DEF lent, given
<1>6. QED
  BY <1>1, <1>4, <1>5

\* What u lent, to each other member and in all: what u paid less the own shares.
LEMMA LentToAll ==
    ASSUME NEW E \in Seq(ExpenseRow), NEW u \in Members,
           NEW a, a = [v \in Members \ {u} |-> SumFunctionOnSet(ShareTo(E, v), PaidBy(E, u))]
    PROVE  SumFunctionOnSet(CostOf(E), PaidBy(E, u)) =
             SumFunctionOnSet(ShareTo(E, u), PaidBy(E, u)) + SumFunctionOnSet(a, Members \ {u})
<1> DEFINE W == Members \ {u}
           B == PaidBy(E, u)
           F == [v \in W |-> ShareTo(E, v)]
           G == [i \in B |-> [v \in Members |-> Ledger!ShareOf(v, E[i])]]
           columns == [i \in B |-> SumFunctionOnSet(G[i], W)]
           own == ShareTo(E, u)
           cost == CostOf(E)
<1>1. /\ IsFiniteSet(Members) /\ IsFiniteSet(W) /\ u \notin W /\ W \cup {u} = Members
      /\ B \in SUBSET DOMAIN E /\ IsFiniteSet(B)
  <2>1. B \in SUBSET DOMAIN E
    BY DEF PaidBy, Ledger!Live
  <2>2. IsFiniteSet(B)
    BY <2>1, ExpenseRows, FS_Subset
  <2>3. IsFiniteSet(Members) /\ IsFiniteSet(W)
    BY MembersAreFinite, FS_RemoveElement
  <2>4. QED
    BY <2>1, <2>2, <2>3
<1>2. ASSUME NEW i \in B
      PROVE  /\ \A v \in W : F[v][i] = Ledger!ShareOf(v, E[i]) /\ F[v][i] \in Int
             /\ \A v \in Members : G[i][v] = Ledger!ShareOf(v, E[i]) /\ G[i][v] \in Int
             /\ own[i] = Ledger!ShareOf(u, E[i]) /\ own[i] \in Int
             /\ cost[i] = SumFunctionOnSet(G[i], Members) /\ cost[i] \in Int
  <2>1. i \in DOMAIN E /\ E[i] \in ExpenseRow
    BY <1>1, ExpenseRows
  <2>2. /\ \A v \in W : F[v][i] = Ledger!ShareOf(v, E[i]) /\ F[v][i] \in Int
        /\ own[i] = Ledger!ShareOf(u, E[i]) /\ own[i] \in Int
    BY <2>1, ExpenseRows
  <2>3. \A v \in Members : G[i][v] = Ledger!ShareOf(v, E[i]) /\ G[i][v] \in Int
    BY <2>1, ShareType
  <2>4. cost[i] = SumFunctionOnSet(G[i], Members) /\ cost[i] \in Int
    <3>1. G[i] = [v \in Members |-> Ledger!ShareOf(v, E[i])]
      OBVIOUS
    <3> HIDE DEF G
    <3>2. QED
      BY <2>1, <3>1, ExpenseRows, CostIsShares
  <2>5. QED
    BY <2>2, <2>3, <2>4
<1> HIDE DEF B, F, G
<1>3. \A v \in W : a[v] = SumFunctionOnSet(F[v], B)
  BY DEF F, B
<1>4. SumFunctionOnSet(a, W) = SumFunctionOnSet(columns, B)
  <2>1. Table(F, G, W, B) /\ RowSums(a, F, W, B) /\ RowSums(columns, G, B, W)
    BY <1>2, <1>3 DEF Table, RowSums
  <2> HIDE DEF W, columns
  <2>2. QED
    BY <1>1, <2>1, SumSwap
<1>5. ASSUME NEW i \in B
      PROVE  own[i] \in Int /\ columns[i] \in Int /\ cost[i] = own[i] + columns[i]
  <2>1. SumFunctionOnSet(G[i], Members) = G[i][u] + SumFunctionOnSet(G[i], W)
    <3>1. \A v \in Members : G[i][v] \in Int
      BY <1>2
    <3>2. QED
      BY <1>1, <3>1, SumRemove
  <2>2. SumFunctionOnSet(G[i], W) \in Int
    <3>1. \A v \in W : G[i][v] \in Int
      BY <1>2
    <3>2. QED
      BY <1>1, <3>1, SumType
  <2>3. G[i][u] = own[i]
    BY <1>2
  <2>4. columns[i] = SumFunctionOnSet(G[i], W)
    OBVIOUS
  <2> HIDE DEF columns, own, cost, W
  <2>5. QED
    BY <1>2, <2>1, <2>2, <2>3, <2>4
<1>6. SumFunctionOnSet(cost, B) = SumFunctionOnSet(own, B) + SumFunctionOnSet(columns, B)
  <2> HIDE DEF columns, own, cost
  <2>1. QED
    BY <1>1, <1>5, SumPlus
<1>7. QED
  BY <1>4, <1>6 DEF B

\* What all others lent to u: what u owes less the own shares.
LEMMA LentByAll ==
    ASSUME NEW E \in Seq(ExpenseRow), NEW u \in Members,
           NEW b, b = [v \in Members \ {u} |-> SumFunctionOnSet(ShareTo(E, u), PaidBy(E, v))]
    PROVE  SumFunctionOnSet(ShareTo(E, u), Ledger!Live(E)) =
             SumFunctionOnSet(ShareTo(E, u), PaidBy(E, u)) + SumFunctionOnSet(b, Members \ {u})
<1> DEFINE W == Members \ {u}
           L == Ledger!Live(E)
           B == PaidBy(E, u)
           key == [i \in DOMAIN E |-> E[i].payer]
           C == {i \in L : key[i] \in W}
           f == ShareTo(E, u)
           part == [v \in W |-> PaidBy(E, v)]
<1>1. IsFiniteSet(W) /\ L \in SUBSET DOMAIN E /\ IsFiniteSet(L) /\ \A i \in L : f[i] \in Int
  <2>1. IsFiniteSet(W)
    BY MembersAreFinite, FS_RemoveElement
  <2>2. L \in SUBSET DOMAIN E /\ \A i \in L : f[i] \in Int
    BY ExpenseRows
  <2>3. IsFiniteSet(L)
    BY <2>2, ExpenseRows, FS_Subset
  <2>4. QED
    BY <2>1, <2>2, <2>3
<1>2. B \cup C = L /\ B \cap C = {}
  BY <1>1, ExpenseRows DEF PaidBy
<1>3. Parts(part, key, W, C) /\ SumsOfParts(b, f, part, W)
  <2>1. \A v \in W : {i \in C : key[i] = v} = PaidBy(E, v)
    BY <1>1 DEF PaidBy
  <2>2. QED
    BY <2>1 DEF Parts, SumsOfParts
<1>4. SumFunctionOnSet(b, W) = SumFunctionOnSet(f, C)
  <2>1. IsFiniteSet(C) /\ \A i \in C : f[i] \in Int /\ key[i] \in W
    BY <1>1, FS_Subset
  <2> HIDE DEF W, C, f, key, part
  <2>2. QED
    BY <1>1, <1>3, <2>1, SumOfParts
<1>5. IsFiniteSet(B) /\ IsFiniteSet(C) /\ \A i \in B \cup C : f[i] \in Int
  BY <1>1, <1>2, FS_Subset
<1> HIDE DEF B, C, f, L, W
<1>6. SumFunctionOnSet(f, B \cup C) = SumFunctionOnSet(f, B) + SumFunctionOnSet(f, C)
  BY <1>2, <1>5, SumUnion
<1>7. SumFunctionOnSet(f, L) = SumFunctionOnSet(f, B \cup C)
  BY <1>2, Zenon
<1>8. QED
  BY <1>4, <1>6, <1>7 DEF B, f, L, W

\* Payments of u, by who received them; payments to u, by who made them.
LEMMA PaidToAll ==
    ASSUME NEW P \in Seq(PaymentRow), NEW u \in Members,
           NEW c, c = [v \in Members \ {u} |-> SumFunctionOnSet(AmountOf(P), Between(P, u, v))],
           NEW d, d = [v \in Members \ {u} |-> SumFunctionOnSet(AmountOf(P), Between(P, v, u))]
    PROVE  /\ SumFunctionOnSet(AmountOf(P), {j \in Ledger!Counted(P) : P[j].payer = u})
                = SumFunctionOnSet(c, Members \ {u})
           /\ SumFunctionOnSet(AmountOf(P), {j \in Ledger!Counted(P) : P[j].receiver = u})
                = SumFunctionOnSet(d, Members \ {u})
<1> DEFINE W == Members \ {u}
           f == AmountOf(P)
           Out == {j \in Ledger!Counted(P) : P[j].payer = u}
           In == {j \in Ledger!Counted(P) : P[j].receiver = u}
           to == [j \in DOMAIN P |-> P[j].receiver]
           from == [j \in DOMAIN P |-> P[j].payer]
<1>1. /\ IsFiniteSet(W) /\ Out \in SUBSET DOMAIN P /\ In \in SUBSET DOMAIN P
      /\ IsFiniteSet(Out) /\ IsFiniteSet(In)
      /\ (\A j \in Out : f[j] \in Int) /\ (\A j \in In : f[j] \in Int)
  <2>1. IsFiniteSet(W)
    BY MembersAreFinite, FS_RemoveElement
  <2>2. Out \in SUBSET DOMAIN P /\ In \in SUBSET DOMAIN P
    BY PaymentRows
  <2>3. IsFiniteSet(Out) /\ IsFiniteSet(In)
    BY <2>2, PaymentRows, FS_Subset
  <2>4. QED
    BY <2>1, <2>2, <2>3, PaymentRows
<1> DEFINE outPart == [v \in W |-> Between(P, u, v)]
           inPart == [v \in W |-> Between(P, v, u)]
<1>2. /\ Parts(outPart, to, W, Out) /\ SumsOfParts(c, f, outPart, W)
      /\ Parts(inPart, from, W, In) /\ SumsOfParts(d, f, inPart, W)
  <2>1. \A v : /\ {j \in Out : to[j] = v} = Between(P, u, v)
               /\ {j \in In : from[j] = v} = Between(P, v, u)
    BY <1>1 DEF Between
  <2>2. QED
    BY <2>1 DEF Parts, SumsOfParts
<1>3. (\A j \in Out : to[j] \in W) /\ \A j \in In : from[j] \in W
  BY <1>1, PaymentRows
<1> HIDE DEF W, f, Out, In, to, from, outPart, inPart
<1>4. SumFunctionOnSet(c, W) = SumFunctionOnSet(f, Out)
  BY <1>1, <1>2, <1>3, SumOfParts
<1>5. SumFunctionOnSet(d, W) = SumFunctionOnSet(f, In)
  BY <1>1, <1>2, <1>3, SumOfParts
<1>6. QED
  BY <1>4, <1>5 DEF W, f, Out, In

\* What a member has with each of the others adds up to the four sums of the group.
LEMMA BalanceIsSums ==
    ASSUME NEW E \in Seq(ExpenseRow), NEW P \in Seq(PaymentRow), NEW u \in Members
    PROVE  Ledger!Balance(E, P, u) =
             Ledger!PaidExpenses(E, u) - Ledger!OwedSplits(E, u)
                 + Ledger!PaidPayments(P, u) - Ledger!ReceivedPayments(P, u)
<1> DEFINE W == Members \ {u}
           pw == [v \in W |-> Ledger!Pairwise(E, P, u, v)]
           a == [v \in W |-> SumFunctionOnSet(ShareTo(E, v), PaidBy(E, u))]
           b == [v \in W |-> SumFunctionOnSet(ShareTo(E, u), PaidBy(E, v))]
           c == [v \in W |-> SumFunctionOnSet(AmountOf(P), Between(P, u, v))]
           d == [v \in W |-> SumFunctionOnSet(AmountOf(P), Between(P, v, u))]
           ac == [v \in W |-> a[v] + c[v]]
           bd == [v \in W |-> b[v] + d[v]]
           own == SumFunctionOnSet(ShareTo(E, u), PaidBy(E, u))
<1>1. IsFiniteSet(W)
  BY MembersAreFinite, FS_RemoveElement
<1>2. ASSUME NEW v \in W
      PROVE  /\ a[v] \in Int /\ b[v] \in Int /\ c[v] \in Int /\ d[v] \in Int
             /\ pw[v] = a[v] - b[v] + c[v] - d[v]
             /\ ac[v] = a[v] + c[v] /\ bd[v] = b[v] + d[v]
  BY PairSums
<1>3. Ledger!Balance(E, P, u) = SumFunctionOnSet(pw, W)
  <2>1. DOMAIN pw = W
    OBVIOUS
  <2>2. Ledger!SumFunction(pw) = SumFunctionOnSet(pw, W)
    BY <2>1, LedgerSum DEF Ledger!SumFunction
  <2>3. QED
    BY <2>2 DEF Ledger!Balance, Ledger!TotalOf
<1>4. /\ SumFunctionOnSet(CostOf(E), PaidBy(E, u)) = own + SumFunctionOnSet(a, W)
      /\ SumFunctionOnSet(ShareTo(E, u), Ledger!Live(E)) = own + SumFunctionOnSet(b, W)
      /\ SumFunctionOnSet(AmountOf(P), {j \in Ledger!Counted(P) : P[j].payer = u}) = SumFunctionOnSet(c, W)
      /\ SumFunctionOnSet(AmountOf(P), {j \in Ledger!Counted(P) : P[j].receiver = u}) = SumFunctionOnSet(d, W)
  <2>1. /\ a = [v \in Members \ {u} |-> SumFunctionOnSet(ShareTo(E, v), PaidBy(E, u))]
        /\ b = [v \in Members \ {u} |-> SumFunctionOnSet(ShareTo(E, u), PaidBy(E, v))]
        /\ c = [v \in Members \ {u} |-> SumFunctionOnSet(AmountOf(P), Between(P, u, v))]
        /\ d = [v \in Members \ {u} |-> SumFunctionOnSet(AmountOf(P), Between(P, v, u))]
    OBVIOUS
  <2> HIDE DEF a, b, c, d
  <2>2. SumFunctionOnSet(CostOf(E), PaidBy(E, u)) = own + SumFunctionOnSet(a, W)
    BY <2>1, LentToAll
  <2>3. SumFunctionOnSet(ShareTo(E, u), Ledger!Live(E)) = own + SumFunctionOnSet(b, W)
    BY <2>1, LentByAll
  <2>4. QED
    BY <2>1, <2>2, <2>3, PaidToAll
<1>5. own \in Int
  BY PairSums
<1>6. /\ \A v \in W : ac[v] \in Int /\ bd[v] \in Int /\ pw[v] \in Int
      /\ \A v \in W : ac[v] = pw[v] + bd[v]
  BY <1>2
<1> HIDE DEF W, pw, a, b, c, d, ac, bd, own
<1>7. /\ SumFunctionOnSet(ac, W) = SumFunctionOnSet(a, W) + SumFunctionOnSet(c, W)
      /\ SumFunctionOnSet(bd, W) = SumFunctionOnSet(b, W) + SumFunctionOnSet(d, W)
      /\ SumFunctionOnSet(ac, W) = SumFunctionOnSet(pw, W) + SumFunctionOnSet(bd, W)
  BY <1>1, <1>2, <1>6, SumPlus
<1>8. /\ SumFunctionOnSet(a, W) \in Int /\ SumFunctionOnSet(b, W) \in Int
      /\ SumFunctionOnSet(c, W) \in Int /\ SumFunctionOnSet(d, W) \in Int
      /\ SumFunctionOnSet(pw, W) \in Int
  BY <1>1, <1>2, <1>6, SumType
<1>9. /\ Ledger!PaidExpenses(E, u) = own + SumFunctionOnSet(a, W)
      /\ Ledger!OwedSplits(E, u) = own + SumFunctionOnSet(b, W)
      /\ Ledger!PaidPayments(P, u) = SumFunctionOnSet(c, W)
      /\ Ledger!ReceivedPayments(P, u) = SumFunctionOnSet(d, W)
  BY <1>4, GroupSums
<1>10. QED
  BY <1>3, <1>5, <1>7, <1>8, <1>9

-------------------------------------------------------------------------------
(* The request for balances.                                                *)

RowsFine ==
    /\ expenses \in Seq(ExpenseRow) /\ payments \in Seq(PaymentRow)
    /\ members \in SUBSET Members

\* The four aggregates of u at some moment.
Terms(rows, u) ==
    [paid |-> Ledger!PaidExpenses(rows[1], u), owed |-> -Ledger!OwedSplits(rows[1], u),
     made |-> Ledger!PaidPayments(rows[2], u), received |-> -Ledger!ReceivedPayments(rows[2], u)]
TermType == [paid : Int, owed : Int, made : Int, received : Int]

Now == <<expenses, payments>>

\* Every aggregate that was read is that of the start or that of now.
Seen(u) == {t \in TermType : \A q \in {"paid", "owed", "made", "received"} :
                                 t[q] \in {Terms(view.was, u)[q], Terms(Now, u)[q]}}

SumOfRead(t) ==
    CASE view.step = "members" -> 0
      [] view.step = "expenses" -> t.paid
      [] view.step = "splits" -> t.paid + t.owed
      [] view.step = "paid" -> t.paid + t.owed + t.made
      [] view.step \in {"received", "served"} -> t.paid + t.owed + t.made + t.received

Moments == Seq(ExpenseRow) \X Seq(PaymentRow)
SumsOfSome == UNION {[D -> Int] : D \in SUBSET Members}

ViewType ==
    [step : {"members", "expenses", "splits", "paid", "received", "served"},
     meanwhile : Nat, first : SUBSET Members, was : Moments, sum : SumsOfSome]

ViewFine ==
    /\ view \in ViewType
    /\ members \subseteq view.first
    /\ DOMAIN view.sum = IF view.step = "served" THEN members ELSE view.first
    /\ view.meanwhile = 0 => view.was = Now
    /\ view.meanwhile <= 1 =>
          \A u \in DOMAIN view.sum : \E t \in Seen(u) : view.sum[u] = SumOfRead(t)

LedgerInv == RowsFine /\ (view = Ledger!NoView \/ ViewFine)

LEMMA NoViewStep == Ledger!NoView.step = "none" /\ \A w \in ViewType : w # Ledger!NoView
<1>1. Ledger!NoView.step = "none"
  BY DEF Ledger!NoView
<1>2. \A w \in ViewType : w.step # "none"
  BY DEF ViewType
<1>3. QED
  BY <1>1, <1>2

LEMMA TermsType ==
    ASSUME NEW rows \in Moments, NEW u
    PROVE  Terms(rows, u) \in TermType
<1> DEFINE E == rows[1]
           P == rows[2]
<1>1. E \in Seq(ExpenseRow) /\ P \in Seq(PaymentRow)
  BY DEF Moments
<1>2. Terms(rows, u) = [paid |-> Ledger!PaidExpenses(E, u), owed |-> -Ledger!OwedSplits(E, u),
                        made |-> Ledger!PaidPayments(P, u),
                        received |-> -Ledger!ReceivedPayments(P, u)]
  BY DEF Terms
<1> HIDE DEF E, P
<1>3. /\ Ledger!PaidExpenses(E, u) \in Int /\ Ledger!OwedSplits(E, u) \in Int
      /\ Ledger!PaidPayments(P, u) \in Int /\ Ledger!ReceivedPayments(P, u) \in Int
  BY <1>1, GroupSums
<1>4. QED
  BY <1>2, <1>3 DEF TermType

LEMMA LedgerCardinality == \A S : Ledger!Cardinality(S) = Cardinality(S)
BY DEF Ledger!Cardinality, Cardinality

LEMMA FourIsFinite == IsFiniteSet(1 .. 4)
<1>1. 1 \in Int /\ 4 \in Int
  OBVIOUS
<1>2. QED
  BY <1>1, FS_Interval, Zenon

LEMMA SeqOf ==
    ASSUME NEW R, NEW s \in Seq(R), NEW t, t = [i \in DOMAIN s |-> t[i]], \A i \in DOMAIN s : t[i] \in R
    PROVE  t \in Seq(R) /\ DOMAIN t = DOMAIN s /\ Len(t) = Len(s)
<1>1. DOMAIN s = 1 .. Len(s) /\ Len(s) \in Nat
  OBVIOUS
<1>2. t \in [1 .. Len(s) -> R]
  BY <1>1
<1>3. QED
  BY <1>1, <1>2

\* Served, without or with one overlapping write: the balances of a moment.
LEMMA ServedBalances == LedgerInv => BalancesOfAMoment
<1> SUFFICES ASSUME LedgerInv, Ledger!Served, view.meanwhile <= 1, NEW u \in DOMAIN view.sum,
                    Cardinality(Ledger!Changed(u)) <= 1
             PROVE  view.sum[u] \in {Ledger!Balance(view.was[1], view.was[2], u),
                                     Ledger!Balance(expenses, payments, u)}
  BY LedgerCardinality DEF BalancesOfAMoment, Ledger!BalancesOfAMoment
<1>1. ViewFine /\ RowsFine /\ view.step = "served"
  BY NoViewStep DEF LedgerInv, Ledger!Served
<1>2. /\ view.was \in Moments /\ Now \in Moments
      /\ u \in Members
  BY <1>1 DEF ViewFine, ViewType, RowsFine, Now, Moments, SumsOfSome
<1>3. PICK t \in Seen(u) : view.sum[u] = SumOfRead(t)
  BY <1>1 DEF ViewFine
<1> DEFINE a == Terms(view.was, u)
           c == Terms(Now, u)
           Total(x) == x.paid + x.owed + x.made + x.received
<1>4. a \in TermType /\ c \in TermType /\ t \in TermType
  BY <1>2, <1>3, TermsType DEF Seen
<1>5. \A q \in {"paid", "owed", "made", "received"} : t[q] \in {a[q], c[q]}
  BY <1>3 DEF Seen
<1>6. view.sum[u] = Total(t)
  BY <1>1, <1>3 DEF SumOfRead
<1>7. \A p, q \in {"paid", "owed", "made", "received"} : a[p] # c[p] /\ a[q] # c[q] => p = q
  <2> DEFINE n(q) == CASE q = "paid" -> 1 [] q = "owed" -> 2 [] q = "made" -> 3 [] q = "received" -> 4
  <2>1. \A q \in {"paid", "owed", "made", "received"} : a[q] # c[q] => n(q) \in Ledger!Changed(u)
    BY <1>2, GroupSums DEF Terms, Now, Ledger!Changed
  <2>2. \A x, y \in Ledger!Changed(u) : x = y
    <3>1. Ledger!Changed(u) \in SUBSET (1 .. 4)
      BY DEF Ledger!Changed
    <3>2. IsFiniteSet(Ledger!Changed(u)) /\ Cardinality(Ledger!Changed(u)) \in Nat
      <4>2. IsFiniteSet(Ledger!Changed(u))
        BY <3>1, FourIsFinite, FS_Subset
      <4>3. QED
        BY <4>2, FS_CardinalityType
    <3>3. Cardinality(Ledger!Changed(u)) = 0 \/ Cardinality(Ledger!Changed(u)) = 1
      BY <3>2
    <3>4. CASE Cardinality(Ledger!Changed(u)) = 0
      BY <3>2, <3>4, FS_EmptySet
    <3>5. CASE Cardinality(Ledger!Changed(u)) = 1
      BY <3>2, <3>5, FS_Singleton
    <3>6. QED
      BY <3>3, <3>4, <3>5
  <2>3. QED
    BY <2>1, <2>2
<1>8. Total(t) \in {Total(a), Total(c)}
  BY <1>4, <1>5, <1>7 DEF TermType
<1>9. ASSUME NEW rows \in Moments
      PROVE  Total(Terms(rows, u)) = Ledger!Balance(rows[1], rows[2], u)
  <2> DEFINE E == rows[1]
             P == rows[2]
  <2>1. E \in Seq(ExpenseRow) /\ P \in Seq(PaymentRow)
    BY DEF Moments
  <2>2. Terms(rows, u) = [paid |-> Ledger!PaidExpenses(E, u), owed |-> -Ledger!OwedSplits(E, u),
                          made |-> Ledger!PaidPayments(P, u),
                          received |-> -Ledger!ReceivedPayments(P, u)]
    BY DEF Terms
  <2> HIDE DEF E, P
  <2>3. /\ Ledger!PaidExpenses(E, u) \in Int /\ Ledger!OwedSplits(E, u) \in Int
        /\ Ledger!PaidPayments(P, u) \in Int /\ Ledger!ReceivedPayments(P, u) \in Int
    BY <2>1, GroupSums
  <2>4. Ledger!Balance(E, P, u) = Ledger!PaidExpenses(E, u) - Ledger!OwedSplits(E, u)
                                    + Ledger!PaidPayments(P, u) - Ledger!ReceivedPayments(P, u)
    BY <1>2, <2>1, BalanceIsSums
  <2>5. Total(Terms(rows, u)) = Ledger!Balance(E, P, u)
    BY <2>2, <2>3, <2>4
  <2>6. QED
    BY <2>5 DEF E, P
<1>10. Now[1] = expenses /\ Now[2] = payments
  BY DEF Now
<1>11. QED
  BY <1>2, <1>6, <1>8, <1>9, <1>10

LEMMA BillIsFine == ASSUME NEW bill \in Bills PROVE bill \in Bill /\ DOMAIN bill \in SUBSET Members
BY RowsAssumption DEF Bill

LEMMA SumOfReadIsInt == \A t \in TermType : view \in ViewType => SumOfRead(t) \in Int
<1> SUFFICES ASSUME NEW t \in TermType, view \in ViewType PROVE SumOfRead(t) \in Int
  OBVIOUS
<1>1. t.paid \in Int /\ t.owed \in Int /\ t.made \in Int /\ t.received \in Int
  BY DEF TermType
<1>2. view.step \in {"members", "expenses", "splits", "paid", "received", "served"}
  BY DEF ViewType
<1>3. QED
  BY <1>1, <1>2 DEF SumOfRead

\* Rows are written: what was read before is of the start.
LEMMA Written ==
    ASSUME LedgerInv, RowsFine', members' \subseteq members, Ledger!Meanwhile, view.step # "served"
    PROVE  LedgerInv'
<1>1. CASE view = Ledger!NoView
  BY <1>1 DEF Ledger!Meanwhile, LedgerInv, ViewFine, Ledger!NoView
<1>2. CASE view # Ledger!NoView
  <2>1. /\ ViewFine /\ RowsFine
        /\ view' = [view EXCEPT !.meanwhile = view.meanwhile + 1]
    BY <1>2 DEF LedgerInv, Ledger!Meanwhile
  <2>2. view \in ViewType
    BY <2>1 DEF ViewFine
  <2>3. /\ view' \in ViewType
        /\ view'.step = view.step /\ view'.first = view.first /\ view'.sum = view.sum
        /\ view'.was = view.was /\ view'.meanwhile = view.meanwhile + 1
        /\ view.meanwhile \in Nat
    BY <2>1, <2>2 DEF ViewType
  <2>4. /\ members' \subseteq view'.first
        /\ DOMAIN view'.sum = view'.first /\ view'.step # "served"
    BY <2>1, <2>3 DEF ViewFine
  <2>5. ASSUME view'.meanwhile <= 1, NEW u \in DOMAIN view.sum
        PROVE  \E t \in Seen(u)' : view.sum[u] = SumOfRead(t)'
    <3>1. view.meanwhile = 0
      BY <2>3, <2>5
    <3>2. view.was = Now
      BY <2>1, <3>1 DEF ViewFine
    <3>3. PICK t \in Seen(u) : view.sum[u] = SumOfRead(t)
      BY <2>1, <2>3, <3>1 DEF ViewFine
    <3>4. t \in Seen(u)'
      <4>1. t \in TermType /\ \A q \in {"paid", "owed", "made", "received"} : t[q] = Terms(view.was, u)[q]
        BY <3>2, <3>3 DEF Seen
      <4>2. Terms(view.was, u)' = Terms(view.was, u)
        BY <2>3 DEF Terms
      <4>3. QED
        BY <4>1, <4>2, <2>3 DEF Seen
    <3>5. SumOfRead(t)' = SumOfRead(t)
      BY <2>3 DEF SumOfRead
    <3>6. QED
      BY <3>3, <3>4, <3>5
  <2>6. ViewFine'
    <3>1. view'.meanwhile # 0
      BY <2>3
    <3>2. view'.meanwhile <= 1 => \A u \in DOMAIN view'.sum : \E t \in Seen(u)' : view'.sum[u] = SumOfRead(t)'
      BY <2>3, <2>5
    <3>3. QED
      BY <2>3, <2>4, <3>1, <3>2 DEF ViewFine
  <2>7. QED
    BY <2>6 DEF LedgerInv
<1>3. QED
  BY <1>1, <1>2

Fields == {"paid", "owed", "made", "received"}

LEMMA NowIsAMoment == RowsFine => Now \in Moments
BY DEF RowsFine, Now, Moments

\* One aggregate is read: the sum is of the terms with this one taken from now.
LEMMA OneRead ==
    ASSUME LedgerInv, UNCHANGED <<expenses, payments, members>>, NEW q \in Fields,
           view.step \in {"members", "expenses", "splits", "paid"},
           NEW to \in {"expenses", "splits", "paid", "received"},
           view' = [view EXCEPT !.step = to,
                       !.sum = [u \in view.first |-> view.sum[u] + Terms(Now, u)[q]]],
           \A t, s \in TermType : (\A p \in Fields \ {q} : s[p] = t[p])
                                     => SumOfRead(s)' = SumOfRead(t) + s[q]
    PROVE  LedgerInv'
<1>1. ViewFine /\ RowsFine /\ view \in ViewType /\ DOMAIN view.sum = view.first
  BY NoViewStep DEF LedgerInv, ViewFine
<1>2. /\ view.first \in SUBSET Members /\ view.sum \in SumsOfSome
      /\ view.meanwhile \in Nat /\ view.was \in Moments
  BY <1>1 DEF ViewType
<1>3. /\ view'.step = to /\ view'.meanwhile = view.meanwhile /\ view'.first = view.first
      /\ view'.was = view.was
      /\ view'.sum = [u \in view.first |-> view.sum[u] + Terms(Now, u)[q]]
      /\ view' = [step |-> to, meanwhile |-> view.meanwhile, first |-> view.first,
                  was |-> view.was, sum |-> view'.sum]
  BY <1>1 DEF ViewType
<1>4. ASSUME NEW u \in view.first
      PROVE  view.sum[u] \in Int /\ Terms(Now, u) \in TermType /\ Terms(Now, u)[q] \in Int
  <2>1. view.sum[u] \in Int
    BY <1>1, <1>2 DEF SumsOfSome
  <2>2. Terms(Now, u) \in TermType
    BY <1>1, NowIsAMoment, TermsType
  <2>3. QED
    BY <2>1, <2>2 DEF TermType, Fields
<1>5. view'.sum \in SumsOfSome /\ DOMAIN view'.sum = view.first
  BY <1>2, <1>3, <1>4 DEF SumsOfSome
<1>6. view' \in ViewType
  BY <1>2, <1>3, <1>5 DEF ViewType
<1>7. ASSUME view.meanwhile <= 1, NEW u \in view.first
      PROVE  \E s \in Seen(u)' : view'.sum[u] = SumOfRead(s)'
  <2>1. PICK t \in Seen(u) : view.sum[u] = SumOfRead(t)
    BY <1>1, <1>7 DEF ViewFine
  <2> DEFINE n == Terms(Now, u)
  <2>2. t \in TermType /\ \A p \in Fields : t[p] \in {Terms(view.was, u)[p], n[p]}
    BY <2>1 DEF Seen, Fields
  <2>3. PICK s \in TermType : s[q] = n[q] /\ \A p \in Fields \ {q} : s[p] = t[p]
    <3> DEFINE x == [t EXCEPT ![q] = n[q]]
    <3>1. x \in TermType /\ x[q] = n[q] /\ \A p \in Fields \ {q} : x[p] = t[p]
      BY <1>4, <2>2 DEF TermType, Fields
    <3> HIDE DEF x
    <3>2. QED
      BY <3>1
  <2>4. SumOfRead(s)' = view'.sum[u]
    BY <1>3, <2>1, <2>2, <2>3
  <2>5. Terms(view.was, u)' = Terms(view.was, u) /\ Terms(Now, u)' = n
    BY <1>3 DEF Terms, Now
  <2>6. \A p \in Fields : s[p] \in {Terms(view.was, u)[p], n[p]}
    BY <2>2, <2>3
  <2>7. s \in Seen(u)'
    BY <2>3, <2>5, <2>6 DEF Seen, Fields
  <2>8. QED
    BY <2>4, <2>7
<1>8. ViewFine'
  <2>1. members' \subseteq view'.first /\ DOMAIN view'.sum = view'.first /\ view'.step # "served"
    BY <1>1, <1>3, <1>5 DEF ViewFine
  <2>2. view'.meanwhile = 0 => view'.was = Now'
    BY <1>1, <1>3 DEF ViewFine, Now
  <2>3. view'.meanwhile <= 1 => \A u \in DOMAIN view'.sum : \E t \in Seen(u)' : view'.sum[u] = SumOfRead(t)'
    BY <1>3, <1>5, <1>7
  <2>4. QED
    BY <1>6, <2>1, <2>2, <2>3 DEF ViewFine
<1>9. QED
  BY <1>1, <1>8 DEF LedgerInv, RowsFine

LEMMA ReadsKeepLedgerInv == ASSUME LedgerInv, Ledger!Read PROVE LedgerInv'
<1>1. CASE Ledger!ReadMembers
  <2> DEFINE zero == [u \in members |-> 0]
  <2>1. /\ view' = [step |-> "members", meanwhile |-> 0, first |-> members, was |-> Now, sum |-> zero]
        /\ UNCHANGED <<expenses, payments, members>>
    BY <1>1 DEF Ledger!ReadMembers, Ledger!rows, Now
  <2>2. RowsFine /\ RowsFine' /\ members \in SUBSET Members /\ Now \in Moments
    BY <2>1, NowIsAMoment DEF LedgerInv, RowsFine
  <2>3. zero \in SumsOfSome
    BY <2>2 DEF SumsOfSome
  <2>4. view' \in ViewType
    BY <2>1, <2>2, <2>3 DEF ViewType
  <2>5. ASSUME NEW u \in members PROVE \E t \in Seen(u)' : view'.sum[u] = SumOfRead(t)'
    <3>1. PICK t \in TermType : t = Terms(Now, u)
      BY <2>2, TermsType
    <3>2. Terms(view.was, u)' = t
      BY <2>1, <3>1 DEF Terms, Now
    <3>3. t \in Seen(u)'
      BY <3>1, <3>2 DEF Seen
    <3>4. SumOfRead(t)' = 0 /\ view'.sum[u] = 0
      BY <2>1 DEF SumOfRead
    <3>5. QED
      BY <3>3, <3>4
  <2>6. ViewFine'
    BY <2>1, <2>4, <2>5 DEF ViewFine, Now
  <2>7. QED
    BY <2>2, <2>6 DEF LedgerInv
<1>2. CASE Ledger!ReadExpenses
  <2>1. /\ view.step = "members" /\ UNCHANGED <<expenses, payments, members>>
        /\ view' = [view EXCEPT !.step = "expenses",
                       !.sum = [u \in view.first |-> view.sum[u] + Terms(Now, u)["paid"]]]
    BY <1>2 DEF Ledger!ReadExpenses, Ledger!Query, Ledger!rows, Terms, Now
  <2>2. view'.step = "expenses"
    BY <2>1, NoViewStep DEF LedgerInv, ViewFine, ViewType
  <2>3. \A t, s \in TermType : SumOfRead(s)' = SumOfRead(t) + s["paid"]
    BY <2>1, <2>2 DEF SumOfRead, TermType
  <2>4. QED
    BY <2>1, <2>3, OneRead DEF Fields
<1>3. CASE Ledger!ReadSplits
  <2>1. /\ view.step = "expenses" /\ UNCHANGED <<expenses, payments, members>>
        /\ view' = [view EXCEPT !.step = "splits",
                       !.sum = [u \in view.first |-> view.sum[u] + Terms(Now, u)["owed"]]]
    BY <1>3 DEF Ledger!ReadSplits, Ledger!Query, Ledger!rows, Terms, Now
  <2>2. view'.step = "splits"
    BY <2>1, NoViewStep DEF LedgerInv, ViewFine, ViewType
  <2>3. ASSUME NEW t \in TermType, NEW s \in TermType, \A p \in Fields \ {"owed"} : s[p] = t[p]
        PROVE  SumOfRead(s)' = SumOfRead(t) + s["owed"]
    <3>1. s.paid = t.paid
      BY <2>3 DEF Fields
    <3>2. QED
      BY <2>1, <2>2, <3>1 DEF SumOfRead, TermType
  <2>4. QED
    BY <2>1, <2>3, OneRead DEF Fields
<1>4. CASE Ledger!ReadPaid
  <2>1. /\ view.step = "splits" /\ UNCHANGED <<expenses, payments, members>>
        /\ view' = [view EXCEPT !.step = "paid",
                       !.sum = [u \in view.first |-> view.sum[u] + Terms(Now, u)["made"]]]
    BY <1>4 DEF Ledger!ReadPaid, Ledger!Query, Ledger!rows, Terms, Now
  <2>2. view'.step = "paid"
    BY <2>1, NoViewStep DEF LedgerInv, ViewFine, ViewType
  <2>3. ASSUME NEW t \in TermType, NEW s \in TermType, \A p \in Fields \ {"made"} : s[p] = t[p]
        PROVE  SumOfRead(s)' = SumOfRead(t) + s["made"]
    <3>1. s.paid = t.paid /\ s.owed = t.owed
      BY <2>3 DEF Fields
    <3>2. QED
      BY <2>1, <2>2, <3>1 DEF SumOfRead, TermType
  <2>4. QED
    BY <2>1, <2>3, OneRead DEF Fields
<1>5. CASE Ledger!ReadReceived
  <2>1. /\ view.step = "paid" /\ UNCHANGED <<expenses, payments, members>>
        /\ view' = [view EXCEPT !.step = "received",
                       !.sum = [u \in view.first |-> view.sum[u] + Terms(Now, u)["received"]]]
    BY <1>5 DEF Ledger!ReadReceived, Ledger!Query, Ledger!rows, Terms, Now
  <2>2. view'.step = "received"
    BY <2>1, NoViewStep DEF LedgerInv, ViewFine, ViewType
  <2>3. ASSUME NEW t \in TermType, NEW s \in TermType, \A p \in Fields \ {"received"} : s[p] = t[p]
        PROVE  SumOfRead(s)' = SumOfRead(t) + s["received"]
    <3>1. s.paid = t.paid /\ s.owed = t.owed /\ s.made = t.made
      BY <2>3 DEF Fields
    <3>2. QED
      BY <2>1, <2>2, <3>1 DEF SumOfRead, TermType
  <2>4. QED
    BY <2>1, <2>3, OneRead DEF Fields
<1>6. CASE Ledger!ReadMembersAgain
  <2> DEFINE sum == [u \in members |-> IF u \in view.first THEN view.sum[u] ELSE 0]
  <2>1. /\ view.step = "received" /\ UNCHANGED <<expenses, payments, members>>
        /\ view' = [view EXCEPT !.step = "served", !.sum = sum]
    BY <1>6 DEF Ledger!ReadMembersAgain, Ledger!rows
  <2>2. /\ ViewFine /\ RowsFine /\ view \in ViewType /\ DOMAIN view.sum = view.first
        /\ members \subseteq view.first /\ members \in SUBSET Members
    BY <2>1, NoViewStep DEF LedgerInv, ViewFine, RowsFine
  <2>3. view.sum \in SumsOfSome
    BY <2>2 DEF ViewType
  <2>4. DOMAIN sum = members /\ \A u \in members : sum[u] = view.sum[u] /\ view.sum[u] \in Int
    BY <2>2, <2>3 DEF SumsOfSome
  <2>5. sum \in SumsOfSome
    BY <2>2, <2>4 DEF SumsOfSome
  <2> HIDE DEF sum
  <2>6. /\ view' \in ViewType /\ view'.step = "served" /\ view'.sum = sum
        /\ view'.meanwhile = view.meanwhile /\ view'.was = view.was /\ view'.first = view.first
    BY <2>1, <2>2, <2>5 DEF ViewType
  <2>7. ASSUME view.meanwhile <= 1, NEW u \in members
        PROVE  \E t \in Seen(u)' : sum[u] = SumOfRead(t)'
    <3>1. PICK t \in Seen(u) : view.sum[u] = SumOfRead(t)
      BY <2>2, <2>7 DEF ViewFine
    <3>2. SumOfRead(t)' = SumOfRead(t)
      BY <2>1, <2>6 DEF SumOfRead
    <3>3. t \in Seen(u)'
      <4>1. Seen(u)' = Seen(u)
        BY <2>1, <2>6 DEF Seen, Terms, Now
      <4>2. QED
        BY <3>1, <4>1
    <3>4. QED
      BY <2>4, <3>1, <3>2, <3>3
  <2>8. ViewFine'
    <3>1. view'.meanwhile = 0 => view'.was = Now'
      BY <2>1, <2>2, <2>6 DEF ViewFine, Now
    <3>2. view'.meanwhile <= 1 => \A u \in DOMAIN view'.sum : \E t \in Seen(u)' : view'.sum[u] = SumOfRead(t)'
      BY <2>4, <2>6, <2>7
    <3>3. QED
      BY <2>1, <2>2, <2>4, <2>6, <3>1, <3>2 DEF ViewFine
  <2>9. QED
    BY <2>1, <2>2, <2>8 DEF LedgerInv, RowsFine
<1>7. QED
  BY <1>1, <1>2, <1>3, <1>4, <1>5, <1>6 DEF Ledger!Read

\* A row is added or changed.
LEMMA RowAdded == ASSUME NEW R, NEW s \in Seq(R), NEW r \in R PROVE Append(s, r) \in Seq(R)
OBVIOUS

LEMMA RowsChanged ==
    ASSUME NEW R, NEW s \in Seq(R), NEW t, DOMAIN t = DOMAIN s, t = [i \in DOMAIN s |-> t[i]],
           \A i \in DOMAIN s : s[i] \in R => t[i] \in R
    PROVE  t \in Seq(R)
<1>1. DOMAIN s = 1 .. Len(s) /\ Len(s) \in Nat
  OBVIOUS
<1>2. \A i \in DOMAIN s : s[i] \in R
  BY <1>1
<1>3. t \in [1 .. Len(s) -> R]
  BY <1>1, <1>2
<1>4. QED
  BY <1>1, <1>3

\* An expense may be deleted or restored, or get another payer and another bill.
LEMMA ExpenseChanged ==
    ASSUME NEW e \in ExpenseRow
    PROVE  /\ \A d \in BOOLEAN : [e EXCEPT !.deleted = d] \in ExpenseRow
           /\ \A u \in Members, bill \in Bill : [e EXCEPT !.payer = u, !.shares = bill] \in ExpenseRow
           /\ e.deleted \in BOOLEAN
<1> USE DEF ExpenseRow
<1> HIDE DEF Bill
<1>1. \A d \in BOOLEAN : [e EXCEPT !.deleted = d] \in ExpenseRow
  OBVIOUS
<1>2. \A u \in Members, bill \in Bill : [e EXCEPT !.payer = u, !.shares = bill] \in ExpenseRow
  OBVIOUS
<1>3. QED
  BY <1>1, <1>2

LEMMA PaymentChanged ==
    ASSUME NEW p \in PaymentRow
    PROVE  \A a \in {"confirmed", "disputed"} : [p EXCEPT !.status = a] \in PaymentRow
BY DEF PaymentRow

LEMMA WritesKeepLedgerInv ==
    ASSUME LedgerInv, Ledger!Write, view.step # "served"
    PROVE  LedgerInv'
<1>1. RowsFine
  BY DEF LedgerInv
<1>2. Ledger!Meanwhile /\ RowsFine' /\ members' \subseteq members
  <2> USE DEF RowsFine
  <2>1. CASE \E u \in Members, bill \in Bills : Ledger!CreateExpense(u, bill)
    <3>1. PICK u \in Members, bill \in Bills : Ledger!CreateExpense(u, bill)
      BY <2>1
    <3> DEFINE r == [payer |-> u, shares |-> bill, deleted |-> FALSE]
    <3>2. r \in ExpenseRow
      BY BillIsFine DEF ExpenseRow
    <3> HIDE DEF r
    <3>3. expenses' = Append(expenses, r) /\ UNCHANGED <<payments, members>> /\ Ledger!Meanwhile
      BY <3>1 DEF Ledger!CreateExpense, Ledger!Writes, r
    <3>4. expenses' \in Seq(ExpenseRow)
      BY <1>1, <3>2, <3>3, RowAdded
    <3>5. QED
      BY <1>1, <3>3, <3>4
  <2>2. CASE \E u \in Members, bill \in Bills, i \in DOMAIN expenses : Ledger!EditExpense(i, u, bill)
    <3>1. PICK u \in Members, bill \in Bills, i \in DOMAIN expenses : Ledger!EditExpense(i, u, bill)
      BY <2>2
    <3>2. /\ expenses' = [expenses EXCEPT ![i] = [@ EXCEPT !.payer = u, !.shares = bill]]
          /\ UNCHANGED <<payments, members>> /\ Ledger!Meanwhile
      BY <3>1 DEF Ledger!EditExpense, Ledger!Writes
    <3>3. bill \in Bill
      BY BillIsFine
    <3>4. \A k \in DOMAIN expenses : expenses[k] \in ExpenseRow => expenses'[k] \in ExpenseRow
      BY <3>2, <3>3, ExpenseChanged
    <3>5. expenses' \in Seq(ExpenseRow)
      BY <1>1, <3>2, <3>4, RowsChanged
    <3>6. QED
      BY <1>1, <3>2, <3>5
  <2>3. CASE \E i \in DOMAIN expenses : Ledger!DeleteOrRestore(i)
    <3>1. PICK i \in DOMAIN expenses : Ledger!DeleteOrRestore(i)
      BY <2>3
    <3>2. /\ expenses' = [expenses EXCEPT ![i] = [@ EXCEPT !.deleted = ~expenses[i].deleted]]
          /\ UNCHANGED <<payments, members>> /\ Ledger!Meanwhile
      BY <3>1 DEF Ledger!DeleteOrRestore, Ledger!Writes
    <3>3. \A k \in DOMAIN expenses : expenses[k] \in ExpenseRow => expenses'[k] \in ExpenseRow
      BY <3>2, ExpenseChanged
    <3>4. expenses' \in Seq(ExpenseRow)
      BY <1>1, <3>2, <3>3, RowsChanged
    <3>5. QED
      BY <1>1, <3>2, <3>4
  <2>4. CASE \E u, v \in Members, a \in Amounts : u # v /\ Ledger!RecordPayment(u, v, a)
    <3>1. PICK u \in Members, v \in Members, a \in Amounts : u # v /\ Ledger!RecordPayment(u, v, a)
      BY <2>4
    <3> DEFINE r == [payer |-> u, receiver |-> v, amount |-> a, status |-> "pending"]
    <3>2. r \in PaymentRow
      BY <3>1, RowsAssumption DEF PaymentRow
    <3> HIDE DEF r
    <3>3. payments' = Append(payments, r) /\ UNCHANGED <<expenses, members>> /\ Ledger!Meanwhile
      BY <3>1 DEF Ledger!RecordPayment, Ledger!Writes, r
    <3>4. payments' \in Seq(PaymentRow)
      BY <1>1, <3>2, <3>3, RowAdded
    <3>5. QED
      BY <1>1, <3>3, <3>4
  <2>5. CASE \E j \in DOMAIN payments, a \in {"confirmed", "disputed"} : Ledger!AnswerPayment(j, a)
    <3>1. PICK j \in DOMAIN payments, a \in {"confirmed", "disputed"} : Ledger!AnswerPayment(j, a)
      BY <2>5
    <3>2. /\ payments' = [payments EXCEPT ![j] = [@ EXCEPT !.status = a]]
          /\ UNCHANGED <<expenses, members>> /\ Ledger!Meanwhile
      BY <3>1 DEF Ledger!AnswerPayment, Ledger!Writes
    <3>3. \A k \in DOMAIN payments : payments[k] \in PaymentRow => payments'[k] \in PaymentRow
      BY <3>2, PaymentChanged
    <3>4. payments' \in Seq(PaymentRow)
      BY <1>1, <3>2, <3>3, RowsChanged
    <3>5. QED
      BY <1>1, <3>2, <3>4
  <2>6. CASE \E u \in Members : Ledger!LeaveGroup(u) \/ Ledger!PurgeMemberships(u)
    BY <1>1, <2>6 DEF Ledger!LeaveGroup, Ledger!PurgeMemberships, Ledger!Writes
  <2>7. CASE Ledger!PurgeExpenses
    <3>1. PICK created \in SUBSET DOMAIN expenses :
             expenses' = [i \in DOMAIN expenses |->
                             [expenses[i] EXCEPT !.deleted = expenses[i].deleted \/ i \in created]]
      BY <2>7 DEF Ledger!PurgeExpenses
    <3>2. UNCHANGED <<payments, members>> /\ Ledger!Meanwhile
      BY <2>7 DEF Ledger!PurgeExpenses
    <3>3. \A k \in DOMAIN expenses : expenses[k] \in ExpenseRow => expenses'[k] \in ExpenseRow
      BY <3>1, ExpenseChanged
    <3>4. expenses' \in Seq(ExpenseRow)
      BY <1>1, <3>1, <3>3, RowsChanged
    <3>5. QED
      BY <1>1, <3>2, <3>4
  <2>8. QED
    BY <2>1, <2>2, <2>3, <2>4, <2>5, <2>6, <2>7 DEF Ledger!Write
<1>3. QED
  BY <1>2, Written

-------------------------------------------------------------------------------
(* The list of what is owed.                                                *)

LEMMA Least ==
    ASSUME NEW n \in Nat, NEW Bad \in SUBSET (0 .. n), Bad # {}
    PROVE  \E k \in Bad : \A j \in Bad : k <= j
<1> DEFINE Some == {0 .. k : k \in Bad}
           R == 0 .. n
<1>1. IsFiniteSet(R)
  BY FS_Interval
<1>2. Some \in SUBSET SUBSET R /\ Some # {}
  <2>1. \A k \in Bad : 0 .. k \in SUBSET R
    OBVIOUS
  <2>2. PICK k \in Bad : TRUE
    OBVIOUS
  <2>3. 0 .. k \in Some
    BY <2>2
  <2>4. QED
    BY <2>1, <2>3
<1>3. PICK T \in Some : \A U \in Some : U \subseteq T => U = T
  <2> HIDE DEF Some, R
  <2>1. QED
    BY <1>1, <1>2, SmallestSubset
<1> HIDE DEF Some
<1>4. PICK k \in Bad : T = 0 .. k
  BY DEF Some
<1>5. ASSUME NEW j \in Bad, j < k
      PROVE  FALSE
  <2>1. (0 .. j) \in Some /\ (0 .. j) \subseteq (0 .. k)
    BY <1>5 DEF Some
  <2>2. 0 .. j = 0 .. k
    BY <1>3, <1>4, <2>1
  <2>3. k \in 0 .. k /\ k \notin 0 .. j
    BY <1>5
  <2>4. QED
    BY <2>2, <2>3
<1>6. \A j \in Bad : k <= j
  BY <1>5
<1>7. QED
  BY <1>6

\* What a recursive function over 0 .. n is: step h after step h.
Steps(f, n, base, h, Val) ==
    /\ f \in [0 .. n -> Val] /\ f[0] = base
    /\ \A i \in 1 .. n : f[i] = h[<<i, f[i - 1]>>]

LEMMA StepsExist ==
    ASSUME NEW n \in Nat, NEW Val, NEW base \in Val, NEW h,
           \A i \in 1 .. n : \A x \in Val : h[<<i, x>>] \in Val
    PROVE  \E f : Steps(f, n, base, h, Val)
<1> DEFINE Bad == {m \in 0 .. n : ~ \E f : Steps(f, m, base, h, Val)}
<1> SUFFICES ASSUME n \in Bad
             PROVE  FALSE
  OBVIOUS
<1>1. PICK m \in Bad : \A j \in Bad : m <= j
  <2>1. Bad \in SUBSET (0 .. n) /\ Bad # {}
    OBVIOUS
  <2> HIDE DEF Bad
  <2>2. QED
    BY <2>1, Least
<1>2. m # 0
  <2> DEFINE f == [i \in 0 .. 0 |-> base]
  <2>1. Steps(f, 0, base, h, Val)
    BY DEF Steps
  <2>2. QED
    BY <2>1
<1>3. m \in 1 .. n /\ m - 1 \in 0 .. n /\ m - 1 \notin Bad
  BY <1>1, <1>2
<1>4. PICK f : Steps(f, m - 1, base, h, Val)
  BY <1>3
<1> DEFINE g == [i \in 0 .. m |-> IF i = m THEN h[<<m, f[m - 1]>>] ELSE f[i]]
<1>5. f \in [0 .. m - 1 -> Val] /\ f[0] = base /\ \A i \in 1 .. m - 1 : f[i] = h[<<i, f[i - 1]>>]
  BY <1>4 DEF Steps
<1>6. f[m - 1] \in Val /\ h[<<m, f[m - 1]>>] \in Val
  BY <1>3, <1>5
<1>7. g \in [0 .. m -> Val]
  <2>1. \A i \in 0 .. m : i = m \/ i \in 0 .. m - 1
    BY <1>3
  <2>2. QED
    BY <1>5, <1>6, <2>1
<1>8. g[0] = base
  BY <1>3, <1>5
<1>9. \A i \in 1 .. m : g[i] = h[<<i, g[i - 1]>>]
  <2> SUFFICES ASSUME NEW i \in 1 .. m
               PROVE  g[i] = h[<<i, g[i - 1]>>]
    OBVIOUS
  <2>1. i - 1 \in 0 .. m /\ i - 1 # m /\ g[i - 1] = f[i - 1]
    BY <1>3
  <2>2. CASE i = m
    BY <1>3, <2>1, <2>2
  <2>3. CASE i # m
    <3>1. i \in 1 .. m - 1 /\ g[i] = f[i]
      BY <1>3, <2>3
    <3>2. QED
      BY <1>5, <2>1, <3>1
  <2>4. QED
    BY <2>2, <2>3
<1>10. Steps(g, m, base, h, Val)
  BY <1>7, <1>8, <1>9 DEF Steps
<1>11. QED
  BY <1>10

\* A function that is defined like one of steps is that one.
Recurses(g, n, base, h, Val) ==
    /\ DOMAIN g = 0 .. n /\ g = [i \in 0 .. n |-> g[i]] /\ g[0] = base
    /\ \A i \in 1 .. n : g[i - 1] \in Val => g[i] = h[<<i, g[i - 1]>>]

LEMMA StepsUnique ==
    ASSUME NEW n \in Nat, NEW Val, NEW base, NEW h, NEW f, Steps(f, n, base, h, Val),
           NEW g, Recurses(g, n, base, h, Val)
    PROVE  g = f
<1> DEFINE Bad == {m \in 0 .. n : g[m] # f[m]}
<1>1. f \in [0 .. n -> Val] /\ f[0] = base /\ \A i \in 1 .. n : f[i] = h[<<i, f[i - 1]>>]
  BY DEF Steps
<1>0. /\ DOMAIN g = 0 .. n /\ g = [i \in 0 .. n |-> g[i]] /\ g[0] = base
      /\ \A i \in 1 .. n : g[i - 1] \in Val => g[i] = h[<<i, g[i - 1]>>]
  BY DEF Recurses
<1>2. ASSUME Bad # {}
      PROVE  FALSE
  <2>1. PICK m \in Bad : \A j \in Bad : m <= j
    <3>1. Bad \in SUBSET (0 .. n) /\ Bad # {}
      BY <1>2
    <3> HIDE DEF Bad
    <3>2. QED
      BY <3>1, Least
  <2>2. m # 0 /\ m \in 1 .. n /\ m - 1 \in 0 .. n
    BY <1>0, <1>1, <2>1
  <2>3. g[m - 1] = f[m - 1] /\ f[m - 1] \in Val
    BY <1>1, <2>1, <2>2
  <2>4. QED
    BY <1>0, <1>1, <2>1, <2>2, <2>3
<1>3. \A i \in 0 .. n : g[i] = f[i]
  BY <1>2
<1>4. QED
  BY <1>0, <1>1, <1>3

\* What is left of the splits, and of one payment.
Rems(E) == {rem \in [DOMAIN E -> Bill] : \A i \in DOMAIN E : DOMAIN rem[i] = DOMAIN E[i].shares}
States(E) == [rem : Rems(E), left : Nat]

LEMMA RemType ==
    ASSUME NEW E, NEW rem \in Rems(E), NEW i \in DOMAIN E
    PROVE  /\ rem[i] \in Bill /\ DOMAIN rem[i] = DOMAIN E[i].shares
           /\ \A w \in DOMAIN E[i].shares : rem[i][w] \in Nat
BY DEF Rems, Bill

LEMMA BillWith ==
    ASSUME NEW b \in Bill, NEW w \in DOMAIN b, NEW x \in Nat
    PROVE  LET c == [b EXCEPT ![w] = x] IN
           /\ c \in Bill /\ DOMAIN c = DOMAIN b /\ c[w] = x
           /\ \A y \in DOMAIN b \ {w} : c[y] = b[y]
BY DEF Bill

\* r is rem, but for one value.
RemSet(E, rem, i, w, x, r) ==
    /\ r \in Rems(E) /\ r[i][w] = x
    /\ \A k \in DOMAIN E : \A y \in DOMAIN E[k].shares :
          k # i \/ y # w => r[k][y] = rem[k][y]

LEMMA RemWith ==
    ASSUME NEW E, NEW rem \in Rems(E), NEW i \in DOMAIN E, NEW w \in DOMAIN E[i].shares, NEW x \in Nat
    PROVE  RemSet(E, rem, i, w, x, [rem EXCEPT ![i][w] = x])
<1> DEFINE c == [rem[i] EXCEPT ![w] = x]
           r == [rem EXCEPT ![i] = c]
<1>1. rem[i] \in Bill /\ DOMAIN rem[i] = DOMAIN E[i].shares /\ DOMAIN rem = DOMAIN E
  BY DEF Rems
<1>2. /\ c \in Bill /\ DOMAIN c = DOMAIN E[i].shares /\ c[w] = x
      /\ \A y \in DOMAIN E[i].shares \ {w} : c[y] = rem[i][y]
  BY <1>1, BillWith
<1> HIDE DEF c
<1>3. r[i] = c /\ \A k \in DOMAIN E \ {i} : r[k] = rem[k]
  BY <1>1
<1>4. r \in [DOMAIN E -> Bill]
  BY <1>1, <1>2 DEF Rems
<1>5. r \in Rems(E)
  BY <1>2, <1>3, <1>4 DEF Rems
<1>6. r = [rem EXCEPT ![i][w] = x]
  BY DEF c
<1> HIDE DEF r
<1>7. \A k \in DOMAIN E : \A y \in DOMAIN E[k].shares : k # i \/ y # w => r[k][y] = rem[k][y]
  BY <1>2, <1>3
<1>8. QED
  BY <1>2, <1>3, <1>5, <1>6, <1>7 DEF RemSet

\* One payment takes from one split what is there and what is left; of the other
\* splits only that of whoever paid for the expense changes.
LEMMA TakenDoes ==
    ASSUME NEW E \in Seq(ExpenseRow), NEW i \in DOMAIN E, NEW u \in DOMAIN E[i].shares,
           u # E[i].payer, NEW s \in States(E)
    PROVE  LET t == Ledger!Taken(E, i, u, s) IN
           /\ t \in States(E)
           /\ \E take \in Nat :
                 /\ take = s.rem[i][u] \/ (take = s.left /\ take <= s.rem[i][u])
                 /\ take <= s.left
                 /\ t.left = s.left - take /\ t.rem[i][u] = s.rem[i][u] - take
           /\ \A k \in DOMAIN E : \A w \in DOMAIN E[k].shares :
                 w # E[k].payer /\ (k # i \/ w # u) => t.rem[k][w] = s.rem[k][w]
<1> DEFINE take == Ledger!Smaller(s.rem[i][u], s.left)
           p == E[i].payer
           grown == IF p \in DOMAIN E[i].shares THEN [s.rem EXCEPT ![i][p] = @ + take] ELSE s.rem
           r == [grown EXCEPT ![i][u] = grown[i][u] - take]
           t == [rem |-> r, left |-> s.left - take]
<1>1. Ledger!Taken(E, i, u, s) = t
  BY DEF Ledger!Taken
<1>2. s.rem \in Rems(E) /\ s.left \in Nat /\ s.rem[i][u] \in Nat
  <2>1. s.rem \in Rems(E) /\ s.left \in Nat
    BY DEF States
  <2>2. QED
    BY <2>1, RemType
<1>3. /\ take \in Nat /\ take <= s.left /\ take <= s.rem[i][u]
      /\ take = s.rem[i][u] \/ take = s.left
  BY <1>2 DEF Ledger!Smaller
<1> HIDE DEF take
<1>4. /\ grown \in Rems(E) /\ grown[i][u] = s.rem[i][u]
      /\ \A k \in DOMAIN E : \A w \in DOMAIN E[k].shares :
            w # E[k].payer => grown[k][w] = s.rem[k][w]
  <2>1. CASE p \in DOMAIN E[i].shares
    <3> DEFINE g == [s.rem EXCEPT ![i][p] = @ + take]
    <3>1. /\ g \in Rems(E)
          /\ \A k \in DOMAIN E : \A w \in DOMAIN E[k].shares :
                k # i \/ w # p => g[k][w] = s.rem[k][w]
      <4> DEFINE m == s.rem
                 x == m[i][p] + take
      <4>1. m \in Rems(E) /\ x \in Nat
        BY <1>2, <1>3, <2>1, RemType
      <4>2. g = [m EXCEPT ![i][p] = x]
        OBVIOUS
      <4> HIDE DEF m, x, g
      <4>3. RemSet(E, m, i, p, x, g)
        BY <2>1, <4>1, <4>2, RemWith
      <4>4. QED
        BY <4>3 DEF RemSet, m
    <3>2. grown = g
      BY <2>1
    <3> HIDE DEF g, grown
    <3>3. QED
      BY <3>1, <3>2
  <2>2. CASE p \notin DOMAIN E[i].shares
    <3>1. grown = s.rem
      BY <2>2
    <3> HIDE DEF grown
    <3>2. QED
      BY <1>2, <3>1
  <2>3. QED
    BY <2>1, <2>2
<1> HIDE DEF grown
<1>5. /\ r \in Rems(E) /\ r[i][u] = s.rem[i][u] - take
      /\ \A k \in DOMAIN E : \A w \in DOMAIN E[k].shares :
            k # i \/ w # u => r[k][w] = grown[k][w]
  <2> DEFINE x == grown[i][u] - take
  <2>1. x \in Nat
    BY <1>2, <1>3, <1>4
  <2> HIDE DEF x
  <2>2. RemSet(E, grown, i, u, x, [grown EXCEPT ![i][u] = x])
    BY <1>4, <2>1, RemWith
  <2>3. QED
    BY <1>4, <2>2 DEF x, RemSet
<1> HIDE DEF r
<1>6. t \in States(E) /\ t.rem = r /\ t.left = s.left - take
  BY <1>2, <1>3, <1>5 DEF States
<1>7. \E tk \in Nat :
         /\ tk = s.rem[i][u] \/ (tk = s.left /\ tk <= s.rem[i][u])
         /\ tk <= s.left
         /\ t.left = s.left - tk /\ t.rem[i][u] = s.rem[i][u] - tk
  BY <1>3, <1>5, <1>6
<1>8. \A k \in DOMAIN E : \A w \in DOMAIN E[k].shares :
         w # E[k].payer /\ (k # i \/ w # u) => t.rem[k][w] = s.rem[k][w]
  BY <1>4, <1>5, <1>6
<1> HIDE DEF t
<1>9. QED
  BY <1>1, <1>6, <1>7, <1>8

LEMMA EligibleIsFine ==
    ASSUME NEW E \in Seq(ExpenseRow), NEW p \in PaymentRow, NEW i, Ledger!Eligible(E, i, p)
    PROVE  LET d == Ledger!Debtor(E[i], p) IN
           /\ i \in DOMAIN E /\ i \in Ledger!Live(E) /\ d \in DOMAIN E[i].shares /\ d # E[i].payer
           /\ {d, E[i].payer} = {p.payer, p.receiver}
BY DEF Ledger!Eligible, Ledger!Live, Ledger!Debtor, PaymentRow

\* One payment goes through the expenses from the oldest to the newest.
OnePayment(E, p, rem, after) ==
    /\ after \in [0 .. Len(E) -> States(E)]
    /\ after[0].rem = rem /\ after[0].left = p.amount
    /\ \A i \in 1 .. Len(E) :
          after[i] = IF Ledger!Eligible(E, i, p)
                     THEN Ledger!Taken(E, i, Ledger!Debtor(E[i], p), after[i - 1])
                     ELSE after[i - 1]
    /\ Ledger!Applied(E, p, rem) = after[Len(E)].rem

LEMMA AppliedSteps ==
    ASSUME NEW E \in Seq(ExpenseRow), NEW p \in PaymentRow, NEW rem \in Rems(E)
    PROVE  \E after : OnePayment(E, p, rem, after)
<1> DEFINE n == Len(E)
           Val == States(E)
           base == [rem |-> rem, left |-> p.amount]
           Step(i, x) == IF Ledger!Eligible(E, i, p)
                         THEN Ledger!Taken(E, i, Ledger!Debtor(E[i], p), x) ELSE x
           h == [ix \in (1 .. n) \X Val |-> Step(ix[1], ix[2])]
           Rec(g) == g = [i \in 0 .. n |-> IF i = 0 THEN base ELSE Step(i, g[i - 1])]
           g == CHOOSE x : Rec(x)
<1>1. n \in Nat /\ base \in Val
  BY DEF States, PaymentRow
<1>2. \A i \in 1 .. n : \A x \in Val : Step(i, x) \in Val
  <2> SUFFICES ASSUME NEW i \in 1 .. n, NEW x \in Val
               PROVE  Step(i, x) \in Val
    OBVIOUS
  <2>1. CASE Ledger!Eligible(E, i, p)
    <3>1. /\ i \in DOMAIN E /\ Ledger!Debtor(E[i], p) \in DOMAIN E[i].shares
          /\ Ledger!Debtor(E[i], p) # E[i].payer
      BY <2>1, EligibleIsFine
    <3>2. Ledger!Taken(E, i, Ledger!Debtor(E[i], p), x) \in Val
      BY <3>1, TakenDoes
    <3>3. QED
      BY <2>1, <3>2
  <2>2. CASE ~Ledger!Eligible(E, i, p)
    BY <2>2
  <2>3. QED
    BY <2>1, <2>2
<1> HIDE DEF Val, base, Step
<1>3. \A i \in 1 .. n : \A x \in Val : h[<<i, x>>] = Step(i, x) /\ h[<<i, x>>] \in Val
  BY <1>2
<1> HIDE DEF h
<1>4. PICK f : Steps(f, n, base, h, Val)
  BY <1>1, <1>3, StepsExist
<1>5. f \in [0 .. n -> Val] /\ f[0] = base /\ \A i \in 1 .. n : f[i] = Step(i, f[i - 1])
  <2>1. f \in [0 .. n -> Val] /\ f[0] = base /\ \A i \in 1 .. n : f[i] = h[<<i, f[i - 1]>>]
    BY <1>4 DEF Steps
  <2>2. \A i \in 1 .. n : f[i - 1] \in Val
    BY <1>1, <2>1
  <2>3. QED
    BY <1>3, <2>1, <2>2
<1>6. Rec(f)
  BY <1>1, <1>5
<1>7. Rec(g)
  <2>1. (\E x : Rec(x)) => Rec(CHOOSE x : Rec(x))
    <3> HIDE DEF Rec
    <3>1. QED
      OBVIOUS
  <2>2. QED
    BY <1>6, <2>1
<1>8. Ledger!Applied(E, p, rem) = g[n].rem
  BY DEF Ledger!Applied, Step, base
<1> HIDE DEF g
<1>9. g = f
  <2>1. g = [i \in 0 .. n |-> IF i = 0 THEN base ELSE Step(i, g[i - 1])]
    BY <1>7
  <2>2. DOMAIN g = 0 .. n /\ g[0] = base
    BY <1>1, <2>1
  <2>3. \A i \in 1 .. n : g[i] = Step(i, g[i - 1])
    BY <1>1, <2>1
  <2>4. \A i \in 1 .. n : g[i - 1] \in Val => g[i] = h[<<i, g[i - 1]>>]
    BY <1>3, <2>3
  <2>5. g = [i \in 0 .. n |-> g[i]]
    BY <2>1
  <2>6. Recurses(g, n, base, h, Val)
    BY <2>2, <2>4, <2>5 DEF Recurses
  <2>7. QED
    BY <1>1, <1>4, <2>6, StepsUnique
<1>10. OnePayment(E, p, rem, f)
  BY <1>1, <1>5, <1>8, <1>9 DEF OnePayment, Step, base, Val
<1>11. QED
  BY <1>10

LEMMA SumRaised ==
    ASSUME NEW S, IsFiniteSet(S), NEW x \in S, NEW f, NEW g, NEW d \in Int,
           \A y \in S : f[y] \in Int, g[x] = f[x] + d, \A y \in S \ {x} : g[y] = f[y]
    PROVE  SumFunctionOnSet(g, S) = SumFunctionOnSet(f, S) + d
<1> DEFINE R == S \ {x}
<1>1. IsFiniteSet(R)
  BY FS_RemoveElement
<1>2. \A y \in S : g[y] \in Int
  <2>1. f[x] \in Int
    OBVIOUS
  <2>2. g[x] \in Int
    BY <2>1
  <2>3. QED
    BY <2>2
<1>3. SumFunctionOnSet(f, S) = f[x] + SumFunctionOnSet(f, R)
  BY SumRemove
<1>4. SumFunctionOnSet(g, S) = g[x] + SumFunctionOnSet(g, R)
  BY <1>2, SumRemove
<1>5. \A y \in R : f[y] \in Int /\ g[y] = f[y]
  OBVIOUS
<1> HIDE DEF R
<1>6. SumFunctionOnSet(g, R) = SumFunctionOnSet(f, R)
  BY <1>1, <1>5, SumEqual
<1>7. SumFunctionOnSet(f, R) \in Int /\ f[x] \in Int
  BY <1>1, <1>5, SumType
<1>8. QED
  BY <1>3, <1>4, <1>6, <1>7

\* The expenses of u or v, and what the other of the two owes of each: at first,
\* still, and no longer.
Other(e, u, v) == IF e.payer = u THEN v ELSE u
Common(E, u, v) == {i \in Ledger!Live(E) : E[i].payer \in {u, v}}
Owes(E, u, v) == [i \in DOMAIN E |-> Ledger!ShareOf(Other(E[i], u, v), E[i])]
Still(E, u, v, rem) ==
    [i \in DOMAIN E |-> IF Other(E[i], u, v) \in DOMAIN E[i].shares
                        THEN rem[i][Other(E[i], u, v)] ELSE 0]
Gone(E, u, v, rem) == [i \in DOMAIN E |-> Owes(E, u, v)[i] - Still(E, u, v, rem)[i]]
GoneSum(E, u, v, rem) == SumFunctionOnSet(Gone(E, u, v, rem), Common(E, u, v))

\* The oldest expense is paid first.
InOrder(E, u, v, rem) ==
    \A l \in Common(E, u, v) :
       /\ Still(E, u, v, rem)[l] <= Owes(E, u, v)[l]
       /\ Still(E, u, v, rem)[l] < Owes(E, u, v)[l] =>
             \A k \in Common(E, u, v) : k < l => Still(E, u, v, rem)[k] = 0

LEMMA CommonType ==
    ASSUME NEW E \in Seq(ExpenseRow), NEW u, NEW v, u # v
    PROVE  /\ Common(E, u, v) \in SUBSET DOMAIN E /\ IsFiniteSet(Common(E, u, v))
           /\ \A i \in DOMAIN E : Owes(E, u, v)[i] \in Nat
           /\ \A i \in Common(E, u, v) : /\ Other(E[i], u, v) # E[i].payer
                                         /\ {Other(E[i], u, v), E[i].payer} = {u, v}
<1>1. Common(E, u, v) \in SUBSET DOMAIN E
  BY DEF Common, Ledger!Live
<1>2. IsFiniteSet(Common(E, u, v))
  BY <1>1, ExpenseRows, FS_Subset
<1>3. \A i \in DOMAIN E : Owes(E, u, v)[i] \in Nat
  BY ExpenseRows, ShareType DEF Owes
<1>4. \A i \in Common(E, u, v) : /\ Other(E[i], u, v) # E[i].payer
                                 /\ {Other(E[i], u, v), E[i].payer} = {u, v}
  BY DEF Common, Other
<1>5. QED
  BY <1>1, <1>2, <1>3, <1>4

LEMMA StillType ==
    ASSUME NEW E \in Seq(ExpenseRow), NEW u, NEW v, u # v, NEW rem \in Rems(E)
    PROVE  \A i \in DOMAIN E :
              /\ Still(E, u, v, rem)[i] \in Nat
              /\ Other(E[i], u, v) \in DOMAIN E[i].shares =>
                    Still(E, u, v, rem)[i] = rem[i][Other(E[i], u, v)]
              /\ Other(E[i], u, v) \notin DOMAIN E[i].shares =>
                    Still(E, u, v, rem)[i] = 0
              /\ Gone(E, u, v, rem)[i] = Owes(E, u, v)[i] - Still(E, u, v, rem)[i]
              /\ Gone(E, u, v, rem)[i] \in Int
<1> SUFFICES ASSUME NEW i \in DOMAIN E
             PROVE  /\ Still(E, u, v, rem)[i] \in Nat
                    /\ Other(E[i], u, v) \in DOMAIN E[i].shares =>
                          Still(E, u, v, rem)[i] = rem[i][Other(E[i], u, v)]
                    /\ Other(E[i], u, v) \notin DOMAIN E[i].shares =>
                          Still(E, u, v, rem)[i] = 0
                    /\ Gone(E, u, v, rem)[i] = Owes(E, u, v)[i] - Still(E, u, v, rem)[i]
                    /\ Gone(E, u, v, rem)[i] \in Int
  OBVIOUS
<1> DEFINE o == Other(E[i], u, v)
<1>1. o \in DOMAIN E[i].shares => rem[i][o] \in Nat
  BY RemType
<1>2. Still(E, u, v, rem)[i] = IF o \in DOMAIN E[i].shares THEN rem[i][o] ELSE 0
  BY DEF Still
<1> HIDE DEF o
<1>3. Still(E, u, v, rem)[i] \in Nat
  BY <1>1, <1>2
<1>4. Gone(E, u, v, rem)[i] = Owes(E, u, v)[i] - Still(E, u, v, rem)[i]
  BY DEF Gone
<1>5. Owes(E, u, v)[i] \in Nat
  BY CommonType
<1>6. Gone(E, u, v, rem)[i] \in Int
  BY <1>3, <1>4, <1>5
<1>7. QED
  BY <1>2, <1>3, <1>4, <1>6 DEF o

\* Payments of others leave what the two owe each other alone.
LEMMA OthersPayment ==
    ASSUME NEW E \in Seq(ExpenseRow), NEW u, NEW v, u # v, NEW p \in PaymentRow,
           {p.payer, p.receiver} # {u, v}, NEW rem \in Rems(E)
    PROVE  /\ Ledger!Applied(E, p, rem) \in Rems(E)
           /\ \A i \in Common(E, u, v) :
                 Still(E, u, v, Ledger!Applied(E, p, rem))[i] = Still(E, u, v, rem)[i]
<1>1. PICK after : OnePayment(E, p, rem, after)
  BY AppliedSteps
<1> DEFINE n == Len(E)
           Same(s) == \A i \in Common(E, u, v) : Still(E, u, v, s.rem)[i] = Still(E, u, v, rem)[i]
           Bad == {m \in 0 .. n : ~Same(after[m])}
<1>2. /\ n \in Nat /\ after \in [0 .. n -> States(E)] /\ after[0].rem = rem
      /\ \A i \in 1 .. n :
            after[i] = IF Ledger!Eligible(E, i, p)
                       THEN Ledger!Taken(E, i, Ledger!Debtor(E[i], p), after[i - 1])
                       ELSE after[i - 1]
      /\ Ledger!Applied(E, p, rem) = after[n].rem
  BY <1>1 DEF OnePayment
<1>3. ASSUME Bad # {}
      PROVE  FALSE
  <2>1. PICK m \in Bad : \A j \in Bad : m <= j
    <3>1. Bad \in SUBSET (0 .. n) /\ Bad # {}
      BY <1>3
    <3> HIDE DEF Bad
    <3>2. QED
      BY <1>2, <3>1, Least
  <2>2. m # 0
    BY <1>2, <2>1
  <2>3. m \in 1 .. n /\ m - 1 \in 0 .. n /\ m - 1 \notin Bad
    BY <1>2, <2>1, <2>2
  <2> DEFINE s == after[m - 1]
             t == after[m]
             d == Ledger!Debtor(E[m], p)
  <2>4. Same(s) /\ ~Same(t) /\ s \in States(E) /\ t \in States(E)
    BY <1>2, <2>1, <2>3
  <2>5. Ledger!Eligible(E, m, p) /\ t = Ledger!Taken(E, m, d, s)
    <3>1. CASE ~Ledger!Eligible(E, m, p)
      <4>1. t = s
        BY <1>2, <2>3, <3>1
      <4> HIDE DEF t, s
      <4>2. QED
        BY <2>4, <4>1
    <3>2. QED
      BY <1>2, <2>3, <3>1
  <2>6. m \in DOMAIN E /\ d \in DOMAIN E[m].shares /\ d # E[m].payer /\ {d, E[m].payer} = {p.payer, p.receiver}
    BY <2>5, EligibleIsFine
  <2> HIDE DEF s, t, d, Same
  <2>7. \A k \in DOMAIN E : \A w \in DOMAIN E[k].shares :
           w # E[k].payer /\ (k # m \/ w # d) => t.rem[k][w] = s.rem[k][w]
    BY <2>4, <2>5, <2>6, TakenDoes
  <2>8. ASSUME NEW k \in Common(E, u, v)
        PROVE  Still(E, u, v, t.rem)[k] = Still(E, u, v, s.rem)[k]
    <3> DEFINE o == Other(E[k], u, v)
    <3>1. k \in DOMAIN E /\ o # E[k].payer /\ {o, E[k].payer} = {u, v}
      BY CommonType
    <3>2. s.rem \in Rems(E) /\ t.rem \in Rems(E)
      BY <2>4 DEF States
    <3>a. ASSUME NEW r \in Rems(E)
          PROVE  Still(E, u, v, r)[k] = IF o \in DOMAIN E[k].shares THEN r[k][o] ELSE 0
      BY <3>1 DEF Still
    <3> HIDE DEF o
    <3>3. k # m \/ o # d
      BY <2>6, <3>1
    <3>4. CASE o \in DOMAIN E[k].shares
      <4>1. t.rem[k][o] = s.rem[k][o]
        BY <2>7, <3>1, <3>3, <3>4
      <4>2. Still(E, u, v, t.rem)[k] = t.rem[k][o] /\ Still(E, u, v, s.rem)[k] = s.rem[k][o]
        BY <3>2, <3>4, <3>a
      <4>3. QED
        BY <4>1, <4>2
    <3>5. CASE o \notin DOMAIN E[k].shares
      BY <3>2, <3>5, <3>a
    <3>6. QED
      BY <3>4, <3>5
  <2>9. QED
    BY <2>4, <2>8 DEF Same
<1>4. Same(after[n]) /\ after[n] \in States(E)
  BY <1>2, <1>3
<1>5. QED
  BY <1>2, <1>4 DEF States

LEMMA GoneSumType ==
    ASSUME NEW E \in Seq(ExpenseRow), NEW u, NEW v, u # v, NEW rem \in Rems(E)
    PROVE  GoneSum(E, u, v, rem) \in Int
<1> DEFINE C == Common(E, u, v)
           g == Gone(E, u, v, rem)
<1>1. IsFiniteSet(C) /\ \A i \in C : g[i] \in Int
  BY CommonType, StillType
<1> HIDE DEF C, g
<1>2. SumFunctionOnSet(g, C) \in Int
  BY <1>1, SumType
<1>3. QED
  BY <1>2 DEF GoneSum, C, g

\* While a payment goes through the expenses: those it has passed are paid, or
\* nothing of it is left.
Passing(E, u, v, total, m, s) ==
    /\ InOrder(E, u, v, s.rem)
    /\ GoneSum(E, u, v, s.rem) + s.left = total
    /\ s.left > 0 => \A k \in Common(E, u, v) : k <= m => Still(E, u, v, s.rem)[k] = 0

LEMMA PassingOne ==
    ASSUME NEW E \in Seq(ExpenseRow), NEW u, NEW v, u # v, NEW p \in PaymentRow,
           {p.payer, p.receiver} = {u, v}, NEW total \in Int, NEW m \in 1 .. Len(E),
           NEW s \in States(E), Passing(E, u, v, total, m - 1, s),
           NEW t \in States(E),
           t = IF Ledger!Eligible(E, m, p) THEN Ledger!Taken(E, m, Ledger!Debtor(E[m], p), s) ELSE s
    PROVE  Passing(E, u, v, total, m, t)
<1> DEFINE C == Common(E, u, v)
           ow == Owes(E, u, v)
           a == Still(E, u, v, s.rem)
           b == Still(E, u, v, t.rem)
           f == Gone(E, u, v, s.rem)
           g == Gone(E, u, v, t.rem)
           d == Ledger!Debtor(E[m], p)
<1>1. s.rem \in Rems(E) /\ t.rem \in Rems(E) /\ s.left \in Nat /\ t.left \in Nat
  BY DEF States
<1>2. /\ C \in SUBSET DOMAIN E /\ IsFiniteSet(C) /\ DOMAIN E = 1 .. Len(E) /\ Len(E) \in Nat
      /\ \A i \in DOMAIN E : ow[i] \in Nat
  BY CommonType
<1>3. ASSUME NEW r \in Rems(E)
      PROVE  \A i \in DOMAIN E :
                /\ Still(E, u, v, r)[i] \in Nat
                /\ Gone(E, u, v, r)[i] = ow[i] - Still(E, u, v, r)[i]
                /\ Gone(E, u, v, r)[i] \in Int
  BY StillType
<1>4. \A i \in DOMAIN E : /\ a[i] \in Nat /\ f[i] = ow[i] - a[i] /\ f[i] \in Int
                          /\ b[i] \in Nat /\ g[i] = ow[i] - b[i] /\ g[i] \in Int
  BY <1>1, <1>3
<1>5. /\ SumFunctionOnSet(f, C) + s.left = total
      /\ s.left > 0 => \A k \in C : k <= m - 1 => a[k] = 0
      /\ \A l \in C : a[l] <= ow[l] /\ (a[l] < ow[l] => \A k \in C : k < l => a[k] = 0)
  BY DEF Passing, InOrder, GoneSum
<1>6. CASE ~Ledger!Eligible(E, m, p)
  <2>1. t = s
    BY <1>6
  <2>2. m \in C => a[m] = 0
    <3>1. ASSUME m \in C
          PROVE  Other(E[m], u, v) \notin DOMAIN E[m].shares
      <4>1. m \in Ledger!Live(E) /\ E[m].payer \in {u, v}
        BY <3>1 DEF Common
      <4>2. d = Other(E[m], u, v)
        BY <4>1 DEF Ledger!Debtor, Other, PaymentRow
      <4>3. QED
        BY <1>6, <4>1, <4>2 DEF Ledger!Eligible
    <3>2. QED
      BY <1>2, <3>1 DEF Still
  <2> HIDE DEF C, ow, a, f
  <2>3. s.left > 0 => \A k \in C : k <= m => a[k] = 0
    <3>1. \A k \in C : k <= m => k <= m - 1 \/ k = m
      BY <1>2
    <3>2. QED
      BY <1>5, <2>2, <3>1
  <2>4. QED
    BY <2>1, <2>3 DEF Passing, C, a
<1>7. CASE Ledger!Eligible(E, m, p)
  <2>1. /\ m \in DOMAIN E /\ m \in Ledger!Live(E) /\ d \in DOMAIN E[m].shares /\ d # E[m].payer
        /\ {d, E[m].payer} = {u, v}
    BY <1>7, EligibleIsFine
  <2>2. m \in C /\ d = Other(E[m], u, v)
    BY <2>1 DEF Common, Other
  <2>3. t = Ledger!Taken(E, m, d, s)
    BY <1>7
  <2> HIDE DEF d
  <2>4. PICK take \in Nat :
           /\ take = s.rem[m][d] \/ (take = s.left /\ take <= s.rem[m][d])
           /\ take <= s.left
           /\ t.left = s.left - take /\ t.rem[m][d] = s.rem[m][d] - take
    BY <2>1, <2>3, TakenDoes
  <2>5. \A k \in DOMAIN E : \A w \in DOMAIN E[k].shares :
           w # E[k].payer /\ (k # m \/ w # d) => t.rem[k][w] = s.rem[k][w]
    BY <2>1, <2>3, TakenDoes
  <2>6. a[m] = s.rem[m][d] /\ b[m] = t.rem[m][d]
    BY <2>1, <2>2 DEF Still
  <2>7. \A k \in C \ {m} : b[k] = a[k]
    <3> SUFFICES ASSUME NEW k \in C \ {m}
                 PROVE  b[k] = a[k]
      OBVIOUS
    <3>1. k \in DOMAIN E /\ Other(E[k], u, v) # E[k].payer
      BY CommonType
    <3>2. Other(E[k], u, v) \in DOMAIN E[k].shares => t.rem[k][Other(E[k], u, v)] = s.rem[k][Other(E[k], u, v)]
      BY <2>5, <3>1
    <3>3. QED
      BY <3>1, <3>2 DEF Still
  <2> HIDE DEF a, b, C, ow, f, g
  <2>8. /\ a[m] \in Nat /\ b[m] = a[m] - take /\ b[m] \in Nat
        /\ take = a[m] \/ (take = s.left /\ take <= a[m])
        /\ take <= s.left /\ t.left = s.left - take
    BY <1>4, <2>1, <2>4, <2>6
  <2>9. SumFunctionOnSet(g, C) + t.left = total
    <3>1. g[m] = f[m] + take
      <4>1. m \in DOMAIN E /\ ow[m] \in Nat
        BY <1>2, <2>1
      <4>2. f[m] = ow[m] - a[m] /\ g[m] = ow[m] - b[m] /\ a[m] \in Nat
        BY <1>4, <4>1
      <4> DEFINE x == ow[m]
                 y == a[m]
                 z == b[m]
                 fm == f[m]
                 gm == g[m]
      <4>3. x \in Nat /\ y \in Nat /\ z = y - take /\ fm = x - y /\ gm = x - z
        BY <2>8, <4>1, <4>2
      <4> HIDE DEF x, y, z, fm, gm
      <4>4. gm = fm + take
        BY <4>3
      <4>5. QED
        BY <4>4 DEF fm, gm
    <3>2. \A y \in C \ {m} : g[y] = f[y]
      BY <1>2, <1>4, <2>7
    <3>3. \A y \in C : f[y] \in Int
      BY <1>2, <1>4
    <3>4. SumFunctionOnSet(g, C) = SumFunctionOnSet(f, C) + take
      BY <1>2, <2>2, <3>1, <3>2, <3>3, SumRaised
    <3>5. SumFunctionOnSet(f, C) \in Int
      BY <1>2, <3>3, SumType
    <3> DEFINE x == SumFunctionOnSet(f, C)
               y == SumFunctionOnSet(g, C)
    <3> HIDE DEF x, y
    <3>6. x \in Int /\ y = x + take /\ x + s.left = total
      BY <1>5, <3>4, <3>5 DEF x, y
    <3>7. y + t.left = total
      BY <1>1, <2>8, <3>6
    <3>8. QED
      BY <3>7 DEF y
  <2>10. t.left > 0 => \A k \in C : k <= m => b[k] = 0
    <3> SUFFICES ASSUME t.left > 0, NEW k \in C, k <= m
                 PROVE  b[k] = 0
      OBVIOUS
    <3>1. take = a[m] /\ s.left > 0 /\ b[m] = 0
      BY <1>1, <2>8
    <3>2. CASE k # m
      <4>1. k <= m - 1
        BY <1>2, <3>2
      <4>2. QED
        BY <1>5, <2>7, <3>1, <3>2, <4>1
    <3>3. QED
      BY <3>1, <3>2
  <2>11. ASSUME NEW l \in C
         PROVE  b[l] <= ow[l] /\ (b[l] < ow[l] => \A k \in C : k < l => b[k] = 0)
    <3>1. l \in Nat /\ a[l] \in Nat /\ ow[l] \in Nat /\ a[l] <= ow[l]
      BY <1>2, <1>4, <1>5
    <3>2. b[l] <= ow[l]
      BY <2>7, <2>8, <3>1
    <3>3. ASSUME b[l] < ow[l], NEW k \in C, k < l
          PROVE  b[k] = 0
      <4>1. k \in Nat /\ m \in Nat /\ a[k] \in Nat
        BY <1>2, <1>4
      <4>2. CASE l # m
        <5>1. a[k] = 0
          BY <1>5, <2>7, <3>3, <4>2
        <5>2. CASE k = m
          BY <2>8, <5>1, <5>2
        <5>3. CASE k # m
          BY <2>7, <5>1, <5>3
        <5>4. QED
          BY <5>2, <5>3
      <4>3. CASE l = m
        <5>1. k # m /\ k <= m - 1 /\ b[k] = a[k]
          BY <2>7, <3>3, <4>1, <4>3
        <5>2. CASE a[m] < ow[m]
          BY <1>5, <3>3, <4>3, <5>1, <5>2
        <5>3. CASE a[m] = ow[m]
          <6>1. take > 0 /\ s.left > 0
            BY <1>1, <2>8, <3>1, <3>3, <4>3, <5>3
          <6>2. QED
            BY <1>5, <5>1, <6>1
        <5>4. QED
          BY <3>1, <4>3, <5>2, <5>3
      <4>4. QED
        BY <4>2, <4>3
    <3>4. QED
      BY <3>2, <3>3
  <2>12. InOrder(E, u, v, t.rem)
    BY <2>11 DEF InOrder, C, b, ow
  <2>13. QED
    BY <2>9, <2>10, <2>12 DEF Passing, GoneSum, C, b, g
<1>8. QED
  BY <1>6, <1>7

\* Payments of the two are taken from the oldest expenses, and no more than paid.
LEMMA OwnPayment ==
    ASSUME NEW E \in Seq(ExpenseRow), NEW u, NEW v, u # v, NEW p \in PaymentRow,
           {p.payer, p.receiver} = {u, v}, NEW rem \in Rems(E), InOrder(E, u, v, rem)
    PROVE  LET r == Ledger!Applied(E, p, rem) IN
           /\ r \in Rems(E) /\ InOrder(E, u, v, r)
           /\ GoneSum(E, u, v, r) <= GoneSum(E, u, v, rem) + p.amount
<1>1. PICK after : OnePayment(E, p, rem, after)
  BY AppliedSteps
<1> DEFINE n == Len(E)
           total == GoneSum(E, u, v, rem) + p.amount
           Bad == {m \in 0 .. n : ~Passing(E, u, v, total, m, after[m])}
<1>2. /\ n \in Nat /\ after \in [0 .. n -> States(E)] /\ after[0].rem = rem /\ after[0].left = p.amount
      /\ \A i \in 1 .. n :
            after[i] = IF Ledger!Eligible(E, i, p)
                       THEN Ledger!Taken(E, i, Ledger!Debtor(E[i], p), after[i - 1])
                       ELSE after[i - 1]
      /\ Ledger!Applied(E, p, rem) = after[n].rem
  BY <1>1 DEF OnePayment
<1>3. total \in Int /\ GoneSum(E, u, v, rem) \in Int /\ p.amount \in Nat
  BY GoneSumType DEF PaymentRow
<1>4. ASSUME Bad # {}
      PROVE  FALSE
  <2>1. PICK m \in Bad : \A j \in Bad : m <= j
    <3>1. Bad \in SUBSET (0 .. n) /\ Bad # {}
      BY <1>4
    <3> HIDE DEF Bad
    <3>2. QED
      BY <1>2, <3>1, Least
  <2>2. m # 0
    <3>1. \A k \in Common(E, u, v) : ~(k <= 0)
      BY CommonType
    <3>2. Passing(E, u, v, total, 0, after[0])
      BY <1>2, <3>1 DEF Passing
    <3>3. QED
      BY <2>1, <3>2
  <2>3. m \in 1 .. n /\ m - 1 \in 0 .. n /\ m - 1 \notin Bad
    BY <1>2, <2>1, <2>2
  <2>4. /\ Passing(E, u, v, total, m - 1, after[m - 1]) /\ ~Passing(E, u, v, total, m, after[m])
        /\ after[m - 1] \in States(E) /\ after[m] \in States(E)
    BY <1>2, <2>1, <2>3
  <2> HIDE DEF total, Bad
  <2>5. Passing(E, u, v, total, m, after[m])
    BY <1>2, <1>3, <2>3, <2>4, PassingOne
  <2>6. QED
    BY <2>4, <2>5
<1>5. Passing(E, u, v, total, n, after[n]) /\ after[n] \in States(E)
  BY <1>2, <1>4
<1>6. after[n].rem \in Rems(E) /\ after[n].left \in Nat
  BY <1>5 DEF States
<1>7. GoneSum(E, u, v, after[n].rem) \in Int
  BY <1>6, GoneSumType
<1>8. QED
  BY <1>2, <1>3, <1>5, <1>6, <1>7 DEF Passing

LEMMA AppliedType ==
    ASSUME NEW E \in Seq(ExpenseRow), NEW p \in PaymentRow, NEW rem \in Rems(E)
    PROVE  Ledger!Applied(E, p, rem) \in Rems(E)
<1>1. PICK after : OnePayment(E, p, rem, after)
  BY AppliedSteps
<1>2. Len(E) \in 0 .. Len(E)
  OBVIOUS
<1>3. after[Len(E)] \in States(E) /\ Ledger!Applied(E, p, rem) = after[Len(E)].rem
  BY <1>1, <1>2 DEF OnePayment
<1>4. QED
  BY <1>3 DEF States

\* The payments go over the splits from the oldest to the newest.
Part(P, u, j) == j \in Ledger!Replayed(P) /\ u \in {P[j].payer, P[j].receiver}
AllPayments(E, P, u, after) ==
    /\ after \in [0 .. Len(P) -> Rems(E)]
    /\ after[0] = [i \in DOMAIN E |-> E[i].shares]
    /\ \A j \in 1 .. Len(P) :
          after[j] = IF Part(P, u, j) THEN Ledger!Applied(E, P[j], after[j - 1]) ELSE after[j - 1]
    /\ Ledger!Remaining(E, P, u) = after[Len(P)]

LEMMA FirstRem ==
    ASSUME NEW E \in Seq(ExpenseRow)
    PROVE  [i \in DOMAIN E |-> E[i].shares] \in Rems(E)
<1>1. \A i \in DOMAIN E : E[i].shares \in Bill
  BY ExpenseRows DEF ExpenseRow
<1>2. QED
  BY <1>1 DEF Rems

LEMMA RemainingSteps ==
    ASSUME NEW E \in Seq(ExpenseRow), NEW P \in Seq(PaymentRow), NEW u
    PROVE  \E after : AllPayments(E, P, u, after)
<1> DEFINE n == Len(P)
           Val == Rems(E)
           base == [i \in DOMAIN E |-> E[i].shares]
           Step(j, x) == IF Part(P, u, j) THEN Ledger!Applied(E, P[j], x) ELSE x
           h == [jx \in (1 .. n) \X Val |-> Step(jx[1], jx[2])]
           Rec(g) == g = [j \in 0 .. n |-> IF j = 0 THEN base ELSE Step(j, g[j - 1])]
           g == CHOOSE x : Rec(x)
<1>1. n \in Nat /\ base \in Val
  BY FirstRem
<1>2. \A j \in 1 .. n : \A x \in Val : Step(j, x) \in Val
  <2> SUFFICES ASSUME NEW j \in 1 .. n, NEW x \in Val
               PROVE  Step(j, x) \in Val
    OBVIOUS
  <2>1. P[j] \in PaymentRow
    BY PaymentRows
  <2>2. Ledger!Applied(E, P[j], x) \in Val
    BY <2>1, AppliedType
  <2>3. QED
    BY <2>2
<1>3. Ledger!Remaining(E, P, u) = g[n]
  BY DEF Ledger!Remaining, Part
<1> HIDE DEF Val, base, Step
<1>4. \A j \in 1 .. n : \A x \in Val : h[<<j, x>>] = Step(j, x) /\ h[<<j, x>>] \in Val
  BY <1>2
<1> HIDE DEF h
<1>5. PICK f : Steps(f, n, base, h, Val)
  BY <1>1, <1>4, StepsExist
<1>6. f \in [0 .. n -> Val] /\ f[0] = base /\ \A j \in 1 .. n : f[j] = Step(j, f[j - 1])
  <2>1. f \in [0 .. n -> Val] /\ f[0] = base /\ \A j \in 1 .. n : f[j] = h[<<j, f[j - 1]>>]
    BY <1>5 DEF Steps
  <2>2. \A j \in 1 .. n : f[j - 1] \in Val
    BY <1>1, <2>1
  <2>3. QED
    BY <1>4, <2>1, <2>2
<1>7. Rec(f)
  BY <1>1, <1>6
<1>8. Rec(g)
  <2>1. (\E x : Rec(x)) => Rec(CHOOSE x : Rec(x))
    <3> HIDE DEF Rec
    <3>1. QED
      OBVIOUS
  <2>2. QED
    BY <1>7, <2>1
<1> HIDE DEF g
<1>9. g = f
  <2>1. g = [j \in 0 .. n |-> IF j = 0 THEN base ELSE Step(j, g[j - 1])]
    BY <1>8
  <2>2. DOMAIN g = 0 .. n /\ g[0] = base
    BY <1>1, <2>1
  <2>3. ASSUME NEW j \in 1 .. n
        PROVE  g[j] = Step(j, g[j - 1])
    <3>1. j \in 0 .. n /\ j # 0
      BY <1>1
    <3>2. QED
      BY <2>1, <3>1
  <2>4. \A j \in 1 .. n : g[j - 1] \in Val => g[j] = h[<<j, g[j - 1]>>]
    BY <1>4, <2>3
  <2>5. g = [j \in 0 .. n |-> g[j]]
    BY <2>1
  <2>6. Recurses(g, n, base, h, Val)
    BY <2>2, <2>4, <2>5 DEF Recurses
  <2>7. QED
    BY <1>1, <1>5, <2>6, StepsUnique
<1>10. AllPayments(E, P, u, f)
  BY <1>1, <1>3, <1>6, <1>9 DEF AllPayments, Step, base, Val
<1>11. QED
  BY <1>10

\* The confirmed payments of two users, up to one.
Exchanged(P, u, v, j) ==
    {k \in Ledger!Replayed(P) : {P[k].payer, P[k].receiver} = {u, v} /\ k <= j}

LEMMA ExchangedType ==
    ASSUME NEW P \in Seq(PaymentRow), NEW u, NEW v, NEW j
    PROVE  /\ Exchanged(P, u, v, j) \in SUBSET DOMAIN P /\ IsFiniteSet(Exchanged(P, u, v, j))
           /\ SumFunctionOnSet(AmountOf(P), Exchanged(P, u, v, j)) \in Int
<1> DEFINE X == Exchanged(P, u, v, j)
<1>1. X \in SUBSET DOMAIN P
  BY DEF Exchanged, Ledger!Replayed
<1>2. IsFiniteSet(X)
  BY <1>1, PaymentRows, FS_Subset
<1>3. \A k \in X : AmountOf(P)[k] \in Int
  BY <1>1, PaymentRows
<1> HIDE DEF X
<1>4. SumFunctionOnSet(AmountOf(P), X) \in Int
  BY <1>2, <1>3, SumType
<1>5. QED
  BY <1>1, <1>2, <1>4 DEF X

\* What is left of the splits of two users after some payments.
Reached(E, P, u, v, j, rem) ==
    /\ InOrder(E, u, v, rem)
    /\ GoneSum(E, u, v, rem) <= SumFunctionOnSet(AmountOf(P), Exchanged(P, u, v, j))

LEMMA ReachedFirst ==
    ASSUME NEW E \in Seq(ExpenseRow), NEW P \in Seq(PaymentRow), NEW u, NEW v, u # v
    PROVE  Reached(E, P, u, v, 0, [i \in DOMAIN E |-> E[i].shares])
<1> DEFINE rem == [i \in DOMAIN E |-> E[i].shares]
           C == Common(E, u, v)
           g == Gone(E, u, v, rem)
<1>1. C \in SUBSET DOMAIN E /\ IsFiniteSet(C) /\ \A i \in DOMAIN E : Owes(E, u, v)[i] \in Nat
  BY CommonType
<1>2. \A i \in DOMAIN E : Still(E, u, v, rem)[i] = Owes(E, u, v)[i]
  BY DEF Still, Owes, Ledger!ShareOf
<1>3. \A i \in C : g[i] = 0
  BY <1>1, <1>2 DEF Gone
<1>4. InOrder(E, u, v, rem)
  BY <1>1, <1>2 DEF InOrder
<1>5. GoneSum(E, u, v, rem) = 0
  <2> HIDE DEF g, C
  <2>1. SumFunctionOnSet(g, C) = 0
    BY <1>1, <1>3, SumZero
  <2>2. QED
    BY <2>1 DEF GoneSum, g, C
<1>6. Exchanged(P, u, v, 0) = {}
  <2>1. \A k \in DOMAIN P : ~(k <= 0)
    OBVIOUS
  <2>2. QED
    BY <2>1 DEF Exchanged, Ledger!Replayed
<1>7. SumFunctionOnSet(AmountOf(P), Exchanged(P, u, v, 0)) = 0
  BY <1>6, SumEmpty
<1>8. QED
  BY <1>4, <1>5, <1>7 DEF Reached

LEMMA SameStill ==
    ASSUME NEW E \in Seq(ExpenseRow), NEW u, NEW v, u # v, NEW rem \in Rems(E), NEW r \in Rems(E),
           \A i \in Common(E, u, v) : Still(E, u, v, r)[i] = Still(E, u, v, rem)[i]
    PROVE  /\ InOrder(E, u, v, rem) => InOrder(E, u, v, r)
           /\ GoneSum(E, u, v, r) = GoneSum(E, u, v, rem)
<1> DEFINE C == Common(E, u, v)
           f == Gone(E, u, v, rem)
           g == Gone(E, u, v, r)
<1>1. C \in SUBSET DOMAIN E /\ IsFiniteSet(C)
  BY CommonType
<1>2. \A i \in DOMAIN E : f[i] = Owes(E, u, v)[i] - Still(E, u, v, rem)[i] /\ f[i] \in Int
  BY StillType
<1>3. \A i \in DOMAIN E : g[i] = Owes(E, u, v)[i] - Still(E, u, v, r)[i]
  BY StillType
<1>4. \A i \in C : f[i] \in Int /\ g[i] = f[i]
  BY <1>1, <1>2, <1>3
<1>5. InOrder(E, u, v, rem) => InOrder(E, u, v, r)
  BY DEF InOrder
<1> HIDE DEF C, f, g
<1>6. SumFunctionOnSet(g, C) = SumFunctionOnSet(f, C)
  BY <1>1, <1>4, SumEqual
<1>7. QED
  BY <1>5, <1>6 DEF GoneSum, C, f, g

LEMMA ReachedNext ==
    ASSUME NEW E \in Seq(ExpenseRow), NEW P \in Seq(PaymentRow), NEW u, NEW v, u # v,
           NEW j \in 1 .. Len(P), NEW rem \in Rems(E), Reached(E, P, u, v, j - 1, rem),
           NEW r \in Rems(E),
           r = IF Part(P, u, j) THEN Ledger!Applied(E, P[j], rem) ELSE rem
    PROVE  Reached(E, P, u, v, j, r)
<1> DEFINE f == AmountOf(P)
           X == Exchanged(P, u, v, j - 1)
           Y == Exchanged(P, u, v, j)
           x == SumFunctionOnSet(f, X)
           y == SumFunctionOnSet(f, Y)
           c == GoneSum(E, u, v, rem)
           d == GoneSum(E, u, v, r)
<1>1. /\ j \in DOMAIN P /\ DOMAIN P = 1 .. Len(P) /\ Len(P) \in Nat /\ P[j] \in PaymentRow
      /\ \A k \in DOMAIN P : f[k] = P[k].amount /\ f[k] \in Nat
  BY PaymentRows
<1>2. /\ X \in SUBSET DOMAIN P /\ Y \in SUBSET DOMAIN P /\ IsFiniteSet(X) /\ IsFiniteSet(Y)
      /\ x \in Int /\ y \in Int
  BY ExchangedType
<1>3. c \in Int /\ d \in Int /\ InOrder(E, u, v, rem) /\ c <= x
  BY GoneSumType DEF Reached
<1>4. \A k \in DOMAIN P : (k <= j - 1 <=> k <= j /\ k # j)
  BY <1>1
<1>5. CASE j \in Ledger!Replayed(P) /\ {P[j].payer, P[j].receiver} = {u, v}
  <2>1. Part(P, u, j) /\ r = Ledger!Applied(E, P[j], rem)
    BY <1>5 DEF Part
  <2>2. InOrder(E, u, v, r) /\ d <= c + P[j].amount
    <3> DEFINE p == P[j]
    <3>1. p \in PaymentRow /\ {p.payer, p.receiver} = {u, v} /\ r = Ledger!Applied(E, p, rem)
      BY <1>1, <1>5, <2>1
    <3> HIDE DEF p
    <3>2. InOrder(E, u, v, r) /\ GoneSum(E, u, v, r) <= GoneSum(E, u, v, rem) + p.amount
      BY <1>3, <3>1, OwnPayment
    <3>3. QED
      BY <3>2 DEF p
  <2>3. Y = X \cup {j} /\ j \notin X
    <3>1. j <= j /\ ~(j <= j - 1)
      BY <1>1
    <3>2. j \in Y /\ j \notin X
      BY <1>5, <3>1 DEF Exchanged
    <3>3. ASSUME NEW k
          PROVE  k \in Y <=> k \in X \cup {j}
      <4>1. CASE k = j
        BY <3>2, <4>1
      <4>2. CASE k # j /\ k \in DOMAIN P
        BY <1>4, <4>2 DEF Exchanged
      <4>3. CASE k # j /\ k \notin DOMAIN P
        BY <1>2, <4>3
      <4>4. QED
        BY <4>1, <4>2, <4>3
    <3> HIDE DEF X, Y
    <3>4. QED
      BY <3>2, <3>3
  <2>4. y = f[j] + x
    <3>1. \A k \in X \cup {j} : f[k] \in Int
      BY <1>1, <1>2
    <3> HIDE DEF X, Y, f
    <3>2. SumFunctionOnSet(f, X \cup {j}) = f[j] + SumFunctionOnSet(f, X)
      BY <1>2, <2>3, <3>1, SumAdd
    <3>3. QED
      BY <2>3, <3>2
  <2>5. f[j] = P[j].amount /\ f[j] \in Nat
    BY <1>1
  <2> HIDE DEF f, x, y, c, d
  <2>6. d <= y
    BY <1>2, <1>3, <2>2, <2>4, <2>5
  <2>7. QED
    BY <2>2, <2>6 DEF Reached, f, y, d
<1>6. CASE ~(j \in Ledger!Replayed(P) /\ {P[j].payer, P[j].receiver} = {u, v})
  <2>1. Y = X
    <3>1. j \notin Y /\ j \notin X
      BY <1>6 DEF Exchanged
    <3>2. ASSUME NEW k
          PROVE  k \in Y <=> k \in X
      <4>1. CASE k = j
        BY <3>1, <4>1
      <4>2. CASE k # j /\ k \in DOMAIN P
        BY <1>4, <4>2 DEF Exchanged
      <4>3. CASE k # j /\ k \notin DOMAIN P
        BY <1>2, <4>3
      <4>4. QED
        BY <4>1, <4>2, <4>3
    <3> HIDE DEF X, Y
    <3>3. QED
      BY <3>2
  <2>2. InOrder(E, u, v, r) /\ d = c
    <3>1. CASE Part(P, u, j)
      <4>1. r = Ledger!Applied(E, P[j], rem) /\ {P[j].payer, P[j].receiver} # {u, v}
        BY <1>6, <3>1 DEF Part
      <4>2. \A i \in Common(E, u, v) : Still(E, u, v, r)[i] = Still(E, u, v, rem)[i]
        <5> DEFINE p == P[j]
        <5>1. p \in PaymentRow /\ {p.payer, p.receiver} # {u, v} /\ r = Ledger!Applied(E, p, rem)
          BY <1>1, <4>1
        <5> HIDE DEF p
        <5>2. QED
          BY <5>1, OthersPayment
      <4>3. QED
        BY <1>3, <4>2, SameStill
    <3>2. CASE ~Part(P, u, j)
      BY <1>3, <3>2
    <3>3. QED
      BY <3>1, <3>2
  <2>3. QED
    BY <1>3, <2>1, <2>2 DEF Reached
<1>7. QED
  BY <1>5, <1>6

LEMMA RemainsInOrder ==
    ASSUME NEW E \in Seq(ExpenseRow), NEW P \in Seq(PaymentRow), NEW u, NEW v, u # v
    PROVE  /\ Ledger!Remaining(E, P, u) \in Rems(E)
           /\ Reached(E, P, u, v, Len(P), Ledger!Remaining(E, P, u))
<1>1. PICK after : AllPayments(E, P, u, after)
  BY RemainingSteps
<1> DEFINE n == Len(P)
           Bad == {m \in 0 .. n : ~Reached(E, P, u, v, m, after[m])}
<1>2. /\ n \in Nat /\ after \in [0 .. n -> Rems(E)] /\ after[0] = [i \in DOMAIN E |-> E[i].shares]
      /\ \A j \in 1 .. n :
            after[j] = IF Part(P, u, j) THEN Ledger!Applied(E, P[j], after[j - 1]) ELSE after[j - 1]
      /\ Ledger!Remaining(E, P, u) = after[n]
  BY <1>1 DEF AllPayments
<1>3. ASSUME Bad # {}
      PROVE  FALSE
  <2>1. PICK m \in Bad : \A j \in Bad : m <= j
    <3>1. Bad \in SUBSET (0 .. n) /\ Bad # {}
      BY <1>3
    <3> HIDE DEF Bad
    <3>2. QED
      BY <1>2, <3>1, Least
  <2>2. m # 0
    BY <1>2, <2>1, ReachedFirst
  <2>3. m \in 1 .. n /\ m - 1 \in 0 .. n /\ m - 1 \notin Bad
    BY <1>2, <2>1, <2>2
  <2>4. /\ Reached(E, P, u, v, m - 1, after[m - 1]) /\ ~Reached(E, P, u, v, m, after[m])
        /\ after[m - 1] \in Rems(E) /\ after[m] \in Rems(E)
        /\ after[m] = IF Part(P, u, m) THEN Ledger!Applied(E, P[m], after[m - 1]) ELSE after[m - 1]
    BY <1>2, <2>1, <2>3
  <2> HIDE DEF Bad
  <2>5. Reached(E, P, u, v, m, after[m])
    BY <2>3, <2>4, ReachedNext
  <2>6. QED
    BY <2>4, <2>5
<1>4. n \in 0 .. n
  BY <1>2
<1>5. QED
  BY <1>2, <1>3, <1>4

\* Terms that are not negative only add.
LEMMA SumWithin ==
    ASSUME NEW S, IsFiniteSet(S), NEW T \in SUBSET S, NEW f, \A x \in S : f[x] \in Int /\ f[x] >= 0
    PROVE  /\ SumFunctionOnSet(f, T) <= SumFunctionOnSet(f, S) /\ 0 <= SumFunctionOnSet(f, T)
           /\ SumFunctionOnSet(f, T) \in Int /\ SumFunctionOnSet(f, S) \in Int
<1> DEFINE R == S \ T
           z == [x \in S |-> 0]
<1>1. IsFiniteSet(T) /\ IsFiniteSet(R) /\ T \cap R = {} /\ T \cup R = S
  BY FS_Subset
<1>2. /\ \A x \in T : z[x] = 0 /\ z[x] \in Int /\ f[x] \in Int /\ z[x] <= f[x]
      /\ \A x \in R : z[x] = 0 /\ z[x] \in Int /\ f[x] \in Int /\ z[x] <= f[x]
  BY <1>1
<1>3. \A x \in T \cup R : f[x] \in Int
  BY <1>2
<1> HIDE DEF R, z
<1>4. SumFunctionOnSet(f, T \cup R) = SumFunctionOnSet(f, T) + SumFunctionOnSet(f, R)
  BY <1>1, <1>3, SumUnion
<1>5. SumFunctionOnSet(z, T) = 0 /\ SumFunctionOnSet(z, T) <= SumFunctionOnSet(f, T)
  BY <1>1, <1>2, SumZero, SumMono
<1>6. SumFunctionOnSet(z, R) = 0 /\ SumFunctionOnSet(z, R) <= SumFunctionOnSet(f, R)
  BY <1>1, <1>2, SumZero, SumMono
<1>7. SumFunctionOnSet(f, T) \in Int /\ SumFunctionOnSet(f, R) \in Int
  BY <1>1, <1>2, SumType
<1>8. SumFunctionOnSet(f, S) = SumFunctionOnSet(f, T \cup R)
  BY <1>1, Zenon
<1>9. QED
  BY <1>4, <1>5, <1>6, <1>7, <1>8

\* What u lent to v, what u gave v, and what the two owe of their expenses up to i.
Lending(E, u, v) == SumFunctionOnSet(ShareTo(E, v), PaidBy(E, u))
Giving(P, u, v) == SumFunctionOnSet(AmountOf(P), Between(P, u, v))
Early(E, u, v, i) == {k \in Common(E, u, v) : k <= i}
UpTo(E, u, v, i) == SumFunctionOnSet(Owes(E, u, v), Early(E, u, v, i))

LEMMA PairwiseIs ==
    ASSUME NEW E \in Seq(ExpenseRow), NEW P \in Seq(PaymentRow), NEW u, NEW v
    PROVE  /\ Ledger!Pairwise(E, P, u, v) =
                Lending(E, u, v) - Lending(E, v, u) + Giving(P, u, v) - Giving(P, v, u)
           /\ Lending(E, u, v) \in Nat /\ Lending(E, v, u) \in Nat
           /\ Giving(P, u, v) \in Nat /\ Giving(P, v, u) \in Nat
<1>1. ASSUME NEW a, NEW b
      PROVE  Lending(E, a, b) \in Nat
  <2> DEFINE f == ShareTo(E, b)
             S == PaidBy(E, a)
  <2>1. S \in SUBSET DOMAIN E /\ IsFiniteSet(DOMAIN E)
    BY ExpenseRows DEF PaidBy, Ledger!Live
  <2>2. IsFiniteSet(S)
    BY <2>1, FS_Subset
  <2>3. \A x \in S : f[x] \in Int /\ f[x] >= 0
    BY <2>1, ExpenseRows
  <2> HIDE DEF f, S
  <2>4. 0 <= SumFunctionOnSet(f, S) /\ SumFunctionOnSet(f, S) \in Int
    BY <2>2, <2>3, SumWithin
  <2>5. QED
    BY <2>4 DEF Lending, f, S
<1>2. ASSUME NEW a, NEW b
      PROVE  Giving(P, a, b) \in Nat
  <2> DEFINE f == AmountOf(P)
             S == Between(P, a, b)
  <2>1. S \in SUBSET DOMAIN P /\ IsFiniteSet(DOMAIN P)
    BY PaymentRows DEF Between, Ledger!Counted
  <2>2. IsFiniteSet(S)
    BY <2>1, FS_Subset
  <2>3. \A x \in S : f[x] \in Int /\ f[x] >= 0
    BY <2>1, PaymentRows
  <2> HIDE DEF f, S
  <2>4. 0 <= SumFunctionOnSet(f, S) /\ SumFunctionOnSet(f, S) \in Int
    BY <2>2, <2>3, SumWithin
  <2>5. QED
    BY <2>4 DEF Giving, f, S
<1>3. Ledger!Pairwise(E, P, u, v) =
         Lending(E, u, v) - Lending(E, v, u) + Giving(P, u, v) - Giving(P, v, u)
  BY PairSums DEF Lending, Giving
<1>4. QED
  BY <1>1, <1>2, <1>3

\* Nobody paid back more than they were lent; and if v owes u, the payments of the
\* two, oldest expense first, end before some expense of u that v has a share in.
Backed(E, P, u, v) ==
    /\ Giving(P, u, v) <= Lending(E, v, u)
    /\ Ledger!Pairwise(E, P, u, v) > 0 =>
          \E i \in Common(E, u, v) :
             /\ E[i].payer = u /\ Owes(E, u, v)[i] > 0
             /\ Giving(P, u, v) + Giving(P, v, u) + Ledger!Pairwise(E, P, u, v) <= UpTo(E, u, v, i)

LEMMA ExchangedIsGiven ==
    ASSUME NEW P \in Seq(PaymentRow), NEW u, NEW v, u # v
    PROVE  SumFunctionOnSet(AmountOf(P), Exchanged(P, u, v, Len(P))) <= Giving(P, u, v) + Giving(P, v, u)
<1> DEFINE f == AmountOf(P)
           A == Between(P, u, v)
           B == Between(P, v, u)
           X == Exchanged(P, u, v, Len(P))
<1>1. A \in SUBSET DOMAIN P /\ B \in SUBSET DOMAIN P /\ IsFiniteSet(DOMAIN P)
  BY PaymentRows DEF Between, Ledger!Counted
<1>2. IsFiniteSet(A) /\ IsFiniteSet(B) /\ A \cup B \in SUBSET DOMAIN P
  BY <1>1, FS_Subset
<1>3. IsFiniteSet(A \cup B)
  BY <1>1, <1>2, FS_Subset
<1>4. A \cap B = {}
  BY DEF Between
<1>5. X \in SUBSET (A \cup B)
  <2> SUFFICES ASSUME NEW k \in X
               PROVE  k \in A \cup B
    OBVIOUS
  <2>1. k \in Ledger!Counted(P) /\ {P[k].payer, P[k].receiver} = {u, v}
    BY DEF Exchanged, Ledger!Replayed, Ledger!Counted
  <2>2. (P[k].payer = u /\ P[k].receiver = v) \/ (P[k].payer = v /\ P[k].receiver = u)
    BY <2>1
  <2>3. QED
    BY <2>1, <2>2 DEF Between
<1>6. \A k \in A \cup B : f[k] \in Int /\ f[k] >= 0
  BY <1>2, PaymentRows
<1>7. Giving(P, u, v) = SumFunctionOnSet(f, A) /\ Giving(P, v, u) = SumFunctionOnSet(f, B)
  BY DEF Giving
<1> HIDE DEF A, B, X, f
<1>8. SumFunctionOnSet(f, X) <= SumFunctionOnSet(f, A \cup B)
  BY <1>3, <1>5, <1>6, SumWithin
<1>9. SumFunctionOnSet(f, A \cup B) = SumFunctionOnSet(f, A) + SumFunctionOnSet(f, B)
  <2>1. \A k \in A \cup B : f[k] \in Int
    BY <1>6
  <2>2. QED
    BY <1>2, <1>4, <2>1, SumUnion
<1>10. SumFunctionOnSet(f, X) <= Giving(P, u, v) + Giving(P, v, u)
  BY <1>7, <1>8, <1>9
<1>11. QED
  BY <1>10 DEF f, X

\* Then the replay leaves something of that expense.
LEMMA BackedIsListed ==
    ASSUME NEW E \in Seq(ExpenseRow), NEW P \in Seq(PaymentRow), NEW u \in Members, NEW v \in Members,
           u # v, Backed(E, P, u, v), Ledger!Pairwise(E, P, u, v) > 0
    PROVE  \E entry \in Ledger!OwedToMe(E, P, u) : entry[2] = v
<1> DEFINE C == Common(E, u, v)
           r == Ledger!Remaining(E, P, u)
           g == Gone(E, u, v, r)
           ow == Owes(E, u, v)
           a == Still(E, u, v, r)
           given == Giving(P, u, v) + Giving(P, v, u)
<1>1. PICK i \in C : /\ E[i].payer = u /\ ow[i] > 0
                     /\ given + Ledger!Pairwise(E, P, u, v) <= UpTo(E, u, v, i)
  BY DEF Backed
<1>2. /\ C \in SUBSET DOMAIN E /\ IsFiniteSet(C) /\ DOMAIN E = 1 .. Len(E) /\ Len(E) \in Nat
      /\ \A k \in DOMAIN E : ow[k] \in Nat
  BY CommonType
<1>3. r \in Rems(E) /\ Reached(E, P, u, v, Len(P), r)
  BY RemainsInOrder
<1>4. \A k \in DOMAIN E : a[k] \in Nat /\ g[k] = ow[k] - a[k] /\ g[k] \in Int
  BY <1>3, StillType
<1>5. i \in DOMAIN E /\ i \in Ledger!Live(E) /\ E[i].payer = u /\ Other(E[i], u, v) = v
  BY <1>1, <1>2 DEF Common, Other
<1>6. v \in DOMAIN E[i].shares /\ r[i][v] \in Nat /\ a[i] = r[i][v]
  <2>1. ow[i] = Ledger!ShareOf(v, E[i])
    BY <1>5 DEF Owes
  <2>2. v \in DOMAIN E[i].shares
    BY <1>1, <2>1 DEF Ledger!ShareOf
  <2>3. QED
    BY <1>3, <1>4, <1>5, <2>2, StillType
<1>7. ASSUME a[i] = 0
      PROVE  FALSE
  <2> DEFINE S == Early(E, u, v, i)
  <2>1. /\ \A l \in C : a[l] <= ow[l] /\ (a[l] < ow[l] => \A k \in C : k < l => a[k] = 0)
        /\ GoneSum(E, u, v, r) <= SumFunctionOnSet(AmountOf(P), Exchanged(P, u, v, Len(P)))
    BY <1>3 DEF Reached, InOrder
  <2>2. \A k \in C : g[k] \in Int /\ g[k] >= 0
    BY <1>2, <1>4, <2>1
  <2>3. S \in SUBSET C
    BY DEF Early
  <2>4. \A k \in S : ow[k] = g[k] /\ g[k] \in Int
    <3> SUFFICES ASSUME NEW k \in S
                 PROVE  ow[k] = g[k] /\ g[k] \in Int
      OBVIOUS
    <3>1. k \in C /\ k <= i /\ k \in Nat /\ i \in Nat /\ k \in DOMAIN E
      BY <1>2, <1>5 DEF Early
    <3>2. a[k] = 0
      <4>1. k = i \/ k < i
        BY <3>1
      <4>2. a[i] < ow[i]
        BY <1>1, <1>7
      <4>3. QED
        BY <1>1, <1>7, <2>1, <3>1, <4>1, <4>2
    <3>3. QED
      BY <1>2, <1>4, <3>1, <3>2
  <2>5. IsFiniteSet(S)
    BY <1>2, <2>3, FS_Subset
  <2> HIDE DEF S, g, ow, C, a
  <2>6. SumFunctionOnSet(ow, S) = SumFunctionOnSet(g, S)
    BY <2>4, <2>5, SumEqual
  <2>7. SumFunctionOnSet(g, S) <= SumFunctionOnSet(g, C) /\ SumFunctionOnSet(g, C) \in Int /\ SumFunctionOnSet(g, S) \in Int
    BY <1>2, <2>2, <2>3, SumWithin
  <2>8. UpTo(E, u, v, i) = SumFunctionOnSet(ow, S) /\ GoneSum(E, u, v, r) = SumFunctionOnSet(g, C)
    BY DEF UpTo, GoneSum, S, ow, C, g
  <2>9. SumFunctionOnSet(AmountOf(P), Exchanged(P, u, v, Len(P))) \in Int
    BY ExchangedType
  <2>10. SumFunctionOnSet(AmountOf(P), Exchanged(P, u, v, Len(P))) <= given /\ given \in Int
    BY ExchangedIsGiven, PairwiseIs
  <2>11. Ledger!Pairwise(E, P, u, v) \in Int
    BY PairwiseIs
  <2> DEFINE x1 == UpTo(E, u, v, i)
             x2 == SumFunctionOnSet(g, C)
             x3 == SumFunctionOnSet(AmountOf(P), Exchanged(P, u, v, Len(P)))
             x4 == Ledger!Pairwise(E, P, u, v)
  <2>12. /\ x1 \in Int /\ x2 \in Int /\ x3 \in Int /\ x4 \in Int /\ given \in Int
         /\ given + x4 <= x1 /\ x1 <= x2 /\ x2 <= x3 /\ x3 <= given /\ x4 > 0
    BY <1>1, <2>1, <2>6, <2>7, <2>8, <2>9, <2>10, <2>11
  <2> HIDE DEF x1, x2, x3, x4, given
  <2>13. QED
    BY <2>12
<1>8. r[i][v] > 0
  BY <1>6, <1>7
<1>9. <<i, v>> \in Ledger!OwedToMe(E, P, u)
  BY <1>5, <1>6, <1>8 DEF Ledger!OwedToMe
<1>10. QED
  BY <1>9

\* What comes with a new row: nothing, or its value.
LEMMA SumAppended ==
    ASSUME NEW S, IsFiniteSet(S), NEW x, x \notin S, NEW T, NEW f, NEW g, NEW d \in Int,
           \A y \in S : f[y] \in Int /\ g[y] = f[y],
           (T = S /\ d = 0) \/ (T = S \cup {x} /\ g[x] = d)
    PROVE  SumFunctionOnSet(g, T) = SumFunctionOnSet(f, S) + d
<1>1. SumFunctionOnSet(g, S) = SumFunctionOnSet(f, S)
  BY SumEqual
<1>2. SumFunctionOnSet(f, S) \in Int
  BY SumType
<1>3. CASE T = S /\ d = 0
  BY <1>1, <1>2, <1>3
<1>4. CASE T = S \cup {x} /\ g[x] = d
  <2>1. \A y \in S \cup {x} : g[y] \in Int
    BY <1>4
  <2>2. SumFunctionOnSet(g, S \cup {x}) = g[x] + SumFunctionOnSet(g, S)
    BY <2>1, SumAdd
  <2>3. QED
    BY <1>1, <1>2, <1>4, <2>2
<1>5. QED
  BY <1>3, <1>4

\* A new expense: what its payer lent.
NewLoan(e, a, b) == IF e.payer = a THEN Ledger!ShareOf(b, e) ELSE 0

LEMMA LendingAppended ==
    ASSUME NEW E \in Seq(ExpenseRow), NEW e \in ExpenseRow, ~e.deleted, NEW a, NEW b
    PROVE  /\ Lending(Append(E, e), a, b) = Lending(E, a, b) + NewLoan(e, a, b)
           /\ NewLoan(e, a, b) \in Nat
<1> DEFINE F == Append(E, e)
           x == Len(E) + 1
           f == ShareTo(E, b)
           g == ShareTo(F, b)
           S == PaidBy(E, a)
           T == PaidBy(F, a)
           d == NewLoan(e, a, b)
<1>1. /\ Len(E) \in Nat /\ DOMAIN E = 1 .. Len(E) /\ DOMAIN F = 1 .. x /\ F[x] = e
      /\ \A k \in DOMAIN E : F[k] = E[k] /\ k \in DOMAIN F
      /\ x \in DOMAIN F /\ x \notin DOMAIN E
  OBVIOUS
<1>2. S \in SUBSET DOMAIN E /\ IsFiniteSet(S) /\ x \notin S
  <2>1. S \in SUBSET DOMAIN E
    BY DEF PaidBy, Ledger!Live
  <2>2. QED
    BY <1>1, <2>1, ExpenseRows, FS_Subset
<1>3. d \in Nat
  BY ShareType DEF NewLoan
<1>4. \A y \in S : f[y] \in Int /\ g[y] = f[y]
  <2> SUFFICES ASSUME NEW y \in S
               PROVE  f[y] \in Int /\ g[y] = f[y]
    OBVIOUS
  <2>1. y \in DOMAIN E
    BY <1>2
  <2>2. f[y] \in Int
    BY <2>1, ExpenseRows
  <2>3. QED
    BY <1>1, <2>1, <2>2 DEF ShareTo
<1>5. (T = S /\ d = 0) \/ (T = S \cup {x} /\ g[x] = d)
  <2>1. \A k \in DOMAIN E : k \in T <=> k \in S
    BY <1>1 DEF PaidBy, Ledger!Live
  <2>2. x \in T <=> e.payer = a
    BY <1>1 DEF PaidBy, Ledger!Live
  <2>3. T \in SUBSET (1 .. x) /\ \A k \in 1 .. x : k \in DOMAIN E \/ k = x
    BY <1>1 DEF PaidBy, Ledger!Live
  <2>4. g[x] = Ledger!ShareOf(b, e)
    BY <1>1 DEF ShareTo
  <2> HIDE DEF S, T, g
  <2>5. CASE e.payer = a
    <3>1. T = S \cup {x}
      BY <1>1, <1>2, <2>1, <2>2, <2>3, <2>5
    <3>2. QED
      BY <2>4, <2>5, <3>1 DEF NewLoan
  <2>6. CASE e.payer # a
    <3>1. T = S
      BY <1>1, <1>2, <2>1, <2>2, <2>3, <2>6
    <3>2. QED
      BY <2>6, <3>1 DEF NewLoan
  <2>7. QED
    BY <2>5, <2>6
<1> HIDE DEF S, T, f, g, d, x
<1>6. SumFunctionOnSet(g, T) = SumFunctionOnSet(f, S) + d
  BY <1>2, <1>3, <1>4, <1>5, SumAppended
<1>7. QED
  BY <1>3, <1>6 DEF Lending, S, T, f, g, d

\* All that the two owe of their expenses.
LEMMA AllUpTo ==
    ASSUME NEW E \in Seq(ExpenseRow), NEW u, NEW v, u # v
    PROVE  UpTo(E, u, v, Len(E)) = Lending(E, u, v) + Lending(E, v, u)
<1> DEFINE ow == Owes(E, u, v)
           f == ShareTo(E, v)
           g == ShareTo(E, u)
           A == PaidBy(E, u)
           B == PaidBy(E, v)
           C == Early(E, u, v, Len(E))
<1>1. /\ A \in SUBSET DOMAIN E /\ B \in SUBSET DOMAIN E /\ IsFiniteSet(A) /\ IsFiniteSet(B)
      /\ A \cap B = {} /\ C = A \cup B
  <2>1. A \in SUBSET DOMAIN E /\ B \in SUBSET DOMAIN E /\ A \cap B = {}
    BY DEF PaidBy, Ledger!Live
  <2>2. IsFiniteSet(A) /\ IsFiniteSet(B)
    BY <2>1, ExpenseRows, FS_Subset
  <2>3. \A k \in DOMAIN E : k <= Len(E)
    OBVIOUS
  <2>4. C = A \cup B
    BY <2>3 DEF Early, Common, PaidBy, Ledger!Live
  <2>5. QED
    BY <2>1, <2>2, <2>4
<1>2. \A k \in A : f[k] \in Int /\ ow[k] = f[k]
  BY <1>1, ExpenseRows DEF Owes, Other, PaidBy, ShareTo
<1>3. \A k \in B : g[k] \in Int /\ ow[k] = g[k]
  BY <1>1, ExpenseRows DEF Owes, Other, PaidBy, ShareTo
<1>4. \A k \in A \cup B : ow[k] \in Int
  BY <1>2, <1>3
<1>5. UpTo(E, u, v, Len(E)) = SumFunctionOnSet(ow, A \cup B)
  BY <1>1 DEF UpTo
<1> HIDE DEF A, B, C, f, g, ow
<1>6. SumFunctionOnSet(ow, A \cup B) = SumFunctionOnSet(ow, A) + SumFunctionOnSet(ow, B)
  BY <1>1, <1>4, SumUnion
<1>7. SumFunctionOnSet(ow, A) = SumFunctionOnSet(f, A)
  BY <1>1, <1>2, SumEqual
<1>8. SumFunctionOnSet(ow, B) = SumFunctionOnSet(g, B)
  BY <1>1, <1>3, SumEqual
<1>9. QED
  BY <1>5, <1>6, <1>7, <1>8 DEF Lending, A, B, f, g

\* The earlier expenses are what they were.
Stays(E, F, u, v, i) ==
    /\ i \in Common(F, u, v) /\ F[i] = E[i] /\ Owes(F, u, v)[i] = Owes(E, u, v)[i]
    /\ UpTo(F, u, v, i) = UpTo(E, u, v, i)

LEMMA EarlierUpTo ==
    ASSUME NEW E \in Seq(ExpenseRow), NEW e \in ExpenseRow, NEW u, NEW v, u # v,
           NEW i \in Common(E, u, v), NEW F, F = Append(E, e)
    PROVE  Stays(E, F, u, v, i)
<1> DEFINE f == Owes(E, u, v)
           g == Owes(F, u, v)
           S == Early(E, u, v, i)
           T == Early(F, u, v, i)
<1>1. /\ Len(E) \in Nat /\ DOMAIN E = 1 .. Len(E) /\ DOMAIN F = 1 .. (Len(E) + 1)
      /\ \A k \in DOMAIN E : F[k] = E[k] /\ k \in DOMAIN F
  OBVIOUS
<1>2. i \in DOMAIN E
  BY DEF Common, Ledger!Live
<1>3. \A k \in DOMAIN E : k \in Common(F, u, v) <=> k \in Common(E, u, v)
  BY <1>1 DEF Common, Ledger!Live
<1>4. \A k \in DOMAIN E : g[k] = f[k]
  BY <1>1 DEF Owes
<1>5. S \in SUBSET DOMAIN E /\ IsFiniteSet(S) /\ T = S
  <2>1. S \in SUBSET DOMAIN E /\ T \in SUBSET DOMAIN F
    BY DEF Early, Common, Ledger!Live
  <2>2. \A k \in DOMAIN F : k <= i => k \in DOMAIN E
    BY <1>1, <1>2
  <2>3. T = S
    <3>1. T \in SUBSET DOMAIN E
      BY <2>1, <2>2 DEF Early
    <3>2. \A k \in DOMAIN E : k \in T <=> k \in S
      BY <1>3 DEF Early
    <3> HIDE DEF S, T
    <3>3. QED
      BY <2>1, <3>1, <3>2
  <2>4. IsFiniteSet(S)
    BY <2>1, ExpenseRows, FS_Subset
  <2>5. QED
    BY <2>1, <2>3, <2>4
<1>6. \A k \in S : f[k] \in Int /\ g[k] = f[k]
  BY <1>4, <1>5, CommonType
<1> HIDE DEF f, g, S, T
<1>7. SumFunctionOnSet(g, S) = SumFunctionOnSet(f, S)
  BY <1>5, <1>6, SumEqual
<1>8. UpTo(F, u, v, i) = UpTo(E, u, v, i)
  BY <1>5, <1>7 DEF UpTo, f, g, S, T
<1>9. QED
  BY <1>1, <1>2, <1>3, <1>4, <1>8 DEF f, g, Stays

LEMMA CreateKeepsBacked ==
    ASSUME NEW E \in Seq(ExpenseRow), NEW P \in Seq(PaymentRow), NEW u, NEW v, u # v,
           Backed(E, P, u, v), NEW e \in ExpenseRow, ~e.deleted
    PROVE  Backed(Append(E, e), P, u, v)
<1> DEFINE F == Append(E, e)
           x == Len(E) + 1
           luv == Lending(E, u, v)
           lvu == Lending(E, v, u)
           guv == Giving(P, u, v)
           gvu == Giving(P, v, u)
           luv1 == Lending(F, u, v)
           lvu1 == Lending(F, v, u)
           duv == NewLoan(e, u, v)
           dvu == NewLoan(e, v, u)
           p == Ledger!Pairwise(E, P, u, v)
           p1 == Ledger!Pairwise(F, P, u, v)
<1>1. F \in Seq(ExpenseRow) /\ Len(F) = x /\ F[x] = e /\ x \in DOMAIN F /\ Len(E) \in Nat
  BY RowAdded
<1>2. /\ p = luv - lvu + guv - gvu /\ p1 = luv1 - lvu1 + guv - gvu
      /\ luv \in Nat /\ lvu \in Nat /\ guv \in Nat /\ gvu \in Nat
  BY <1>1, PairwiseIs
<1>3. luv1 = luv + duv /\ lvu1 = lvu + dvu /\ duv \in Nat /\ dvu \in Nat
  BY LendingAppended
<1>4. guv <= lvu
  BY DEF Backed
<1>5. guv <= lvu1
  <2> HIDE DEF luv, lvu, guv, gvu, luv1, lvu1, duv, dvu
  <2>1. QED
    BY <1>2, <1>3, <1>4
<1>8. ASSUME NEW i \in Common(E, u, v)
      PROVE  Stays(E, F, u, v, i)
  <2>1. F = Append(E, e)
    OBVIOUS
  <2> HIDE DEF F
  <2>2. QED
    BY <2>1, EarlierUpTo
<1>6. ASSUME p1 > 0
      PROVE  \E i \in Common(F, u, v) :
                F[i].payer = u /\ Owes(F, u, v)[i] > 0 /\ guv + gvu + p1 <= UpTo(F, u, v, i)
  <2>1. CASE duv > 0
    <3>1. e.payer = u /\ Ledger!ShareOf(v, e) > 0
      BY <2>1 DEF NewLoan
    <3>2. x \in Common(F, u, v) /\ F[x].payer = u /\ Owes(F, u, v)[x] > 0
      BY <1>1, <3>1 DEF Common, Owes, Other, Ledger!Live
    <3>3. UpTo(F, u, v, x) = luv1 + lvu1
      BY <1>1, AllUpTo
    <3> HIDE DEF luv, lvu, guv, gvu, luv1, lvu1, duv, dvu, p, p1
    <3>4. guv + gvu + p1 <= luv1 + lvu1
      BY <1>2, <1>3, <1>4
    <3>5. QED
      BY <3>2, <3>3, <3>4
  <2>2. CASE ~(duv > 0)
    <3>1. p > 0 /\ p1 <= p
      <4> HIDE DEF luv, lvu, guv, gvu, luv1, lvu1, duv, dvu, p, p1
      <4>1. QED
        BY <1>2, <1>3, <1>6, <2>2
    <3>2. PICK i \in Common(E, u, v) :
             E[i].payer = u /\ Owes(E, u, v)[i] > 0 /\ guv + gvu + p <= UpTo(E, u, v, i)
      BY <3>1 DEF Backed
    <3>3. /\ i \in Common(F, u, v) /\ F[i] = E[i] /\ Owes(F, u, v)[i] = Owes(E, u, v)[i]
          /\ UpTo(F, u, v, i) = UpTo(E, u, v, i)
      BY <1>8, <3>2 DEF Stays
    <3>4. UpTo(E, u, v, i) \in Int
      <4> DEFINE S == Early(E, u, v, i)
                 f == Owes(E, u, v)
      <4>1. S \in SUBSET DOMAIN E /\ IsFiniteSet(DOMAIN E)
        BY ExpenseRows DEF Early, Common, Ledger!Live
      <4>2. IsFiniteSet(S) /\ \A k \in S : f[k] \in Int
        BY <4>1, FS_Subset, CommonType
      <4> HIDE DEF S, f
      <4>3. SumFunctionOnSet(f, S) \in Int
        BY <4>2, SumType
      <4>4. QED
        BY <4>3 DEF UpTo, f, S
    <3> DEFINE y == UpTo(E, u, v, i)
    <3> HIDE DEF luv, lvu, guv, gvu, luv1, lvu1, duv, dvu, p, p1, y
    <3>5. y \in Int /\ guv + gvu + p <= y
      BY <3>2, <3>4 DEF y
    <3>6. guv + gvu + p1 <= y
      BY <1>2, <1>3, <3>1, <3>5
    <3>7. QED
      BY <3>2, <3>3, <3>6 DEF y
  <2>3. QED
    BY <2>1, <2>2
<1>7. QED
  BY <1>5, <1>6 DEF Backed

\* A new payment: what its payer gave.
NewGift(p, a, b) == IF p.payer = a /\ p.receiver = b THEN p.amount ELSE 0

LEMMA GivingAppended ==
    ASSUME NEW P \in Seq(PaymentRow), NEW p \in PaymentRow, p.status # "disputed", NEW a, NEW b
    PROVE  /\ Giving(Append(P, p), a, b) = Giving(P, a, b) + NewGift(p, a, b)
           /\ NewGift(p, a, b) \in Nat
<1> DEFINE Q == Append(P, p)
           x == Len(P) + 1
           f == AmountOf(P)
           g == AmountOf(Q)
           S == Between(P, a, b)
           T == Between(Q, a, b)
           d == NewGift(p, a, b)
<1>1. /\ Len(P) \in Nat /\ DOMAIN P = 1 .. Len(P) /\ DOMAIN Q = 1 .. x /\ Q[x] = p
      /\ \A k \in DOMAIN P : Q[k] = P[k] /\ k \in DOMAIN Q
      /\ x \in DOMAIN Q /\ x \notin DOMAIN P
  OBVIOUS
<1>2. S \in SUBSET DOMAIN P /\ IsFiniteSet(S) /\ x \notin S
  <2>1. S \in SUBSET DOMAIN P
    BY DEF Between, Ledger!Counted
  <2>2. QED
    BY <1>1, <2>1, PaymentRows, FS_Subset
<1>3. d \in Nat
  BY DEF NewGift, PaymentRow
<1>4. \A y \in S : f[y] \in Int /\ g[y] = f[y]
  <2> SUFFICES ASSUME NEW y \in S
               PROVE  f[y] \in Int /\ g[y] = f[y]
    OBVIOUS
  <2>1. y \in DOMAIN P
    BY <1>2
  <2>2. f[y] \in Int
    BY <2>1, PaymentRows
  <2>3. QED
    BY <1>1, <2>1, <2>2 DEF AmountOf
<1>5. (T = S /\ d = 0) \/ (T = S \cup {x} /\ g[x] = d)
  <2>1. \A k \in DOMAIN P : k \in T <=> k \in S
    BY <1>1 DEF Between, Ledger!Counted
  <2>2. x \in T <=> p.payer = a /\ p.receiver = b
    BY <1>1 DEF Between, Ledger!Counted
  <2>3. T \in SUBSET (1 .. x) /\ \A k \in 1 .. x : k \in DOMAIN P \/ k = x
    BY <1>1 DEF Between, Ledger!Counted
  <2>4. g[x] = p.amount
    BY <1>1 DEF AmountOf
  <2> HIDE DEF S, T, g
  <2>5. CASE p.payer = a /\ p.receiver = b
    <3>1. T = S \cup {x}
      BY <1>1, <1>2, <2>1, <2>2, <2>3, <2>5
    <3>2. QED
      BY <2>4, <2>5, <3>1 DEF NewGift
  <2>6. CASE ~(p.payer = a /\ p.receiver = b)
    <3>1. T = S
      BY <1>1, <1>2, <2>1, <2>2, <2>3, <2>6
    <3>2. QED
      BY <2>6, <3>1 DEF NewGift
  <2>7. QED
    BY <2>5, <2>6
<1> HIDE DEF S, T, f, g, d, x
<1>6. SumFunctionOnSet(g, T) = SumFunctionOnSet(f, S) + d
  BY <1>2, <1>3, <1>4, <1>5, SumAppended
<1>7. QED
  BY <1>3, <1>6 DEF Giving, S, T, f, g, d

LEMMA RecordKeepsBacked ==
    ASSUME NEW E \in Seq(ExpenseRow), NEW P \in Seq(PaymentRow), NEW u, NEW v, u # v,
           Backed(E, P, u, v), Backed(E, P, v, u),
           NEW p \in PaymentRow, p.status # "disputed",
           p.amount <= Ledger!Pairwise(E, P, p.receiver, p.payer)
    PROVE  Backed(E, Append(P, p), u, v)
<1> DEFINE Q == Append(P, p)
           luv == Lending(E, u, v)
           lvu == Lending(E, v, u)
           guv == Giving(P, u, v)
           gvu == Giving(P, v, u)
           guv1 == Giving(Q, u, v)
           gvu1 == Giving(Q, v, u)
           duv == NewGift(p, u, v)
           dvu == NewGift(p, v, u)
           w == Ledger!Pairwise(E, P, u, v)
           w1 == Ledger!Pairwise(E, Q, u, v)
           z == Ledger!Pairwise(E, P, v, u)
<1>1. Q \in Seq(PaymentRow)
  BY RowAdded
<1>2. /\ w = luv - lvu + guv - gvu /\ z = lvu - luv + gvu - guv /\ w1 = luv - lvu + guv1 - gvu1
      /\ luv \in Nat /\ lvu \in Nat /\ guv \in Nat /\ gvu \in Nat
  BY <1>1, PairwiseIs
<1>3. guv1 = guv + duv /\ gvu1 = gvu + dvu /\ duv \in Nat /\ dvu \in Nat
  BY GivingAppended
<1>4. guv <= lvu /\ gvu <= luv
  BY DEF Backed
<1>5. p.amount \in Nat \ {0} /\ p.payer # p.receiver
  BY DEF PaymentRow
<1>6. \/ duv = 0 /\ dvu = 0
      \/ duv = 0 /\ dvu <= w
      \/ duv > 0 /\ duv <= z /\ dvu = 0
  <2>1. CASE p.payer = u /\ p.receiver = v
    <3>1. duv = p.amount /\ dvu = 0
      BY <1>5, <2>1 DEF NewGift
    <3>2. p.amount <= z
      BY <2>1
    <3>3. QED
      BY <1>5, <3>1, <3>2
  <2>2. CASE p.payer = v /\ p.receiver = u
    <3>1. dvu = p.amount /\ duv = 0
      BY <1>5, <2>2 DEF NewGift
    <3>2. p.amount <= w
      BY <2>2
    <3>3. QED
      BY <3>1, <3>2
  <2>3. CASE ~(p.payer = u /\ p.receiver = v) /\ ~(p.payer = v /\ p.receiver = u)
    BY <2>3 DEF NewGift
  <2>4. QED
    BY <2>1, <2>2, <2>3
<1>7. guv1 <= lvu
  <2> HIDE DEF luv, lvu, guv, gvu, guv1, gvu1, duv, dvu, w, w1, z
  <2>1. QED
    BY <1>2, <1>3, <1>4, <1>6
<1>8. ASSUME w1 > 0
      PROVE  \E i \in Common(E, u, v) :
                E[i].payer = u /\ Owes(E, u, v)[i] > 0 /\ guv1 + gvu1 + w1 <= UpTo(E, u, v, i)
  <2>1. w > 0 /\ guv1 + gvu1 + w1 = guv + gvu + w
    <3> HIDE DEF luv, lvu, guv, gvu, guv1, gvu1, duv, dvu, w, w1, z
    <3>1. QED
      BY <1>2, <1>3, <1>4, <1>6, <1>8
  <2>2. PICK i \in Common(E, u, v) :
           E[i].payer = u /\ Owes(E, u, v)[i] > 0 /\ guv + gvu + w <= UpTo(E, u, v, i)
    BY <2>1 DEF Backed
  <2> HIDE DEF luv, lvu, guv, gvu, guv1, gvu1, duv, dvu, w, w1, z
  <2>3. QED
    BY <2>1, <2>2
<1>9. QED
  BY <1>7, <1>8 DEF Backed

\* A confirmed payment counts as it did.
Confirmed(P, Q, j) ==
    /\ j \in DOMAIN P /\ P[j].status = "pending"
    /\ Q = [P EXCEPT ![j] = [@ EXCEPT !.status = "confirmed"]]

LEMMA ConfirmKeepsBacked ==
    ASSUME NEW E \in Seq(ExpenseRow), NEW P \in Seq(PaymentRow), NEW Q \in Seq(PaymentRow),
           NEW j, Confirmed(P, Q, j), NEW u, NEW v, u # v, Backed(E, P, u, v)
    PROVE  Backed(E, Q, u, v)
<1>1. /\ j \in DOMAIN P /\ P[j].status = "pending" /\ DOMAIN Q = DOMAIN P
      /\ \A k \in DOMAIN P \ {j} : Q[k] = P[k]
      /\ Q[j] = [P[j] EXCEPT !.status = "confirmed"]
  BY DEF Confirmed
<1>2. /\ Q[j].payer = P[j].payer /\ Q[j].receiver = P[j].receiver /\ Q[j].amount = P[j].amount
      /\ Q[j].status = "confirmed"
  <2> DEFINE p == P[j]
             q == [p EXCEPT !.status = "confirmed"]
  <2>1. p \in PaymentRow
    BY <1>1, PaymentRows
  <2>2. Q[j] = q
    BY <1>1
  <2> HIDE DEF p
  <2>3. /\ q.payer = p.payer /\ q.receiver = p.receiver /\ q.amount = p.amount
        /\ q.status = "confirmed"
    BY <2>1 DEF PaymentRow
  <2>4. QED
    BY <2>2, <2>3 DEF p
<1>3. \A k \in DOMAIN P : /\ Q[k].payer = P[k].payer /\ Q[k].receiver = P[k].receiver
                          /\ Q[k].amount = P[k].amount
                          /\ Q[k].status # "disputed" <=> P[k].status # "disputed"
  BY <1>1, <1>2
<1>4. Ledger!Counted(Q) = Ledger!Counted(P)
  BY <1>1, <1>3 DEF Ledger!Counted
<1>5. AmountOf(Q) = AmountOf(P)
  BY <1>1, <1>3 DEF AmountOf
<1>6. \A a, b : Between(Q, a, b) = Between(P, a, b)
  BY <1>3, <1>4 DEF Between, Ledger!Counted
<1>7. \A a, b : Giving(Q, a, b) = Giving(P, a, b)
  BY <1>5, <1>6 DEF Giving
<1>8. Ledger!Pairwise(E, Q, u, v) = Ledger!Pairwise(E, P, u, v)
  <2>1. Ledger!Pairwise(E, Q, u, v) = Lending(E, u, v) - Lending(E, v, u) + Giving(Q, u, v) - Giving(Q, v, u)
    BY PairwiseIs
  <2>2. Ledger!Pairwise(E, P, u, v) = Lending(E, u, v) - Lending(E, v, u) + Giving(P, u, v) - Giving(P, v, u)
    BY PairwiseIs
  <2>3. QED
    BY <1>7, <2>1, <2>2
<1>9. QED
  BY <1>7, <1>8 DEF Backed

\* As long as nothing was undone, what anybody owes is in some expense.
OwedInv ==
    ~undone => /\ purging = "none"
               /\ \A u, v \in Members : u # v => Backed(expenses, payments, u, v)

LEMMA NothingIsBacked ==
    ASSUME NEW E, E = <<>>, NEW P, P = <<>>, NEW u \in Members, NEW v \in Members, u # v
    PROVE  Backed(E, P, u, v)
<1>1. E \in Seq(ExpenseRow) /\ P \in Seq(PaymentRow)
  OBVIOUS
<1>2. \A a : PaidBy(E, a) = {}
  BY DEF PaidBy, Ledger!Live
<1>3. \A a, b : Between(P, a, b) = {}
  BY DEF Between, Ledger!Counted
<1>4. \A a, b : Lending(E, a, b) = 0 /\ Giving(P, a, b) = 0
  BY <1>2, <1>3, SumEmpty DEF Lending, Giving
<1>5. Ledger!Pairwise(E, P, u, v) = 0
  <2>1. Ledger!Pairwise(E, P, u, v) = Lending(E, u, v) - Lending(E, v, u) + Giving(P, u, v) - Giving(P, v, u)
    BY <1>1, PairwiseIs
  <2>2. QED
    BY <1>4, <2>1
<1>6. QED
  BY <1>4, <1>5 DEF Backed

LEMMA PendingIsNat ==
    ASSUME RowsFine, NEW u, NEW v
    PROVE  Ledger!Pending(u, v) \in Int /\ Ledger!Pending(u, v) >= 0
<1> DEFINE P == payments
           S == {j \in Ledger!Counted(P) : P[j].payer = u /\ P[j].receiver = v /\ P[j].status = "pending"}
           f == AmountOf(P)
           g == [j \in S |-> P[j].amount]
<1>1. P \in Seq(PaymentRow)
  BY DEF RowsFine
<1>2. S \in SUBSET DOMAIN P
  BY DEF Ledger!Counted
<1>3. Ledger!Pending(u, v) = Ledger!SumFunction(g)
  BY DEF Ledger!Pending, Ledger!TotalOf
<1> HIDE DEF P
<1>4. Ledger!SumFunction(g) = SumFunctionOnSet(f, S)
  BY <1>1, <1>2, PaymentSums
<1>5. IsFiniteSet(S) /\ \A j \in S : f[j] \in Int /\ f[j] >= 0
  BY <1>1, <1>2, PaymentRows, FS_Subset
<1> HIDE DEF S, f, g
<1>6. 0 <= SumFunctionOnSet(f, S) /\ SumFunctionOnSet(f, S) \in Int
  BY <1>5, SumWithin
<1>7. QED
  BY <1>3, <1>4, <1>6

LEMMA SameOwed ==
    ASSUME OwedInv, UNCHANGED <<expenses, payments, purging, undone>>
    PROVE  OwedInv'
BY DEF OwedInv

LEMMA WritesKeepOwedInv ==
    ASSUME RowsFine, RowsFine', OwedInv, Ledger!Write
    PROVE  OwedInv'
<1>1. CASE undone'
  BY <1>1 DEF OwedInv
<1>2. CASE ~undone'
  <2>1. CASE \E u \in Members, bill \in Bills : Ledger!CreateExpense(u, bill)
    <3>1. PICK u \in Members, bill \in Bills : Ledger!CreateExpense(u, bill)
      BY <2>1
    <3> DEFINE r == [payer |-> u, shares |-> bill, deleted |-> FALSE]
    <3>2. r \in ExpenseRow /\ ~r.deleted
      BY BillIsFine DEF ExpenseRow
    <3>3. expenses' = Append(expenses, r) /\ UNCHANGED <<payments, purging, undone>>
      BY <3>1 DEF Ledger!CreateExpense
    <3>4. expenses \in Seq(ExpenseRow) /\ payments \in Seq(PaymentRow)
      BY DEF RowsFine
    <3> HIDE DEF r
    <3>5. ASSUME NEW a \in Members, NEW b \in Members, a # b, Backed(expenses, payments, a, b)
          PROVE  Backed(Append(expenses, r), payments, a, b)
      BY <3>2, <3>4, <3>5, CreateKeepsBacked
    <3>6. QED
      BY <1>2, <3>3, <3>5 DEF OwedInv
  <2>2. CASE \E u \in Members, bill \in Bills, i \in DOMAIN expenses : Ledger!EditExpense(i, u, bill)
    BY <1>2, <2>2 DEF Ledger!EditExpense
  <2>3. CASE \E i \in DOMAIN expenses : Ledger!DeleteOrRestore(i)
    BY <1>2, <2>3 DEF Ledger!DeleteOrRestore
  <2>4. CASE \E u, v \in Members, a \in Amounts : u # v /\ Ledger!RecordPayment(u, v, a)
    <3>1. PICK u \in Members, v \in Members, a \in Amounts : u # v /\ Ledger!RecordPayment(u, v, a)
      BY <2>4
    <3> DEFINE r == [payer |-> u, receiver |-> v, amount |-> a, status |-> "pending"]
    <3>2. r \in PaymentRow /\ r.status # "disputed" /\ a \in Nat
      BY <3>1, RowsAssumption DEF PaymentRow
    <3>3. /\ payments' = Append(payments, r) /\ UNCHANGED <<expenses, purging, undone>>
          /\ a + Ledger!Pending(u, v) <= Ledger!Pairwise(expenses, payments, v, u)
      BY <3>1 DEF Ledger!RecordPayment, Ledger!Recordable
    <3>4. expenses \in Seq(ExpenseRow) /\ payments \in Seq(PaymentRow)
      BY DEF RowsFine
    <3>5. r.amount <= Ledger!Pairwise(expenses, payments, r.receiver, r.payer)
      <4> DEFINE x == Ledger!Pairwise(expenses, payments, v, u)
                 y == Ledger!Pending(u, v)
      <4>1. x \in Int
        <5>1. /\ x = Lending(expenses, v, u) - Lending(expenses, u, v)
                        + Giving(payments, v, u) - Giving(payments, u, v)
              /\ Lending(expenses, v, u) \in Nat /\ Lending(expenses, u, v) \in Nat
              /\ Giving(payments, v, u) \in Nat /\ Giving(payments, u, v) \in Nat
          BY <3>4, PairwiseIs
        <5> HIDE DEF x
        <5>2. QED
          BY <5>1
      <4>2. y \in Int /\ y >= 0
        BY PendingIsNat
      <4> HIDE DEF x, y
      <4>3. a <= x
        BY <3>2, <3>3, <4>1, <4>2 DEF x, y
      <4>4. QED
        BY <4>3 DEF x
    <3> HIDE DEF r
    <3>6. ASSUME NEW b \in Members, NEW c \in Members, b # c,
                 Backed(expenses, payments, b, c), Backed(expenses, payments, c, b)
          PROVE  Backed(expenses, Append(payments, r), b, c)
      BY <3>2, <3>4, <3>5, <3>6, RecordKeepsBacked
    <3>7. QED
      BY <1>2, <3>3, <3>6 DEF OwedInv
  <2>5. CASE \E j \in DOMAIN payments, a \in {"confirmed", "disputed"} : Ledger!AnswerPayment(j, a)
    <3>1. PICK j \in DOMAIN payments, a \in {"confirmed", "disputed"} : Ledger!AnswerPayment(j, a)
      BY <2>5
    <3>2. /\ payments' = [payments EXCEPT ![j] = [@ EXCEPT !.status = a]] /\ payments[j].status = "pending"
          /\ UNCHANGED <<expenses, purging>> /\ a = "confirmed" /\ ~undone
      BY <1>2, <3>1 DEF Ledger!AnswerPayment
    <3>3. expenses \in Seq(ExpenseRow) /\ payments \in Seq(PaymentRow) /\ payments' \in Seq(PaymentRow)
      BY DEF RowsFine
    <3>4. ASSUME NEW b \in Members, NEW c \in Members, b # c, Backed(expenses, payments, b, c)
          PROVE  Backed(expenses, payments', b, c)
      <4>1. Confirmed(payments, payments', j)
        BY <3>1, <3>2 DEF Confirmed
      <4>2. QED
        BY <3>3, <3>4, <4>1, ConfirmKeepsBacked
    <3>5. QED
      BY <1>2, <3>2, <3>4 DEF OwedInv
  <2>6. CASE \E u \in Members : Ledger!LeaveGroup(u) \/ Ledger!PurgeMemberships(u)
    <3>1. UNCHANGED <<expenses, payments, purging, undone>>
      BY <1>2, <2>6 DEF Ledger!LeaveGroup, Ledger!PurgeMemberships
    <3>2. QED
      BY <3>1, SameOwed
  <2>7. CASE Ledger!PurgeExpenses
    <3>1. undone' = undone /\ purging = "expenses"
      BY <2>7 DEF Ledger!PurgeExpenses
    <3>2. QED
      BY <1>2, <3>1 DEF OwedInv
  <2>8. QED
    BY <2>1, <2>2, <2>3, <2>4, <2>5, <2>6, <2>7 DEF Ledger!Write
<1>3. QED
  BY <1>1, <1>2

LEMMA ReadsKeepOwedInv ==
    ASSUME OwedInv, Ledger!Read
    PROVE  OwedInv'
<1>1. UNCHANGED <<expenses, payments, purging, undone>>
  BY DEF Ledger!Read, Ledger!ReadMembers, Ledger!ReadExpenses, Ledger!ReadSplits, Ledger!ReadPaid,
         Ledger!ReadReceived, Ledger!ReadMembersAgain, Ledger!Query, Ledger!rows
<1>2. QED
  BY <1>1, SameOwed

LEMMA NoRowsAreOwed ==
    ASSUME expenses = <<>>, payments = <<>>, purging = "none"
    PROVE  OwedInv
BY NothingIsBacked DEF OwedInv

LEMMA OwedInvLists == RowsFine /\ OwedInv => OwedIsListed
<1> SUFFICES ASSUME RowsFine, OwedInv, ~undone, NEW u \in Members, NEW v \in Members, u # v,
                    Ledger!Pairwise(expenses, payments, u, v) > 0
             PROVE  \E entry \in Ledger!OwedToMe(expenses, payments, u) : entry[2] = v
  BY DEF OwedIsListed, Ledger!OwedIsListed
<1>1. expenses \in Seq(ExpenseRow) /\ payments \in Seq(PaymentRow) /\ Backed(expenses, payments, u, v)
  BY DEF RowsFine, OwedInv
<1>2. QED
  BY <1>1, BackedIsListed

-------------------------------------------------------------------------------
(* The whole specification.                                                 *)

\* Whatever a behaviour starts with: the simplification, the computation of
\* shares and the reader of balances have each their part of it.
Inv ==
    /\ CashInv /\ SplitInv /\ LedgerInv /\ OwedInv
    /\ step # "none" => Fresh
    /\ step \notin {"none", "group"} => view = Ledger!NoView

LEMMA LedgerStartIsFine ==
    expenses = <<>> /\ payments = <<>> /\ members = Members /\ view = Ledger!NoView => LedgerInv
BY DEF LedgerInv, RowsFine

LEMMA InitIsFine == DebtsInit => Inv
<1> SUFFICES ASSUME DebtsInit
             PROVE  Inv
  OBVIOUS
<1>1. Fresh
  BY NumbersAssumption DEF DebtsInit, AnyBalances, AnExpense, AGroup, Even, Balances, Fresh
<1>2. view = Ledger!NoView /\ LedgerInv /\ OwedInv
  BY LedgerStartIsFine, NoRowsAreOwed DEF DebtsInit, Ledger!Init
<1>3. SplitInv
  BY DEF DebtsInit, AnyBalances, AnExpense, AGroup, Splits!Init, SplitInv
<1>4. QED
  BY <1>1, <1>2, <1>3, FreshIsFine DEF Inv

LEMMA SameCash == ASSUME CashInv, UNCHANGED vars PROVE CashInv'
BY DEF vars, CashInv, TypeOK, SameSide, WithinBalances, RoomLeft, FewSuggestions, Settling,
       Queued, Creditors, Debtors, Given, Received, Paid

LEMMA SameCall ==
    ASSUME call' = call
    PROVE  Splits!Valid' = Splits!Valid /\ Splits!Adjusted(Splits!Shares)' = Splits!Adjusted(Splits!Shares)
<1>1. Splits!Valid' = Splits!Valid
  BY DEF Splits!Valid, Splits!Rows, Splits!Value, Splits!SumOfValues, Splits!EverybodyOnce
<1>2. Splits!Adjusted(Splits!Shares)' = Splits!Adjusted(Splits!Shares)
  BY DEF Splits!Adjusted, Splits!Shares, Splits!Rows, Splits!Value, Splits!SumOfValues, Splits!Due
<1>3. QED
  BY <1>1, <1>2

LEMMA SameSplits == ASSUME SplitInv, UNCHANGED splitVars PROVE SplitInv'
BY SameCall DEF splitVars, SplitInv

LEMMA SameLedger == ASSUME LedgerInv, UNCHANGED ledgerVars PROVE LedgerInv'
<1>1. UNCHANGED <<expenses, payments, members, view>>
  BY DEF ledgerVars
<1>2. RowsFine' = RowsFine /\ Now' = Now
  BY <1>1 DEF RowsFine, Now
<1>3. \A u : Seen(u)' = Seen(u)
  BY <1>1, <1>2 DEF Seen, Terms
<1>4. \A t : SumOfRead(t)' = SumOfRead(t)
  BY <1>1 DEF SumOfRead
<1>5. ViewFine' = ViewFine
  BY <1>1, <1>2, <1>3, <1>4 DEF ViewFine
<1>6. QED
  BY <1>1, <1>2, <1>5 DEF LedgerInv

LEMMA SameLedgerOwed == ASSUME OwedInv, UNCHANGED ledgerVars PROVE OwedInv'
<1>1. UNCHANGED <<expenses, payments, purging, undone>>
  BY DEF ledgerVars
<1>2. QED
  BY <1>1, SameOwed

LEMMA BalanceIsInt == ASSUME SplitInv, step = "computed", NEW u PROVE Balance(u) \in Int
<1> DEFINE f == [i \in DOMAIN owed |-> IF call.splits[i].user = u THEN owed[i] ELSE 0]
<1>1. PICK n \in Nat \ {0} : DOMAIN owed = 1 .. n /\ \A i \in 1 .. n : owed[i] \in Int
  BY Computed
<1>2. IsFiniteSet(DOMAIN owed) /\ DOMAIN f = DOMAIN owed /\ \A i \in DOMAIN owed : f[i] \in Int
  <2>1. IsFiniteSet(1 .. n)
    BY FS_Interval
  <2>2. QED
    BY <1>1, <2>1
<1> HIDE DEF f
<1>3. Splits!SumOf(f) \in Int
  BY <1>2, SplitsSum, SumType
<1>4. call.total \in Int
  BY Accepted DEF SplitInv
<1>5. QED
  BY <1>3, <1>4 DEF Balance, f

LEMMA NextIsFine == ASSUME Inv, [DebtsNext]_allVars PROVE Inv'
<1>1. CASE UNCHANGED allVars
  BY <1>1, SameCash, SameSplits, SameLedger, SameLedgerOwed DEF allVars, Inv, Fresh, splitVars, ledgerVars, vars
<1>2. CASE step = "none" /\ Next /\ UNCHANGED <<splitVars, ledgerVars>>
  <2>1. PICK p \in Users, r \in Users : Suggest(p, r)
    BY <1>2 DEF Next
  <2>2. CashInv'
    BY <2>1, RoundKeepsCashInv DEF Inv
  <2>3. SplitInv' /\ LedgerInv' /\ OwedInv'
    BY <1>2, SameSplits, SameLedger, SameLedgerOwed DEF Inv
  <2>4. step' = "none"
    BY <1>2 DEF splitVars
  <2>5. QED
    BY <2>2, <2>3, <2>4 DEF Inv
<1>3. CASE Simplify
  <2>1. /\ step' = "none" /\ net' = [u \in Users |-> Balance(u)] /\ queued' = net' /\ suggestions' = <<>>
        /\ UNCHANGED ledgerVars /\ step = "computed"
    BY <1>3 DEF Simplify, Simplified
  <2>2. Fresh'
    BY <2>1, BalanceIsInt DEF Inv, Fresh
  <2>3. CashInv' /\ SplitInv' /\ LedgerInv' /\ OwedInv'
    BY <2>1, <2>2, FreshNextIsFine, SameLedger, SameLedgerOwed DEF Inv, SplitInv
  <2>4. QED
    BY <2>1, <2>3 DEF Inv
<1>4. CASE SimplifyServed
  <2> DEFINE balances == [u \in Users |-> IF u \in members THEN view.sum[u] ELSE 0]
  <2>1. /\ step' = "none" /\ net' = balances /\ queued' = net' /\ suggestions' = <<>>
        /\ expenses' = <<>> /\ payments' = <<>> /\ members' = Members /\ view' = Ledger!NoView
        /\ purging' = "none" /\ view.step = "served"
    BY <1>4 DEF SimplifyServed, Simplified, Ledger!Served
  <2>2. /\ ViewFine /\ DOMAIN view.sum = members /\ view.sum \in SumsOfSome
    BY <2>1, NoViewStep DEF Inv, LedgerInv, ViewFine, ViewType
  <2>3. balances \in [Users -> Int]
    BY <2>2 DEF SumsOfSome
  <2>4. Fresh'
    BY <2>1, <2>3 DEF Fresh
  <2>5. LedgerInv' /\ OwedInv'
    <3>1. OwedInv'
      <4>1. \A u, v \in Members : u # v => Backed(expenses', payments', u, v)
        BY <2>1, NothingIsBacked
      <4>2. QED
        BY <2>1, <4>1 DEF OwedInv
    <3>2. QED
      BY <2>1, <3>1 DEF LedgerInv, RowsFine
  <2>6. CashInv' /\ SplitInv'
    BY <2>1, <2>4, FreshNextIsFine DEF SplitInv
  <2>7. QED
    BY <2>1, <2>5, <2>6 DEF Inv
<1>5. CASE step \in {"called", "validated"} /\ Splits!Next /\ UNCHANGED <<vars, ledgerVars>>
  <2>1. CashInv' /\ LedgerInv' /\ OwedInv' /\ Fresh' /\ view' = Ledger!NoView
    BY <1>5, SameCash, SameLedger, SameLedgerOwed DEF Inv, vars, ledgerVars, Fresh
  <2>2. SplitInv'
    <3>1. CASE Splits!Validate
      <4>1. call' = call /\ step = "called" /\ step' = IF Splits!Valid THEN "validated" ELSE "refused"
        BY <3>1 DEF Splits!Validate
      <4>2. Splits!Valid' = Splits!Valid
        BY <4>1, SameCall
      <4>3. QED
        BY <4>1, <4>2 DEF Inv, SplitInv
    <3>2. CASE Splits!Compute
      <4>1. /\ call' = call /\ step = "validated" /\ step' = "computed"
            /\ owed' = Splits!Adjusted(Splits!Shares)
        BY <3>2 DEF Splits!Compute
      <4>2. Splits!Valid' = Splits!Valid /\ Splits!Adjusted(Splits!Shares)' = Splits!Adjusted(Splits!Shares)
        BY <4>1, SameCall
      <4>3. QED
        BY <4>1, <4>2 DEF Inv, SplitInv
    <3>3. QED
      BY <1>5, <3>1, <3>2 DEF Splits!Next
  <2>3. step' # "none"
    BY <1>5 DEF Splits!Next, Splits!Validate, Splits!Compute
  <2>4. QED
    BY <2>1, <2>2, <2>3 DEF Inv
<1>6. CASE (GroupNext \/ PairNext) /\ UNCHANGED <<vars, splitVars>>
  <2>1. CashInv' /\ SplitInv' /\ Fresh' /\ step' = step
    BY <1>6, SameCash, SameSplits DEF Inv, vars, splitVars, Fresh, GroupNext, PairNext
  <2>2. CASE GroupNext
    <3>1. step = "group" /\ ((view.step # "served" /\ Ledger!Write) \/ Ledger!Read)
      BY <2>2 DEF GroupNext, Ledger!Next
    <3>2. LedgerInv'
      BY <3>1, WritesKeepLedgerInv, ReadsKeepLedgerInv DEF Inv
    <3>3. RowsFine /\ RowsFine'
      BY <3>2 DEF Inv, LedgerInv
    <3>4. OwedInv'
      BY <3>1, <3>3, WritesKeepOwedInv, ReadsKeepOwedInv DEF Inv
    <3>5. QED
      BY <2>1, <3>1, <3>2, <3>4 DEF Inv
  <2>3. CASE PairNext
    <3>1. step = "pair" /\ Ledger!Write /\ view = Ledger!NoView /\ view.step # "served"
      BY <2>3, NoViewStep DEF PairNext, Inv
    <3>2. LedgerInv'
      BY <3>1, WritesKeepLedgerInv DEF Inv
    <3>3. view' = Ledger!NoView
      BY <3>1 DEF Ledger!Write, Ledger!CreateExpense, Ledger!EditExpense, Ledger!DeleteOrRestore,
                  Ledger!RecordPayment, Ledger!AnswerPayment, Ledger!LeaveGroup,
                  Ledger!PurgeMemberships, Ledger!PurgeExpenses,
                  Ledger!Writes, Ledger!Meanwhile
    <3>4. OwedInv'
      <4>1. RowsFine /\ RowsFine'
        BY <3>2 DEF Inv, LedgerInv
      <4>2. QED
        BY <3>1, <4>1, WritesKeepOwedInv DEF Inv
    <3>5. QED
      BY <2>1, <3>1, <3>2, <3>3, <3>4 DEF Inv
  <2>4. QED
    BY <1>6, <2>2, <2>3
<1>7. QED
  BY <1>1, <1>2, <1>3, <1>4, <1>5, <1>6 DEF DebtsNext

LEMMA InvHolds == DebtsSpec => []Inv
<1>1. Inv /\ [DebtsNext]_allVars => Inv'
  BY NextIsFine
<1>2. QED
  BY <1>1, InitIsFine, PTL DEF DebtsSpec

\* The heaps and the suggestions of run_min_cash_flow stay well formed, for any
\* users and balances, wherever the balances come from.
THEOREM TypeCorrect == DebtsSpec => []TypeOK
<1>1. Inv => TypeOK
  BY DEF Inv, CashInv
<1>2. QED
  BY <1>1, InvHolds, PTL

\* No suggestion asks for more than its payer owes or its receiver is owed, even
\* if the balances do not add up to zero (the min of credit and debt).
THEOREM SuggestionsWithinBalances == DebtsSpec => []WithinBalances
<1>1. Inv => WithinBalances
  BY DEF Inv, CashInv
<1>2. QED
  BY <1>1, InvHolds, PTL

\* The debts of n users take fewer than n payments (every round of
\* run_min_cash_flow empties at least one of its two users).
THEOREM FewerSuggestionsThanUsers == DebtsSpec => []FewSuggestions
<1>1. Inv => FewSuggestions
  BY DEF Inv, CashInv
<1>2. QED
  BY <1>1, InvHolds, PTL

\* The served copy of run_min_cash_flow, which pushes every cent back, leaves
\* nobody with a balance when the balances add up to zero.
THEOREM EverythingIsSettled ==
    ASSUME Remainder = 0
    PROVE  DebtsSpec => []SettlesEverything
<1>1. Inv => SettlesEverything
  BY ReturnedMeansSettled DEF Inv
<1>2. QED
  BY <1>1, InvHolds, PTL

\* Whatever number of participants, amounts and percentages SplitService
\* accepts, the rounded shares and the adjustment add up to the amount.
THEOREM SplitsSumToTotal == DebtsSpec => []SumsToTotal
<1>1. Inv => SumsToTotal
  BY ComputedSumsToTotal DEF Inv
<1>2. QED
  BY <1>1, InvHolds, PTL

\* What SplitService lets anybody owe is off by half a cent at most, and for the
\* first participant by half a cent for each of them.
THEOREM SplitsAreFair == DebtsSpec => []FairToTheCent
<1>1. Inv => FairToTheCent
  BY ComputedIsFair DEF Inv
<1>2. QED
  BY <1>1, InvHolds, PTL

\* The balances that group_balances adds up query by query are, for any number of
\* members, expenses and payments, those between a member and all others, before
\* or after the one write that may overlap.
THEOREM ServedBalancesAreOfAMoment == DebtsSpec => []BalancesOfAMoment
<1>1. Inv => BalancesOfAMoment
  BY ServedBalances DEF Inv
<1>2. QED
  BY <1>1, InvHolds, PTL

\* Whoever is owed money finds an expense with the debtor in the list, for any
\* number of members, expenses and payments, as long as nothing was undone.
THEOREM WhoIsOwedFindsIt == DebtsSpec => []OwedIsListed
<1>1. Inv => OwedIsListed
  BY OwedInvLists DEF Inv, LedgerInv
<1>2. QED
  BY <1>1, InvHolds, PTL

\* What u has with all others, as a sum over all members.
LEMMA BalanceIsRow ==
    ASSUME NEW E \in Seq(ExpenseRow), NEW P \in Seq(PaymentRow), NEW u \in Members,
           NEW row, row = [v \in Members |-> IF v = u THEN 0 ELSE Ledger!Pairwise(E, P, u, v)]
    PROVE  /\ Ledger!Balance(E, P, u) = SumFunctionOnSet(row, Members)
           /\ \A v \in Members : row[v] \in Int
<1> DEFINE W == Members \ {u}
           pw == [v \in W |-> Ledger!Pairwise(E, P, u, v)]
<1>1. IsFiniteSet(Members) /\ W \in SUBSET Members /\ IsFiniteSet(W) /\ \A v \in Members \ W : v = u
  BY MembersAreFinite, FS_RemoveElement
<1>2. \A v \in Members : Ledger!Pairwise(E, P, u, v) \in Int
  <2> SUFFICES ASSUME NEW v \in Members
               PROVE  Ledger!Pairwise(E, P, u, v) \in Int
    OBVIOUS
  <2> DEFINE x == Ledger!Pairwise(E, P, u, v)
  <2>1. /\ x = Lending(E, u, v) - Lending(E, v, u) + Giving(P, u, v) - Giving(P, v, u)
        /\ Lending(E, u, v) \in Nat /\ Lending(E, v, u) \in Nat
        /\ Giving(P, u, v) \in Nat /\ Giving(P, v, u) \in Nat
    BY PairwiseIs
  <2> HIDE DEF x
  <2>2. x \in Int
    BY <2>1
  <2>3. QED
    BY <2>2 DEF x
<1>3. Ledger!Balance(E, P, u) = SumFunctionOnSet(pw, W)
  <2>1. DOMAIN pw = W
    OBVIOUS
  <2>2. Ledger!SumFunction(pw) = SumFunctionOnSet(pw, W)
    BY <2>1, LedgerSum DEF Ledger!SumFunction
  <2>3. QED
    BY <2>2 DEF Ledger!Balance, Ledger!TotalOf
<1>4. /\ \A v \in Members : row[v] \in Int
      /\ \A v \in Members \ W : row[v] = 0
      /\ \A v \in W : row[v] \in Int /\ pw[v] = row[v]
  BY <1>1, <1>2
<1> HIDE DEF W, pw
<1>5. SumFunctionOnSet(pw, W) = SumFunctionOnSet(row, W)
  BY <1>1, <1>4, SumEqual
<1>6. SumFunctionOnSet(row, W) = SumFunctionOnSet(row, Members)
  BY <1>1, <1>4, SumOfSome
<1>7. QED
  BY <1>3, <1>4, <1>5, <1>6

\* Opposite terms have opposite sums.
LEMMA SumOpposite ==
    ASSUME NEW S, IsFiniteSet(S), NEW f, NEW g,
           \A x \in S : f[x] \in Int /\ g[x] = 0 - f[x]
    PROVE  SumFunctionOnSet(g, S) = 0 - SumFunctionOnSet(f, S)
<1> DEFINE k == 0 - 1
           s == SumFunctionOnSet(f, S)
<1>1. k \in Int /\ \A x \in Int : k * x = 0 - x
  OBVIOUS
<1>2. s \in Int
  BY SumType
<1> HIDE DEF k
<1>3. \A x \in S : f[x] \in Int /\ g[x] = k * f[x]
  BY <1>1
<1>4. SumFunctionOnSet(g, S) = k * s
  BY <1>1, <1>3, SumScale
<1> HIDE DEF s
<1>5. QED
  BY <1>1, <1>2, <1>4 DEF s

\* What one member gains another one owes: whatever the rows of a group are, the
\* balances of all who ever were members add up to zero.
THEOREM BalancesAddUpToZero ==
    ASSUME NEW E \in Seq(ExpenseRow), NEW P \in Seq(PaymentRow)
    PROVE  SumFunctionOnSet([u \in Members |-> Ledger!Balance(E, P, u)], Members) = 0
<1> DEFINE F == [u \in Members |-> [v \in Members |-> IF v = u THEN 0 ELSE Ledger!Pairwise(E, P, u, v)]]
           G == [v \in Members |-> [u \in Members |-> F[u][v]]]
           rows == [u \in Members |-> Ledger!Balance(E, P, u)]
           columns == [v \in Members |-> SumFunctionOnSet(G[v], Members)]
<1>1. IsFiniteSet(Members)
  BY MembersAreFinite
<1>2. ASSUME NEW u \in Members
      PROVE  rows[u] = SumFunctionOnSet(F[u], Members) /\ \A v \in Members : F[u][v] \in Int
  <2> DEFINE row == F[u]
  <2>1. row = [v \in Members |-> IF v = u THEN 0 ELSE Ledger!Pairwise(E, P, u, v)]
    OBVIOUS
  <2>2. rows[u] = Ledger!Balance(E, P, u)
    OBVIOUS
  <2> HIDE DEF row
  <2>3. /\ Ledger!Balance(E, P, u) = SumFunctionOnSet(row, Members)
        /\ \A v \in Members : row[v] \in Int
    BY <2>1, BalanceIsRow
  <2>4. QED
    BY <2>2, <2>3 DEF row
<1>3. ASSUME NEW u \in Members, NEW v \in Members
      PROVE  F[v][u] = 0 - F[u][v]
  <2>1. CASE u = v
    <3>1. F[u][v] = 0 /\ F[v][u] = 0
      BY <2>1
    <3> HIDE DEF F
    <3>2. QED
      BY <3>1
  <2>2. CASE u # v
    <3> DEFINE x == Ledger!Pairwise(E, P, u, v)
               y == Ledger!Pairwise(E, P, v, u)
    <3>1. /\ x = Lending(E, u, v) - Lending(E, v, u) + Giving(P, u, v) - Giving(P, v, u)
          /\ y = Lending(E, v, u) - Lending(E, u, v) + Giving(P, v, u) - Giving(P, u, v)
          /\ Lending(E, u, v) \in Nat /\ Lending(E, v, u) \in Nat
          /\ Giving(P, u, v) \in Nat /\ Giving(P, v, u) \in Nat
      BY PairwiseIs
    <3>2. F[u][v] = x /\ F[v][u] = y
      BY <2>2
    <3> HIDE DEF x, y
    <3>3. y = 0 - x
      BY <3>1
    <3>4. QED
      BY <3>2, <3>3
  <2>3. QED
    BY <2>1, <2>2
<1>4. \A v \in Members : \A u \in Members : G[v][u] = F[u][v]
  OBVIOUS
<1>5. Table(F, G, Members, Members) /\ RowSums(rows, F, Members, Members)
      /\ RowSums(columns, G, Members, Members)
  BY <1>2, <1>4 DEF Table, RowSums
<1>6. ASSUME NEW v \in Members
      PROVE  rows[v] \in Int /\ columns[v] = 0 - rows[v]
  <2> DEFINE f == F[v]
             g == G[v]
  <2>1. \A u \in Members : f[u] \in Int /\ g[u] = 0 - f[u]
    BY <1>2, <1>3, <1>4
  <2>2. columns[v] = SumFunctionOnSet(g, Members) /\ rows[v] = SumFunctionOnSet(f, Members)
    BY <1>2
  <2> HIDE DEF f, g, rows, columns
  <2>3. SumFunctionOnSet(g, Members) = 0 - SumFunctionOnSet(f, Members)
    BY <1>1, <2>1, SumOpposite
  <2>4. SumFunctionOnSet(f, Members) \in Int
    BY <1>1, <2>1, SumType
  <2>5. QED
    BY <2>2, <2>3, <2>4
<1> HIDE DEF F, G, rows, columns
<1>7. SumFunctionOnSet(rows, Members) = SumFunctionOnSet(columns, Members)
  BY <1>1, <1>5, SumSwap
<1>8. SumFunctionOnSet(columns, Members) = 0 - SumFunctionOnSet(rows, Members)
  BY <1>1, <1>6, SumOpposite
<1>9. SumFunctionOnSet(rows, Members) \in Int
  BY <1>1, <1>6, SumType
<1>10. SumFunctionOnSet(rows, Members) = 0
  BY <1>7, <1>8, <1>9
<1>11. QED
  BY <1>10 DEF rows

\* So what group_balances serves adds up to zero, which is when simplifying leaves
\* nobody with a balance, if nothing was written meanwhile and nobody has left.
THEOREM QuietGroupsAddUp ==
    DebtsSpec => [](Ledger!Served /\ view.meanwhile = 0 /\ members = Members
                       => SumFunctionOnSet(view.sum, Members) = 0)
<1>1. ASSUME Inv, Ledger!Served, view.meanwhile = 0, members = Members
      PROVE  SumFunctionOnSet(view.sum, Members) = 0
  <2> DEFINE f == [u \in Members |-> Ledger!Balance(expenses, payments, u)]
             g == view.sum
  <2>1. view # Ledger!NoView /\ ViewFine /\ BalancesOfAMoment /\ RowsFine
    BY <1>1, NoViewStep, ServedBalances DEF Inv, LedgerInv, Ledger!Served
  <2>2. DOMAIN g = Members /\ view.was = <<expenses, payments>> /\ view.step = "served"
    BY <1>1, <2>1 DEF ViewFine, Now, Ledger!Served
  <2>3. ASSUME NEW u \in Members
        PROVE  g[u] = f[u]
    <3>1. view.was[1] = expenses /\ view.was[2] = payments
      BY <2>2
    <3>2. Ledger!Changed(u) = {}
      BY <3>1 DEF Ledger!Changed
    <3>3. Cardinality({}) = 0
      BY FS_EmptySet
    <3>4. Ledger!Cardinality(Ledger!Changed(u)) <= 1
      BY <3>2, <3>3, LedgerCardinality
    <3>5. view.sum[u] \in {Ledger!Balance(view.was[1], view.was[2], u), Ledger!Balance(expenses, payments, u)}
      BY <1>1, <2>1, <2>2, <3>4 DEF BalancesOfAMoment, Ledger!BalancesOfAMoment
    <3>6. QED
      BY <3>1, <3>5
  <2>4. \A u \in Members : f[u] \in Int
    <3> SUFFICES ASSUME NEW u \in Members
                 PROVE  f[u] \in Int
      OBVIOUS
    <3>1. expenses \in Seq(ExpenseRow) /\ payments \in Seq(PaymentRow)
      BY <2>1 DEF RowsFine
    <3> DEFINE row == [v \in Members |-> IF v = u THEN 0 ELSE Ledger!Pairwise(expenses, payments, u, v)]
    <3>2. Ledger!Balance(expenses, payments, u) = SumFunctionOnSet(row, Members) /\ \A v \in Members : row[v] \in Int
      BY <3>1, BalanceIsRow
    <3> HIDE DEF row
    <3>3. SumFunctionOnSet(row, Members) \in Int
      BY <3>2, MembersAreFinite, SumType
    <3>4. QED
      BY <3>2, <3>3
  <2>5. SumFunctionOnSet(f, Members) = 0
    BY <2>1, BalancesAddUpToZero DEF RowsFine
  <2> HIDE DEF f, g
  <2>6. SumFunctionOnSet(g, Members) = SumFunctionOnSet(f, Members)
    BY <2>3, <2>4, MembersAreFinite, SumEqual
  <2>7. QED
    BY <2>5, <2>6 DEF g
<1>2. Inv => (Ledger!Served /\ view.meanwhile = 0 /\ members = Members
                 => SumFunctionOnSet(view.sum, Members) = 0)
  BY <1>1
<1>3. QED
  BY <1>2, InvHolds, PTL
===============================================================================
