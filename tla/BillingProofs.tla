--------------------------- MODULE BillingProofs ---------------------------
(***************************************************************************)
(* What an account is billed, for any accounts, clients, servers and       *)
(* multipliers: the sum a panel shows is the sum of what the rows of its   *)
(* emails moved in the cycle, and a bill stays within its cycle and within *)
(* the bytes witnessed at the dearest multiplier.                          *)
(***************************************************************************)
EXTENDS EmailLedgerProofs, Billing, FiniteSetTheorems, WellFoundedInduction

-----------------------------------------------------------------------------
(* Sums over finite sets.  The provers know nothing of induction, but that *)
(* sets of finite sets have smallest elements: whatever fails for some set *)
(* fails for one whose proper subsets it holds of.                         *)

\* Among subsets of a finite set there is a smallest one.
LEMMA SmallestSubset ==
    ASSUME NEW T, IsFiniteSet(T), NEW B, B \subseteq SUBSET T, B # {}
    PROVE  \E S \in B : \A R \in SUBSET S : R # S => R \notin B
<1>1. IsWellFoundedOn(StrictSubsetOrdering(T), SUBSET T)
  BY FS_StrictSubsetOrderingWellFounded, FS_FiniteSubsetsOfFinite
<1>2. PICK S \in B : \A R \in B : ~(<<R, S>> \in StrictSubsetOrdering(T))
  BY <1>1, WFMin
<1>3. ASSUME NEW R \in SUBSET S, R # S PROVE R \notin B
  BY <1>2, <1>3 DEF StrictSubsetOrdering
<1> QED BY <1>3

First(S) == CHOOSE x \in S : TRUE

\* What is chosen from a set that is not empty is in it.
LEMMA FirstIsIn == \A S : S # {} => First(S) \in S
BY DEF First

\* The recursive function a sum is defined by, on the subsets of T.
SumsUp(g, F, T) ==
    g = [S \in SUBSET T |-> IF S = {} THEN 0 ELSE F[First(S)] + g[S \ {First(S)}]]

\* A sum is a value of such a function.
LEMMA SumDefined ==
    ASSUME NEW F, NEW T
    PROVE  SumFunctionOnSet(F, T) = (CHOOSE g : SumsUp(g, F, T))[T]
BY DEF SumFunctionOnSet, FoldFunctionOnSet, MapThenFoldSet, SumsUp, First

\* On the subsets they share, two such functions agree.
LEMMA SumsAgree ==
    ASSUME NEW F, NEW T, NEW U, IsFiniteSet(T), U \subseteq T, NEW g, NEW h,
           SumsUp(g, F, T), SumsUp(h, F, U)
    PROVE  \A S \in SUBSET U : g[S] = h[S]
<1> DEFINE B == {S \in SUBSET U : g[S] # h[S]}
<1> SUFFICES ASSUME B # {} PROVE FALSE
  OBVIOUS
<1>0. B \subseteq SUBSET T
  OBVIOUS
<1> HIDE DEF B
<1>1. PICK S \in B : \A R \in SUBSET S : R # S => R \notin B
  BY <1>0, SmallestSubset
<1> USE DEF B
<1>2. S \in SUBSET U /\ S \in SUBSET T
  OBVIOUS
<1>3. /\ g[S] = IF S = {} THEN 0 ELSE F[First(S)] + g[S \ {First(S)}]
      /\ h[S] = IF S = {} THEN 0 ELSE F[First(S)] + h[S \ {First(S)}]
  BY <1>2 DEF SumsUp
<1>4. S # {}
  BY <1>3
<1>5. g[S \ {First(S)}] = h[S \ {First(S)}]
  BY <1>1, <1>2, <1>4, FirstIsIn
<1> QED BY <1>3, <1>5

\* On a finite set there is such a function.
LEMMA SumExists ==
    ASSUME NEW F, NEW T, IsFiniteSet(T)
    PROVE  \E g : SumsUp(g, F, T)
<1> DEFINE B == {S \in SUBSET T : ~ \E g : SumsUp(g, F, S)}
<1> SUFFICES ASSUME B # {} PROVE FALSE
  OBVIOUS
<1>0. B \subseteq SUBSET T
  OBVIOUS
<1> HIDE DEF B
<1>1. PICK S \in B : \A R \in SUBSET S : R # S => R \notin B
  BY <1>0, SmallestSubset
<1> USE DEF B
<1>2. \A R \in SUBSET S : IsFiniteSet(R) /\ R \in SUBSET T
  BY FS_Subset
<1> DEFINE of(R) == CHOOSE g : SumsUp(g, F, R)
<1>3. \A R \in SUBSET S : R # S => SumsUp(of(R), F, R)
  BY <1>1, <1>2
<1> HIDE DEF B
<1> DEFINE sum == [R \in SUBSET S |->
              IF R = {} THEN 0
              ELSE F[First(R)] + of(R \ {First(R)})[R \ {First(R)}]]
<1>4. ASSUME NEW R \in SUBSET S, R # {}
      PROVE  sum[R \ {First(R)}] = of(R \ {First(R)})[R \ {First(R)}]
  <2> DEFINE Q == R \ {First(R)}
  <2>1. Q \in SUBSET S /\ Q # S /\ First(R) \in R
    BY <1>4, FirstIsIn
  <2>2. SumsUp(of(Q), F, Q)
    BY <1>3, <2>1
  <2>3. of(Q)[Q] = IF Q = {} THEN 0 ELSE F[First(Q)] + of(Q)[Q \ {First(Q)}]
    <3> HIDE DEF Q
    <3> DEFINE g == of(Q)
    <3>1. SumsUp(g, F, Q)
      BY <2>2
    <3> HIDE DEF g
    <3>2. g[Q] = IF Q = {} THEN 0 ELSE F[First(Q)] + g[Q \ {First(Q)}]
      BY <3>1 DEF SumsUp
    <3> QED BY <3>2 DEF g
  <2>4. sum[Q] = IF Q = {} THEN 0 ELSE F[First(Q)] + of(Q \ {First(Q)})[Q \ {First(Q)}]
    BY <2>1
  <2> HIDE DEF sum
  <2>5. CASE Q = {}
    BY <2>3, <2>4, <2>5
  <2>6. CASE Q # {}
    <3> DEFINE P == Q \ {First(Q)}
    <3>1. P \in SUBSET S /\ P # S /\ P \subseteq Q /\ IsFiniteSet(Q)
      BY <1>2, <2>1, <2>6, FirstIsIn
    <3>2. SumsUp(of(P), F, P)
      BY <1>3, <3>1
    <3> HIDE DEF P, Q, of
    <3>3. of(Q)[P] = of(P)[P]
      BY <2>2, <3>1, <3>2, SumsAgree
    <3> QED BY <2>3, <2>4, <2>6, <3>3 DEF P, Q
  <2> QED BY <2>5, <2>6
<1>5. SumsUp(sum, F, S)
  <2>1. \A R \in SUBSET S :
           sum[R] = IF R = {} THEN 0 ELSE F[First(R)] + of(R \ {First(R)})[R \ {First(R)}]
    OBVIOUS
  <2>2. sum = [R \in SUBSET S |-> sum[R]]
    OBVIOUS
  <2> HIDE DEF sum, of
  <2>3. \A R \in SUBSET S : sum[R] = IF R = {} THEN 0 ELSE F[First(R)] + sum[R \ {First(R)}]
    BY <1>4, <2>1
  <2> QED BY <2>2, <2>3 DEF SumsUp
<1> QED BY <1>5 DEF B

\* A sum, unfolded.
LEMMA SumUnfolded ==
    ASSUME NEW F, NEW T, IsFiniteSet(T)
    PROVE  SumFunctionOnSet(F, T) =
              IF T = {} THEN 0 ELSE F[First(T)] + SumFunctionOnSet(F, T \ {First(T)})
<1> DEFINE U == T \ {First(T)}
           g == CHOOSE f : SumsUp(f, F, T)
           h == CHOOSE f : SumsUp(f, F, U)
<1>1. IsFiniteSet(U) /\ U \subseteq T
  BY FS_RemoveElement
<1>2. SumsUp(g, F, T) /\ SumsUp(h, F, U)
  BY <1>1, SumExists
<1>3. SumFunctionOnSet(F, T) = g[T] /\ SumFunctionOnSet(F, U) = h[U]
  BY SumDefined
<1> HIDE DEF U, g, h
<1>4. g[U] = h[U]
  BY <1>1, <1>2, SumsAgree
<1>5. g[T] = IF T = {} THEN 0 ELSE F[First(T)] + g[T \ {First(T)}]
  BY <1>2 DEF SumsUp
<1> QED BY <1>3, <1>4, <1>5 DEF U

\* A sum of integers is one.
LEMMA SumIsInt ==
    ASSUME NEW F, NEW T, IsFiniteSet(T), \A x \in T : F[x] \in Int
    PROVE  SumFunctionOnSet(F, T) \in Int
<1> DEFINE B == {S \in SUBSET T : SumFunctionOnSet(F, S) \notin Int}
<1> SUFFICES ASSUME B # {} PROVE FALSE
  OBVIOUS
<1>0. B \subseteq SUBSET T
  OBVIOUS
<1> HIDE DEF B
<1>1. PICK S \in B : \A R \in SUBSET S : R # S => R \notin B
  BY <1>0, SmallestSubset
<1> USE DEF B
<1>2. S \in SUBSET T /\ IsFiniteSet(S)
  BY FS_Subset
<1> DEFINE x == First(S)
           R == S \ {x}
<1>3. S # {} => x \in S /\ R \in SUBSET T /\ R \subseteq S /\ R # S
  BY <1>2, FirstIsIn
<1>4. SumFunctionOnSet(F, S) = IF S = {} THEN 0 ELSE F[x] + SumFunctionOnSet(F, R)
  BY <1>2, SumUnfolded
<1>5. S # {} => SumFunctionOnSet(F, R) \in Int /\ F[x] \in Int
  BY <1>1, <1>2, <1>3
<1> HIDE DEF R, x
<1> QED BY <1>4, <1>5

\* A sum of natural numbers is one.
LEMMA SumIsNat ==
    ASSUME NEW F, NEW T, IsFiniteSet(T), \A x \in T : F[x] \in Nat
    PROVE  SumFunctionOnSet(F, T) \in Nat
<1> DEFINE B == {S \in SUBSET T : SumFunctionOnSet(F, S) \notin Nat}
<1> SUFFICES ASSUME B # {} PROVE FALSE
  OBVIOUS
<1>0. B \subseteq SUBSET T
  OBVIOUS
<1> HIDE DEF B
<1>1. PICK S \in B : \A R \in SUBSET S : R # S => R \notin B
  BY <1>0, SmallestSubset
<1> USE DEF B
<1>2. S \in SUBSET T /\ IsFiniteSet(S)
  BY FS_Subset
<1> DEFINE x == First(S)
           R == S \ {x}
<1>3. S # {} => x \in S /\ R \in SUBSET T /\ R \subseteq S /\ R # S
  BY <1>2, FirstIsIn
<1>4. SumFunctionOnSet(F, S) = IF S = {} THEN 0 ELSE F[x] + SumFunctionOnSet(F, R)
  BY <1>2, SumUnfolded
<1>5. S # {} => SumFunctionOnSet(F, R) \in Nat /\ F[x] \in Nat
  BY <1>1, <1>2, <1>3
<1> HIDE DEF R, x
<1> QED BY <1>4, <1>5

\* A sum is of what is in the set.
LEMMA SumsEqual ==
    ASSUME NEW F, NEW G, NEW T, IsFiniteSet(T), \A x \in T : F[x] = G[x]
    PROVE  SumFunctionOnSet(F, T) = SumFunctionOnSet(G, T)
<1> DEFINE B == {S \in SUBSET T : SumFunctionOnSet(F, S) # SumFunctionOnSet(G, S)}
<1> SUFFICES ASSUME B # {} PROVE FALSE
  OBVIOUS
<1>0. B \subseteq SUBSET T
  OBVIOUS
<1> HIDE DEF B
<1>1. PICK S \in B : \A R \in SUBSET S : R # S => R \notin B
  BY <1>0, SmallestSubset
<1> USE DEF B
<1>2. S \in SUBSET T /\ IsFiniteSet(S)
  BY FS_Subset
<1> DEFINE x == First(S)
           R == S \ {x}
<1>3. S # {} => x \in S /\ R \in SUBSET T /\ R \subseteq S /\ R # S
  BY <1>2, FirstIsIn
<1>4. /\ SumFunctionOnSet(F, S) = IF S = {} THEN 0 ELSE F[x] + SumFunctionOnSet(F, R)
      /\ SumFunctionOnSet(G, S) = IF S = {} THEN 0 ELSE G[x] + SumFunctionOnSet(G, R)
  BY <1>2, SumUnfolded
<1>5. S # {} => SumFunctionOnSet(F, R) = SumFunctionOnSet(G, R) /\ F[x] = G[x]
  BY <1>1, <1>2, <1>3
<1> HIDE DEF R, x
<1> QED BY <1>4, <1>5

\* A sum of zeros.
LEMMA SumOfNothing ==
    ASSUME NEW F, NEW T, IsFiniteSet(T), \A x \in T : F[x] = 0
    PROVE  SumFunctionOnSet(F, T) = 0
<1> DEFINE B == {S \in SUBSET T : SumFunctionOnSet(F, S) # 0}
<1> SUFFICES ASSUME B # {} PROVE FALSE
  OBVIOUS
<1>0. B \subseteq SUBSET T
  OBVIOUS
<1> HIDE DEF B
<1>1. PICK S \in B : \A R \in SUBSET S : R # S => R \notin B
  BY <1>0, SmallestSubset
<1> USE DEF B
<1>2. S \in SUBSET T /\ IsFiniteSet(S)
  BY FS_Subset
<1> DEFINE x == First(S)
           R == S \ {x}
<1>3. S # {} => x \in S /\ R \in SUBSET T /\ R \subseteq S /\ R # S
  BY <1>2, FirstIsIn
<1>4. SumFunctionOnSet(F, S) = IF S = {} THEN 0 ELSE F[x] + SumFunctionOnSet(F, R)
  BY <1>2, SumUnfolded
<1>5. S # {} => SumFunctionOnSet(F, R) = 0 /\ F[x] = 0
  BY <1>1, <1>2, <1>3
<1> HIDE DEF R, x
<1> QED BY <1>4, <1>5

\* The sum of two functions, term by term.
LEMMA SumOfSums ==
    ASSUME NEW F, NEW G, NEW H, NEW T, IsFiniteSet(T),
           \A x \in T : F[x] \in Int /\ G[x] \in Int /\ H[x] = F[x] + G[x]
    PROVE  SumFunctionOnSet(H, T) = SumFunctionOnSet(F, T) + SumFunctionOnSet(G, T)
<1> DEFINE B == {S \in SUBSET T :
              SumFunctionOnSet(H, S)
                 # SumFunctionOnSet(F, S) + SumFunctionOnSet(G, S)}
<1> SUFFICES ASSUME B # {} PROVE FALSE
  OBVIOUS
<1>0. B \subseteq SUBSET T
  OBVIOUS
<1> HIDE DEF B
<1>1. PICK S \in B : \A R \in SUBSET S : R # S => R \notin B
  BY <1>0, SmallestSubset
<1> USE DEF B
<1>2. S \in SUBSET T /\ IsFiniteSet(S)
  BY FS_Subset
<1> DEFINE x == First(S)
           R == S \ {x}
<1>3. S # {} => x \in S /\ R \in SUBSET T /\ R \subseteq S /\ R # S
  BY <1>2, FirstIsIn
<1>4. /\ SumFunctionOnSet(F, S) = IF S = {} THEN 0 ELSE F[x] + SumFunctionOnSet(F, R)
      /\ SumFunctionOnSet(G, S) = IF S = {} THEN 0 ELSE G[x] + SumFunctionOnSet(G, R)
      /\ SumFunctionOnSet(H, S) = IF S = {} THEN 0 ELSE H[x] + SumFunctionOnSet(H, R)
  BY <1>2, SumUnfolded
<1>5. S # {} => SumFunctionOnSet(H, R) = SumFunctionOnSet(F, R) + SumFunctionOnSet(G, R)
  BY <1>1, <1>3
<1>6. S # {} => F[x] \in Int /\ G[x] \in Int /\ H[x] = F[x] + G[x]
  BY <1>2, <1>3
<1>7. S # {} => /\ IsFiniteSet(R)
                /\ SumFunctionOnSet(F, R) \in Int
                /\ SumFunctionOnSet(G, R) \in Int
  BY <1>2, <1>3, SumIsInt, FS_Subset
<1> HIDE DEF R, x
<1>8. SumFunctionOnSet(H, S) # SumFunctionOnSet(F, S) + SumFunctionOnSet(G, S)
  OBVIOUS
<1> HIDE DEF B
<1>9. S # {}
  BY <1>4, <1>8
<1> QED BY <1>4, <1>5, <1>6, <1>7, <1>8, <1>9

\* Any term may be the first one.
LEMMA SumTakesOut ==
    ASSUME NEW F, NEW T, IsFiniteSet(T), \A x \in T : F[x] \in Int
    PROVE  \A x \in T : SumFunctionOnSet(F, T) = F[x] + SumFunctionOnSet(F, T \ {x})
<1> DEFINE Right(S) == \A x \in S :
              SumFunctionOnSet(F, S) = F[x] + SumFunctionOnSet(F, S \ {x})
           B == {S \in SUBSET T : ~Right(S)}
<1> SUFFICES ASSUME B # {} PROVE FALSE
  OBVIOUS
<1>0. B \subseteq SUBSET T
  OBVIOUS
<1> HIDE DEF B
<1>1. PICK S \in B : \A R \in SUBSET S : R # S => R \notin B
  BY <1>0, SmallestSubset
<1>2. S \in SUBSET T /\ IsFiniteSet(S) /\ ~Right(S)
  BY FS_Subset DEF B
<1>3. PICK x \in S : SumFunctionOnSet(F, S) # F[x] + SumFunctionOnSet(F, S \ {x})
  BY <1>2
<1> DEFINE y == First(S)
<1>4. y \in S /\ SumFunctionOnSet(F, S) = F[y] + SumFunctionOnSet(F, S \ {y})
  BY <1>2, SumUnfolded, FirstIsIn
<1>5. x # y
  BY <1>3, <1>4
<1> HIDE DEF y
<1> DEFINE X == S \ {x}
           Y == S \ {y}
           Z == X \ {y}
<1>6. /\ X \in SUBSET S /\ X # S /\ y \in X
      /\ Y \in SUBSET S /\ Y # S /\ x \in Y /\ Y \ {x} = Z
  BY <1>4, <1>5
<1>7. X \in SUBSET T /\ Y \in SUBSET T
  BY <1>2
<1>8. Right(X) /\ Right(Y)
  BY <1>1, <1>6, <1>7 DEF B
<1>9. /\ SumFunctionOnSet(F, X) = F[y] + SumFunctionOnSet(F, Z)
      /\ SumFunctionOnSet(F, Y) = F[x] + SumFunctionOnSet(F, Z)
  BY <1>6, <1>8
<1>10. F[x] \in Int /\ F[y] \in Int /\ SumFunctionOnSet(F, Z) \in Int
  BY <1>2, <1>4, SumIsInt, FS_Subset
<1> HIDE DEF X, Y, Z
<1> QED BY <1>3, <1>4, <1>9, <1>10 DEF X, Y

\* Terms that are zero can be left out.
LEMMA SumOfSupport ==
    ASSUME NEW F, NEW T, IsFiniteSet(T), NEW U, U \subseteq T,
           \A x \in T : F[x] \in Int, \A x \in T \ U : F[x] = 0
    PROVE  SumFunctionOnSet(F, T) = SumFunctionOnSet(F, U)
<1> DEFINE B == {S \in SUBSET T : SumFunctionOnSet(F, S) # SumFunctionOnSet(F, S \cap U)}
<1>P. T \cap U = U
  OBVIOUS
<1> SUFFICES ASSUME B # {} PROVE FALSE
  BY <1>P
<1>0. B \subseteq SUBSET T
  OBVIOUS
<1> HIDE DEF B
<1>1. PICK S \in B : \A R \in SUBSET S : R # S => R \notin B
  BY <1>0, SmallestSubset
<1> USE DEF B
<1>2. S \in SUBSET T /\ IsFiniteSet(S)
  BY FS_Subset
<1> DEFINE x == First(S)
           R == S \ {x}
<1>3. S # {} => x \in S /\ R \in SUBSET T /\ R \subseteq S /\ R # S
  BY <1>2, FirstIsIn
<1>4. S \cap U \in SUBSET T /\ IsFiniteSet(S \cap U)
  BY <1>2, FS_Subset
<1>5. S = {} => SumFunctionOnSet(F, S) = SumFunctionOnSet(F, S \cap U)
  <2>1. S = {} => S \cap U = S
    OBVIOUS
  <2> QED BY <2>1
<1>6. S # {}
  BY <1>5
<1>7. SumFunctionOnSet(F, S) = F[x] + SumFunctionOnSet(F, R)
  BY <1>2, <1>6, SumUnfolded
<1>8. SumFunctionOnSet(F, R) = SumFunctionOnSet(F, R \cap U)
  BY <1>1, <1>3, <1>6
<1>9. /\ x \in U => x \in S \cap U /\ R \cap U = (S \cap U) \ {x}
      /\ x \notin U => R \cap U = S \cap U /\ F[x] = 0
  BY <1>2, <1>3, <1>6
<1>10. SumFunctionOnSet(F, R \cap U) \in Int
  <2>1. R \cap U \in SUBSET T
    BY <1>2
  <2>2. IsFiniteSet(R \cap U)
    BY <2>1, FS_Subset
  <2> QED BY <2>1, <2>2, SumIsInt
<1>11. x \in U => SumFunctionOnSet(F, S \cap U) = F[x] + SumFunctionOnSet(F, R \cap U)
  BY <1>4, <1>9, SumTakesOut
<1> HIDE DEF R, x
<1>12. SumFunctionOnSet(F, S) # SumFunctionOnSet(F, S \cap U)
  OBVIOUS
<1> HIDE DEF B
<1>13. CASE x \in U
  BY <1>7, <1>8, <1>11, <1>12, <1>13
<1>14. CASE x \notin U
  <2>1. R \cap U = S \cap U /\ F[x] = 0
    BY <1>9, <1>14
  <2>2. SumFunctionOnSet(F, R \cap U) = SumFunctionOnSet(F, S \cap U)
    BY <2>1, Zenon
  <2> QED BY <1>7, <1>8, <1>10, <1>12, <2>1, <2>2
<1> QED BY <1>13, <1>14

\* A finite set of integers has a largest element.
LEMMA HasMaximum ==
    ASSUME NEW T, IsFiniteSet(T), T \subseteq Int, T # {}
    PROVE  Max(T) \in T /\ \A y \in T : Max(T) >= y
<1> SUFFICES \E m \in T : \A y \in T : m >= y
  BY DEF Max
<1> DEFINE B == {S \in SUBSET T : S # {} /\ ~ \E m \in S : \A y \in S : m >= y}
<1> SUFFICES ASSUME B # {} PROVE FALSE
  BY DEF B
<1>0. B \subseteq SUBSET T
  OBVIOUS
<1> HIDE DEF B
<1>1. PICK S \in B : \A R \in SUBSET S : R # S => R \notin B
  BY <1>0, SmallestSubset
<1> USE DEF B
<1>2. S \in SUBSET T /\ IsFiniteSet(S)
  BY FS_Subset
<1> DEFINE x == First(S)
           R == S \ {x}
<1>3. S # {} => x \in S /\ R \in SUBSET T /\ R \subseteq S /\ R # S
  BY <1>2, FirstIsIn
<1>4. R = {} \/ \E m \in R : \A y \in R : m >= y
  BY <1>1, <1>3
<1>5. x \in Int /\ R \subseteq Int /\ S = R \cup {x}
  BY <1>2, <1>3
<1>6. ~ \E m \in R \cup {x} : \A y \in R \cup {x} : m >= y
  BY <1>1, <1>5
<1> HIDE DEF R, x
<1>7. CASE R = {}
  BY <1>5, <1>6, <1>7
<1>8. ASSUME NEW m \in R, \A y \in R : m >= y PROVE FALSE
  <2>1. CASE m >= x
    BY <1>5, <1>6, <1>8, <2>1
  <2>2. CASE ~(m >= x)
    <3>1. \A y \in R : x >= y
      BY <1>5, <1>8, <2>2
    <3> QED BY <1>5, <1>6, <3>1
  <2> QED BY <2>1, <2>2
<1> QED BY <1>4, <1>7, <1>8

-----------------------------------------------------------------------------
(* What an account is billed *)

\* The dearest multiplier that was ever in force.
Dearest == Max(Weights \cup {1})

\* A row that was never written is empty and has no price; one that was written
\* is attributed to its account or to nobody.
PriceOf(c) ==
    /\ price[c].attr \in {OwnerOf[c], NoUser}
    /\ ~row[c].known => row[c] = NoRow /\ price[c] = NoPrice
    /\ price[c].ubase <= row[c].up
    /\ price[c].wbase <= price[c].weighted
    /\ price[c].weighted <= Dearest * row[c].up

PriceInv == \A c \in Clients : PriceOf(c)

\* Of an account that was not torn apart, the baseline of every row is what it
\* had billed when the cycle started.
CycleOf(c) ==
    /\ closed[c] <= price[c].weighted
    /\ ~torn[ServerOf[c]][OwnerOf[c]] => closed[c] = price[c].wbase

CycleInv == \A c \in Clients : CycleOf(c)

\* The counter each row was last compared with.
Baselines == [c \in Clients |-> row[c].last]

\* The rows of an account that stayed the same are those of the clients that are
\* there, a report under way is of all of them or came before the first row, and
\* the sum it is compared with is the sum of their baselines.
RosterOf(s, u) ==
    LET C == ClientsOf(s, u)
        of == report[s].of \cap C
    IN  /\ ~urow[s][u].known => \A c \in C : ~row[c].known
        /\ urow[s][u].known =>
              /\ \A c \in C : row[c].known <=> c \in present
              /\ urow[s][u].last = SumFunctionOnSet(Baselines, C)
        /\ report[s].stage # "idle" /\ (urow[s][u].known \/ of # {}) =>
              of = present \cap C
        /\ urow[s][u].up = SumFunctionOnSet(Moved, C)

\* The clients of the account stayed the same and met no hazard.
Untouched(s, u) == ~torn[s][u] /\ \A c \in ClientsOf(s, u) : doubt[c] = {}

RosterInv == \A s \in Servers : \A u \in Users : Untouched(s, u) => RosterOf(s, u)

\* The inductive invariant.
BillInv == LedgerInv /\ BillTypeOK /\ PriceInv /\ CycleInv /\ RosterInv

-----------------------------------------------------------------------------

\* A step of the bills is one of the ledger.
LEMMA BillStepsTheLedger == [BillNext]_allVars => [Next]_vars
BY DEF BillNext, allVars, CommitBatch, ResetCycle, ChangeClient, LedgerOnly, Next, vars

\* And the bills start with the ledger.
LEMMA BillStartsTheLedger == BillInit => Init
BY DEF BillInit

\* There is a dearest multiplier.
LEMMA DearestIsDearest ==
    /\ Dearest \in Nat /\ Dearest >= 1
    /\ \A w \in Weights \cup {1} : w \in Nat /\ w <= Dearest
<1> DEFINE W == Weights \cup {1}
<1>1. IsFiniteSet(W)
  BY BillingAssumption, FS_AddElement
<1>2. W \subseteq Nat /\ W \subseteq Int /\ W # {} /\ 1 \in W
  BY BillingAssumption
<1> HIDE DEF W
<1>3. Max(W) \in W /\ \A y \in W : Max(W) >= y
  BY <1>1, <1>2, HasMaximum
<1>4. Max(W) \in Nat /\ \A w \in W : w \in Nat /\ w <= Max(W)
  BY <1>2, <1>3
<1> QED BY <1>2, <1>4 DEF Dearest, W

\* The clients of an account on a server are finitely many.
LEMMA ClientsOfFinite ==
    ASSUME NEW s, NEW u
    PROVE  ClientsOf(s, u) \in SUBSET Clients /\ IsFiniteSet(ClientsOf(s, u))
<1>1. ClientsOf(s, u) \in SUBSET Clients
  BY DEF ClientsOf, ClientsOn
<1> QED BY <1>1, BillingAssumption, FS_Subset

\* A batch prices one client.
LEMMA BatchPrices ==
    ASSUME BillInv, NEW s \in Servers, CommitBatch(s), NEW c \in Clients
    PROVE  LET r == report[s]
               flag == Restarted(s, r.boot)
           IN  /\ c \notin r.of => price'[c] = price[c] /\ row'[c] = row[c]
               /\ c \in r.of => \E w \in Weights \cup {1}, user \in {OwnerOf[c], NoUser} :
                     price'[c] = Priced(c, r.raw[c], flag, w, user)
<1> DEFINE r == report[s]
           flag == Restarted(s, r.boot)
<1>1. Commit(s) /\ LedgerInv
  BY DEF CommitBatch, BillInv
<1>2. PICK built \in Built : \E w \in (IF built THEN Weights ELSE {1}) :
              price' = [d \in Clients |->
                          IF d \in r.of
                          THEN Priced(d, r.raw[d], flag, w,
                                      IF built THEN OwnerOf[d] ELSE NoUser)
                          ELSE price[d]]
  BY DEF CommitBatch
<1>3. PICK w \in (IF built THEN Weights ELSE {1}) :
              price' = [d \in Clients |->
                          IF d \in r.of
                          THEN Priced(d, r.raw[d], flag, w,
                                      IF built THEN OwnerOf[d] ELSE NoUser)
                          ELSE price[d]]
  BY <1>2
<1>4. w \in Weights \cup {1}
  BY <1>3
<1>5. c \notin r.of => row'[c] = row[c]
  BY <1>1, CommitOnClient
<1> QED BY <1>3, <1>4, <1>5

\* What a batch does to the price of a client it brings something of.
LEMMA BatchOnPrice ==
    ASSUME BillInv, NEW s \in Servers, CommitBatch(s), NEW c \in Clients,
           c \in report[s].of
    PROVE  LET d == Delta(report[s].raw[c], row[c].last, Restarted(s, report[s].boot))
           IN  /\ price'[c] \in Price /\ price'[c].attr \in {OwnerOf[c], NoUser}
               /\ ~row[c].known =>
                     price'[c].weighted = 0 /\ price'[c].ubase = 0 /\ price'[c].wbase = 0
               /\ row[c].known =>
                     /\ d \in Nat
                     /\ \E w \in Weights \cup {1} :
                           price'[c].weighted = price[c].weighted + d * w
                     /\ price'[c].ubase = price[c].ubase /\ price'[c].wbase = price[c].wbase
<1> DEFINE v == report[s].raw[c]
           flag == Restarted(s, report[s].boot)
<1>1. PICK w \in Weights \cup {1}, user \in {OwnerOf[c], NoUser} :
         price'[c] = Priced(c, v, flag, w, user)
  BY BatchPrices
<1>2. v \in Nat /\ flag \in BOOLEAN
  BY DEF BillInv, LedgerInv, TypeOK, Report, Restarted
<1>3. /\ price[c] \in Price /\ row[c] \in Row
      /\ user \in Users \cup {NoUser} /\ w \in Nat
  <2>1. price[c] \in Price
    BY DEF BillInv, BillTypeOK
  <2>2. row[c] \in Row
    BY DEF BillInv, LedgerInv, TypeOK
  <2>3. OwnerOf[c] \in Users
    BY BillingAssumption
  <2>4. w \in Nat
    BY DearestIsDearest
  <2> QED BY <2>1, <2>2, <2>3, <2>4
<1> DEFINE d == Delta(v, row[c].last, flag)
<1>4. d \in Nat
  BY <1>2, <1>3 DEF Row, Delta, Monus
<1>5. price'[c] = IF ~row[c].known THEN [NoPrice EXCEPT !.attr = user]
                  ELSE [price[c] EXCEPT !.weighted = @ + d * w, !.attr = user]
  BY <1>1 DEF Priced
<1> HIDE DEF v, flag, d
<1>6. CASE ~row[c].known
  <2>1. /\ price'[c] \in Price /\ price'[c].attr = user
        /\ price'[c].weighted = 0 /\ price'[c].ubase = 0 /\ price'[c].wbase = 0
    BY <1>3, <1>5, <1>6 DEF NoPrice, Price
  <2> QED BY <1>6, <2>1
<1>7. CASE row[c].known
  <2>1. price[c].weighted + d * w \in Nat
    BY <1>3, <1>4 DEF Price
  <2>2. /\ price'[c] \in Price /\ price'[c].attr = user
        /\ price'[c].weighted = price[c].weighted + d * w
        /\ price'[c].ubase = price[c].ubase /\ price'[c].wbase = price[c].wbase
    BY <1>3, <1>5, <1>7, <2>1 DEF Price
  <2> QED BY <1>4, <1>7, <2>2 DEF d, v, flag
<1> QED BY <1>6, <1>7

\* The initial states satisfy the invariant.
LEMMA BillStarts == BillInit => BillInv
<1> SUFFICES ASSUME BillInit PROVE BillInv
  OBVIOUS
<1>1. LedgerInv
  BY InitInv, BillStartsTheLedger
<1>2. BillTypeOK
  BY DEF BillInit, BillTypeOK, Price, NoPrice, UserRow, NoUserRow, Zeros
<1>3. PriceInv
  <2>1. \A c \in Clients : row[c] = NoRow /\ price[c] = NoPrice
    BY DEF BillInit, Init
  <2>2. Dearest * 0 = 0
    BY DearestIsDearest
  <2> QED BY <2>1, <2>2 DEF PriceInv, PriceOf, NoRow, NoPrice
<1>4. CycleInv
  BY DEF BillInit, Zeros, NoPrice, CycleInv, CycleOf
<1>5. ASSUME NEW s \in Servers, NEW u \in Users PROVE RosterOf(s, u)
  <2> DEFINE C == ClientsOf(s, u)
  <2>1. C \in SUBSET Clients /\ IsFiniteSet(C)
    BY ClientsOfFinite
  <2>2. \A c \in C : Moved[c] = 0 /\ row[c] = NoRow
    BY <2>1 DEF BillInit, Init, Moved, NoRow, NoPrice
  <2>3. urow[s][u] = NoUserRow /\ report[s] = Idle
    BY DEF BillInit, Init
  <2> HIDE DEF C
  <2>4. SumFunctionOnSet(Moved, C) = 0
    BY <2>1, <2>2, SumOfNothing
  <2> QED BY <2>2, <2>3, <2>4 DEF RosterOf, C, NoRow, NoUserRow, Idle
<1> QED BY <1>1, <1>2, <1>3, <1>4, <1>5 DEF BillInv, RosterInv

\* What a report adds up to for one account is a number.
LEMMA SumIsCounted ==
    ASSUME BillInv, NEW s \in Servers, NEW u \in Users
    PROVE  /\ Sum(report[s], s, u) \in Nat
           /\ urow[s][u] \in UserRow
           /\ \A flag \in BOOLEAN :
                 UserUpserted(urow[s][u], Sum(report[s], s, u), flag) \in UserRow
<1> DEFINE r == report[s]
           P == r.of \cap ClientsOf(s, u)
           v == Sum(r, s, u)
           old == urow[s][u]
<1>1. P \in SUBSET Clients /\ IsFiniteSet(P)
  <2>1. P \in SUBSET ClientsOf(s, u)
    OBVIOUS
  <2> QED BY <2>1, ClientsOfFinite, FS_Subset
<1>2. \A c \in P : r.raw[c] \in Nat
  BY <1>1 DEF BillInv, LedgerInv, TypeOK, Report
<1>3. v \in Nat
  <2> HIDE DEF P
  <2>1. SumFunctionOnSet(r.raw, P) \in Nat
    BY <1>1, <1>2, SumIsNat
  <2> QED BY <2>1 DEF Sum, P
<1>4. old \in UserRow
  BY DEF BillInv, BillTypeOK
<1> HIDE DEF v, old
<1>5. ASSUME NEW flag \in BOOLEAN PROVE UserUpserted(old, v, flag) \in UserRow
  <2>1. Delta(v, old.last, flag) \in Nat
    BY <1>3, <1>4 DEF Delta, Monus, UserRow
  <2> DEFINE d == Delta(v, old.last, flag)
  <2>2. UserUpserted(old, v, flag) =
          IF ~old.known THEN [known |-> TRUE, up |-> 0, last |-> v]
          ELSE [old EXCEPT !.up = @ + d, !.last = v]
    BY DEF UserUpserted
  <2> HIDE DEF d
  <2>3. old.up + d \in Nat
    BY <1>4, <2>1 DEF UserRow, d
  <2>4. CASE ~old.known
    BY <1>3, <2>2, <2>4 DEF UserRow
  <2>5. CASE old.known
    BY <1>3, <1>4, <2>2, <2>3, <2>5 DEF UserRow
  <2> QED BY <2>4, <2>5
<1> QED BY <1>3, <1>4, <1>5 DEF v, old

\* A batch leaves a price and a sum for everybody.
LEMMA BatchFunctions ==
    ASSUME BillInv, NEW s \in Servers, CommitBatch(s)
    PROVE  /\ price' = [c \in Clients |-> price'[c]]
           /\ urow' = [urow EXCEPT ![s] = [u \in Users |-> urow'[s][u]]]
           /\ \A u \in Users : urow'[s][u] =
                 IF report[s].of \cap ClientsOf(s, u) # {}
                 THEN UserUpserted(urow[s][u], Sum(report[s], s, u),
                                   Restarted(s, report[s].boot))
                 ELSE urow[s][u]
           /\ \A t \in Servers \ {s} : urow'[t] = urow[t]
           /\ UNCHANGED <<closed, torn, present>>
           /\ report'[s].stage = "idle" /\ report'[s].of = {}
           /\ \A t \in Servers \ {s} : report'[t] = report[t]
<1>1. Commit(s) /\ LedgerInv /\ UNCHANGED <<closed, torn>>
  BY DEF CommitBatch, BillInv
<1>2. price' = [c \in Clients |-> price'[c]]
  <2>1. PICK built \in Built : \E w \in (IF built THEN Weights ELSE {1}) :
              price' = [d \in Clients |->
                          IF d \in report[s].of
                          THEN Priced(d, report[s].raw[d], Restarted(s, report[s].boot), w,
                                      IF built THEN OwnerOf[d] ELSE NoUser)
                          ELSE price[d]]
    BY DEF CommitBatch
  <2> QED BY <2>1
<1>3. urow' = [urow EXCEPT ![s] = [u \in Users |->
                      IF report[s].of \cap ClientsOf(s, u) # {}
                      THEN UserUpserted(urow[s][u], Sum(report[s], s, u),
                                        Restarted(s, report[s].boot))
                      ELSE urow[s][u]]]
  BY DEF CommitBatch, BillInv, BillTypeOK
<1>4. urow \in [Servers -> [Users -> UserRow]]
  BY DEF BillInv, BillTypeOK
<1> QED BY <1>1, <1>2, <1>3, <1>4, BatchOnServer

-----------------------------------------------------------------------------
(* Every step keeps every part of the invariant. *)

\* The types.
LEMMA BillTypeStep == BillInv /\ [BillNext]_allVars => BillTypeOK'
<1> SUFFICES ASSUME BillInv, [BillNext]_allVars PROVE BillTypeOK'
  OBVIOUS
<1>0. BillTypeOK
  BY DEF BillInv
<1>1. ASSUME NEW s \in Servers, CommitBatch(s) PROVE BillTypeOK'
  <2> DEFINE flag == Restarted(s, report[s].boot)
  <2>1. \A c \in Clients : price'[c] \in Price
    <3> SUFFICES ASSUME NEW c \in Clients PROVE price'[c] \in Price
      OBVIOUS
    <3>1. CASE c \notin report[s].of
      BY <1>0, <1>1, <3>1, BatchPrices DEF BillTypeOK
    <3>2. CASE c \in report[s].of
      BY <1>1, <3>2, BatchOnPrice
    <3> QED BY <3>1, <3>2
  <2>2. price' \in [Clients -> Price]
    BY <1>1, <2>1, BatchFunctions
  <2>3. \A u \in Users : urow'[s][u] \in UserRow
    <3>1. flag \in BOOLEAN
      BY DEF Restarted
    <3> QED BY <1>1, <3>1, BatchFunctions, SumIsCounted
  <2>4. urow' \in [Servers -> [Users -> UserRow]]
    BY <1>0, <1>1, <2>3, BatchFunctions DEF BillTypeOK
  <2> QED BY <1>0, <1>1, <2>2, <2>4, BatchFunctions DEF BillTypeOK
<1>2. ASSUME NEW u \in Users, ResetCycle(u) PROVE BillTypeOK'
  <2>1. price' \in [Clients -> Price] /\ closed' \in [Clients -> Nat]
    <3>1. row \in [Clients -> Row]
      BY DEF BillInv, LedgerInv, TypeOK
    <3>2. \A c \in Clients : CycleReset(c, u) \in Price /\ price[c].weighted \in Nat
      BY ZenonT(40), <1>0, <3>1 DEF BillTypeOK, CycleReset, Price, Row
    <3> QED BY <1>0, <1>2, <3>2 DEF ResetCycle, BillTypeOK
  <2>2. urow' \in [Servers -> [Users -> UserRow]]
    <3>1. \A s \in Servers : [urow[s] EXCEPT ![u].up = 0] \in [Users -> UserRow]
      <4> SUFFICES ASSUME NEW s \in Servers
                   PROVE  [urow[s] EXCEPT ![u].up = 0] \in [Users -> UserRow]
        OBVIOUS
      <4> DEFINE old == urow[s]
      <4>1. old \in [Users -> UserRow]
        BY <1>0 DEF BillTypeOK
      <4> HIDE DEF old
      <4>2. [old[u] EXCEPT !.up = 0] \in UserRow
        BY <4>1 DEF UserRow
      <4>3. [old EXCEPT ![u] = [old[u] EXCEPT !.up = 0]] \in [Users -> UserRow]
        BY <4>1, <4>2
      <4> QED BY <4>3 DEF old
    <3> QED BY <1>2, <3>1 DEF ResetCycle
  <2>3. torn' \in [Servers -> [Users -> BOOLEAN]]
    <3>1. \A s \in Servers : [torn[s] EXCEPT ![u] =
                    \/ @
                    \/ \E c \in ClientsOf(s, u) :
                          row[c].known /\ price[c].attr # u] \in [Users -> BOOLEAN]
      BY <1>0 DEF BillTypeOK
    <3> QED BY <1>2, <3>1 DEF ResetCycle
  <2> QED BY <2>1, <2>2, <2>3 DEF BillTypeOK
<1>3. ASSUME NEW c \in Clients, ChangeClient(c) PROVE BillTypeOK'
  <2>1. torn' \in [Servers -> [Users -> BOOLEAN]]
    BY <1>0, <1>3 DEF ChangeClient, BillTypeOK, Rostered, UserRow
  <2> QED BY <1>0, <1>3, <2>1 DEF ChangeClient, BillTypeOK
<1>4. ASSUME LedgerOnly PROVE BillTypeOK'
  BY <1>0, <1>4 DEF LedgerOnly, billVars, BillTypeOK
<1>5. ASSUME UNCHANGED allVars PROVE BillTypeOK'
  BY <1>0, <1>5 DEF allVars, billVars, BillTypeOK
<1> QED BY <1>1, <1>2, <1>3, <1>4, <1>5 DEF BillNext

\* A client that comes or goes, and everything that is not a batch, leaves the
\* rows alone.
LEMMA RowsStay ==
    ASSUME BillInv,
           \/ \E u \in Users : ResetCycle(u)
           \/ \E c \in Clients : ChangeClient(c)
           \/ LedgerOnly \/ UNCHANGED allVars
    PROVE  row' = row
BY DEF ResetCycle, ChangeClient, LedgerOnly, AddClient, RemoveClient, Traffic,
       XrayRestart, Send, Heartbeat, ReadBoot, BatchFails, Lose, MasterRestart,
       allVars, vars

\* Prices.
LEMMA PriceStep == BillInv /\ [BillNext]_allVars => PriceInv'
<1> USE DEF PriceOf
<1> SUFFICES ASSUME BillInv, [BillNext]_allVars, NEW c \in Clients
             PROVE  PriceOf(c)'
  BY DEF PriceInv, PriceOf
<1>0. /\ price[c].attr \in {OwnerOf[c], NoUser}
      /\ ~row[c].known => row[c] = NoRow /\ price[c] = NoPrice
      /\ price[c].ubase <= row[c].up /\ price[c].wbase <= price[c].weighted
      /\ price[c].weighted <= Dearest * row[c].up
      /\ price[c] \in Price /\ row[c] \in Row
  BY DEF BillInv, PriceInv, PriceOf, BillTypeOK, LedgerInv, TypeOK
<1>D. Dearest' = Dearest /\ Dearest \in Nat
  BY DearestIsDearest DEF Dearest
<1>1. ASSUME NEW s \in Servers, CommitBatch(s), c \in report[s].of
      PROVE  PriceOf(c)'
  <2> DEFINE flag == Restarted(s, report[s].boot)
             v == report[s].raw[c]
             d == Delta(v, row[c].last, flag)
  <2>3. /\ price'[c] \in Price /\ price'[c].attr \in {OwnerOf[c], NoUser}
        /\ ~row[c].known =>
              price'[c].weighted = 0 /\ price'[c].ubase = 0 /\ price'[c].wbase = 0
        /\ row[c].known =>
              /\ d \in Nat
              /\ \E w \in Weights \cup {1} : price'[c].weighted = price[c].weighted + d * w
              /\ price'[c].ubase = price[c].ubase /\ price'[c].wbase = price[c].wbase
    BY <1>1, BatchOnPrice
  <2>4. /\ row'[c].known
        /\ ~row[c].known => row'[c].up = 0
        /\ row[c].known => row'[c].up = row[c].up + d
    BY <1>1, CommitOnClient DEF BillInv, CommitBatch
  <2> HIDE DEF d, v, flag
  <2>6. CASE row[c].known
    <3>0. PICK w \in Weights \cup {1} : price'[c].weighted = price[c].weighted + d * w
      BY <2>3, <2>6
    <3>w. w \in Nat /\ w <= Dearest
      BY DearestIsDearest
    <3> DEFINE up == row[c].up
               we == price[c].weighted
    <3>1. d \in Nat /\ up \in Nat /\ we \in Nat
      BY <1>0, <2>3, <2>6 DEF Row, Price
    <3>2. d * w <= d * Dearest
      BY <1>D, <3>w, <3>1
    <3>3. /\ Dearest * (up + d) = Dearest * up + d * Dearest
          /\ Dearest * up \in Nat /\ d * w \in Nat /\ d * Dearest \in Nat
      BY <1>D, <3>w, <3>1
    <3>4. we <= Dearest * up
      BY <1>0
    <3> DEFINE dw == d * w
               dd == d * Dearest
               ud == Dearest * up
    <3>5. /\ price'[c].weighted = we + dw /\ row'[c].up = up + d
          /\ Dearest' * row'[c].up = ud + dd
      BY <1>D, <2>4, <2>6, <3>0, <3>3
    <3>6. dw \in Nat /\ dd \in Nat /\ ud \in Nat /\ dw <= dd /\ we <= ud
      BY <3>2, <3>3, <3>4
    <3>7. /\ price[c].ubase \in Nat /\ price[c].ubase <= up
          /\ price[c].wbase \in Nat /\ price[c].wbase <= we
      BY <1>0 DEF Price
    <3>8. price'[c].ubase = price[c].ubase /\ price'[c].wbase = price[c].wbase
      BY <2>3, <2>6
    <3> HIDE DEF dw, dd, ud, up, we
    <3>9. /\ price'[c].ubase <= row'[c].up /\ price'[c].wbase <= price'[c].weighted
          /\ price'[c].weighted <= Dearest' * row'[c].up
      BY <3>1, <3>5, <3>6, <3>7, <3>8
    <3> QED BY <2>3, <2>4, <3>9
  <2>7. CASE ~row[c].known
    <3>1. Dearest' * 0 = 0
      BY <1>D
    <3> QED BY <2>3, <2>4, <2>7, <3>1
  <2> QED BY <2>6, <2>7
<1>2. ASSUME NEW s \in Servers, CommitBatch(s), c \notin report[s].of
      PROVE  row'[c] = row[c] /\ price'[c] = price[c]
  BY <1>2, BatchPrices
<1>3. ASSUME NEW u \in Users, ResetCycle(u)
      PROVE  /\ row'[c] = row[c]
             /\ price'[c] = price[c] \/
                  /\ price[c].attr = u
                  /\ price'[c] = [price[c] EXCEPT !.ubase = row[c].up, !.wbase = price[c].weighted]
  BY <1>3, RowsStay DEF ResetCycle, CycleReset
<1>4. CASE \/ \E d \in Clients : ChangeClient(d)
           \/ LedgerOnly \/ UNCHANGED allVars
  <2>1. row' = row /\ price' = price
    BY <1>4, RowsStay DEF ChangeClient, LedgerOnly, billVars, allVars
  <2> QED BY <1>0, <1>D, <2>1
<1>5. ASSUME NEW s \in Servers, CommitBatch(s)
      PROVE  PriceOf(c)'
  BY <1>0, <1>D, <1>1, <1>2, <1>5
<1>6. ASSUME NEW u \in Users, ResetCycle(u)
      PROVE  PriceOf(c)'
  <2>1. CASE price'[c] = price[c]
    BY <1>0, <1>D, <1>3, <1>6, <2>1
  <2>2. CASE /\ price[c].attr = u
             /\ price'[c] = [price[c] EXCEPT !.ubase = row[c].up, !.wbase = price[c].weighted]
    <3>1. row[c].known
      BY <1>0, <2>2, BillingAssumption DEF NoPrice
    <3>2. row'[c] = row[c]
      BY <1>3, <1>6
    <3>3. /\ price'[c].ubase = row[c].up /\ price'[c].wbase = price[c].weighted
          /\ price'[c].weighted = price[c].weighted /\ price'[c].attr = price[c].attr
      BY <1>0, <2>2 DEF Price
    <3>4. row[c].up <= row[c].up /\ price[c].weighted <= price[c].weighted
      BY <1>0 DEF Row, Price
    <3> QED BY <1>0, <1>D, <3>1, <3>2, <3>3, <3>4
  <2> QED BY <1>3, <1>6, <2>1, <2>2
<1> QED BY <1>4, <1>5, <1>6 DEF BillNext

\* What was closed.
LEMMA CycleStep == BillInv /\ [BillNext]_allVars => CycleInv'
<1> USE DEF CycleOf
<1> SUFFICES ASSUME BillInv, [BillNext]_allVars, NEW c \in Clients
             PROVE  CycleOf(c)'
  BY DEF CycleInv, CycleOf
<1> DEFINE s0 == ServerOf[c]
           u0 == OwnerOf[c]
<1>0. /\ closed[c] <= price[c].weighted
      /\ ~torn[s0][u0] => closed[c] = price[c].wbase
      /\ price[c].attr \in {u0, NoUser}
      /\ ~row[c].known => price[c] = NoPrice
      /\ price[c].wbase <= price[c].weighted
      /\ price[c] \in Price /\ row[c] \in Row /\ closed[c] \in Nat
      /\ torn \in [Servers -> [Users -> BOOLEAN]]
  BY DEF BillInv, CycleInv, CycleOf, PriceInv, PriceOf, BillTypeOK, LedgerInv, TypeOK
<1>T. s0 \in Servers /\ u0 \in Users /\ c \in ClientsOf(s0, u0)
  BY LedgerAssumption, BillingAssumption DEF ClientsOf, ClientsOn
<1>1. ASSUME NEW s \in Servers, CommitBatch(s)
      PROVE  CycleOf(c)'
  <2>1. closed' = closed /\ torn' = torn
    BY <1>1, BatchFunctions
  <2>2. CASE c \notin report[s].of
    BY <1>0, <1>1, <2>1, <2>2, BatchPrices
  <2>3. CASE c \in report[s].of
    <3> DEFINE flag == Restarted(s, report[s].boot)
               v == report[s].raw[c]
               d == Delta(v, row[c].last, flag)
    <3>3. /\ ~row[c].known =>
                price'[c].weighted = 0 /\ price'[c].ubase = 0 /\ price'[c].wbase = 0
          /\ row[c].known =>
                /\ d \in Nat
                /\ \E w \in Weights \cup {1} : price'[c].weighted = price[c].weighted + d * w
                /\ price'[c].ubase = price[c].ubase /\ price'[c].wbase = price[c].wbase
      BY <1>1, <2>3, BatchOnPrice
    <3>5. CASE row[c].known
      <4> HIDE DEF d
      <4>0. PICK w \in Weights \cup {1} : price'[c].weighted = price[c].weighted + d * w
        BY <3>3, <3>5
      <4> DEFINE m == d * w
      <4>1. m \in Nat
        BY <3>3, <3>5, DearestIsDearest
      <4>2. price'[c].weighted = price[c].weighted + m
        BY <4>0
      <4> HIDE DEF m
      <4>3. closed[c] <= price[c].weighted + m
        BY <1>0, <4>1 DEF Price
      <4> QED BY <1>0, <2>1, <3>3, <3>5, <4>2, <4>3
    <3>6. CASE ~row[c].known
      BY <1>0, <2>1, <3>3, <3>6 DEF NoPrice
    <3> QED BY <3>5, <3>6
  <2> QED BY <2>2, <2>3
<1>2. ASSUME NEW u \in Users, ResetCycle(u)
      PROVE  CycleOf(c)'
  <2>1. /\ price'[c] = CycleReset(c, u)
        /\ closed'[c] = IF u0 = u THEN price[c].weighted ELSE closed[c]
        /\ torn'[s0] = [torn[s0] EXCEPT ![u] =
                    \/ @
                    \/ \E d \in ClientsOf(s0, u) :
                          row[d].known /\ price[d].attr # u]
    BY <1>2, <1>T DEF ResetCycle
  <2>2. CASE u0 # u
    <3>1. price'[c] = price[c] /\ torn'[s0][u0] = torn[s0][u0]
      BY <1>0, <1>2, <1>T, <2>1, <2>2, BillingAssumption DEF CycleReset
    <3> QED BY <1>0, <2>1, <2>2, <3>1
  <2>3. CASE u0 = u /\ price[c].attr = u
    <3>1. price'[c].weighted = price[c].weighted /\ price'[c].wbase = price[c].weighted
      BY <1>0, <2>1, <2>3 DEF CycleReset, Price
    <3>2. price[c].weighted <= price[c].weighted
      BY <1>0 DEF Price
    <3> QED BY <2>1, <2>3, <3>1, <3>2
  <2>4. CASE u0 = u /\ price[c].attr # u
    <3>1. price'[c] = price[c] /\ closed'[c] = price[c].weighted
      BY <2>1, <2>4 DEF CycleReset
    <3>2. price[c].weighted <= price[c].weighted
      BY <1>0 DEF Price
    <3>3. row[c].known => torn'[s0][u0]
      BY <1>0, <1>T, <2>1, <2>4
    <3>4. ~row[c].known => price[c].weighted = price[c].wbase
      BY <1>0 DEF NoPrice
    <3> QED BY <3>1, <3>2, <3>3, <3>4
  <2> QED BY <2>2, <2>3, <2>4
<1>3. ASSUME NEW d \in Clients, ChangeClient(d)
      PROVE  CycleOf(c)'
  <2>1. closed' = closed /\ price' = price
    BY <1>3 DEF ChangeClient
  <2>2. torn[s0][u0] => torn'[s0][u0]
    BY <1>0, <1>3, <1>T DEF ChangeClient
  <2> QED BY <1>0, <2>1, <2>2
<1>4. CASE LedgerOnly \/ UNCHANGED allVars
  <2>1. closed' = closed /\ price' = price /\ torn' = torn
    BY <1>4 DEF LedgerOnly, billVars, allVars
  <2> QED BY <1>0, <2>1
<1> QED BY <1>1, <1>2, <1>3, <1>4 DEF BillNext

-----------------------------------------------------------------------------
(* The sums *)

\* A batch that brings no hazard finds every counter at or above its baseline,
\* unless it carries the news of a restart.
LEMMA NeverLower ==
    ASSUME BillInv, NEW s \in Servers, CommitBatch(s), NEW c \in report[s].of,
           row[c].known, doubt'[c] = {}, ~Restarted(s, report[s].boot)
    PROVE  row[c].last <= report[s].raw[c]
<1> DEFINE r == report[s]
<1>1. Commit(s) /\ LedgerInv
  BY DEF CommitBatch, BillInv
<1>2. c \in Clients /\ ServerOf[c] = s
  BY <1>1 DEF LedgerInv, BootOrder, ClientsOn
<1>3. doubt[c] = {} /\ doubt'[c] = doubt[c] \cup NewDoubt(c, r)
  BY <1>1, <1>2, CommitOnClient
<1>4. "staleBoot" \notin NewDoubt(c, r) /\ "coldStart" \notin NewDoubt(c, r)
  <2>1. \A h : h \notin NewDoubt(c, r)
    BY <1>3
  <2> QED BY <2>1
<1>5. r.boot = r.epoch /\ ~ (detector[s] = 0 /\ seen[c].epoch # r.epoch)
  BY <1>2, <1>4 DEF NewDoubt
<1>6. r.epoch # 0
  BY <1>1 DEF LedgerInv, BootOrder, Commit
<1>7. /\ row[c].last = seen[c].raw
      /\ detector[s] # 0 => detector[s] = seen[c].epoch
      /\ seen[c].epoch = r.epoch => seen[c].inc = r.inc[c]
  BY <1>1, <1>2, <1>3 DEF LedgerInv, Exact, ExactFor
<1>8. seen[c].inc = r.inc[c] => seen[c].raw <= r.raw[c]
  BY <1>1, <1>2 DEF LedgerInv, ReadingOrder, InOrder
<1> QED BY <1>5, <1>6, <1>7, <1>8 DEF Restarted

\* The terms of the sums are integers.
LEMMA TermsAreInt ==
    ASSUME BillTypeOK, TypeOK, NEW c \in Clients
    PROVE  Baselines[c] \in Nat /\ Moved[c] \in Int
BY DEF BillTypeOK, TypeOK, Baselines, Moved, Row, Price

\* A step that changes nothing of an account keeps its roster.
LEMMA RosterKept ==
    ASSUME BillInv, NEW s \in Servers, NEW u \in Users, RosterOf(s, u),
           urow'[s][u] = urow[s][u],
           \A c \in ClientsOf(s, u) :
              /\ row'[c] = row[c] /\ price'[c] = price[c]
              /\ urow[s][u].known => (c \in present' <=> c \in present),
           report'[s].stage # "idle"
              /\ (urow[s][u].known \/ report'[s].of \cap ClientsOf(s, u) # {}) =>
                 report'[s].of \cap ClientsOf(s, u) = present' \cap ClientsOf(s, u)
    PROVE  RosterOf(s, u)'
<1> DEFINE C == ClientsOf(s, u)
<1>1. C' = C /\ C \in SUBSET Clients /\ IsFiniteSet(C)
  <2>1. C' = C
    BY DEF ClientsOf, ClientsOn
  <2> QED BY <2>1, ClientsOfFinite
<1>2. \A c \in C : Baselines'[c] = Baselines[c] /\ Moved'[c] = Moved[c]
  BY <1>1 DEF Baselines, Moved
<1> HIDE DEF C
<1>3. /\ SumFunctionOnSet(Baselines', C) = SumFunctionOnSet(Baselines, C)
      /\ SumFunctionOnSet(Moved', C) = SumFunctionOnSet(Moved, C)
  BY <1>1, <1>2, SumsEqual
<1> QED BY <1>1, <1>3 DEF RosterOf, C

\* An account a batch brought something of.
LEMMA RosterOfBatch ==
    ASSUME BillInv, NEW s \in Servers, CommitBatch(s), NEW u \in Users,
           report[s].of \cap ClientsOf(s, u) # {},
           RosterOf(s, u), \A c \in ClientsOf(s, u) : doubt'[c] = {}
    PROVE  RosterOf(s, u)'
<1> DEFINE r == report[s]
           C == ClientsOf(s, u)
           P == r.of \cap C
           flag == Restarted(s, r.boot)
           old == urow[s][u]
           total == SumFunctionOnSet(r.raw, P)
<1>1. Commit(s) /\ LedgerInv /\ BillTypeOK /\ TypeOK /\ r \in Report /\ flag \in BOOLEAN
  BY DEF CommitBatch, BillInv, LedgerInv, TypeOK, Restarted
<1>2. /\ C' = C /\ C \in SUBSET Clients /\ IsFiniteSet(C)
      /\ P \subseteq C /\ IsFiniteSet(P)
  <2>1. C' = C
    BY DEF ClientsOf, ClientsOn
  <2>2. C \in SUBSET Clients /\ IsFiniteSet(C)
    BY ClientsOfFinite
  <2> QED BY <2>1, <2>2, FS_Subset
<1>3. P = present \cap C
  BY <1>1 DEF RosterOf, Commit
<1>4. \A c \in C \ P : ~row[c].known /\ row[c] = NoRow /\ price[c] = NoPrice
                       /\ row'[c] = row[c] /\ price'[c] = price[c]
  <2>1. \A c \in C \ P : ~row[c].known
    BY <1>3 DEF RosterOf
  <2> QED BY <1>2, <2>1, BatchPrices DEF BillInv, PriceInv, PriceOf
<1>5. \A c \in P : /\ row'[c].known /\ row'[c].last = r.raw[c] /\ r.raw[c] \in Nat
                   /\ row[c].known <=> old.known
  <2>1. \A c \in P : row[c].known <=> old.known
    BY <1>3 DEF RosterOf
  <2>2. \A c \in P : r.raw[c] \in Nat
    BY <1>1, <1>2 DEF Report
  <2> QED BY <1>1, <1>2, <2>1, <2>2, CommitOnClient
<1>6. \A c \in P : ~row[c].known => row'[c].up = 0 /\ price'[c].ubase = 0
  BY <1>1, <1>2, CommitOnClient, BatchOnPrice
<1>7. \A c \in P : row[c].known =>
         /\ row'[c].up = row[c].up + Delta(r.raw[c], row[c].last, flag)
         /\ price'[c].ubase = price[c].ubase
  BY <1>1, <1>2, CommitOnClient, BatchOnPrice
<1>8. \A c \in P : row[c].known /\ ~flag => row[c].last <= r.raw[c]
  BY <1>2, NeverLower
<1>9. urow'[s][u] = UserUpserted(old, total, flag)
  BY BatchFunctions DEF Sum
<1>10. report'[s].stage = "idle" /\ present' = present
  BY BatchFunctions
<1>11. old \in UserRow /\ total \in Nat
  BY SumIsCounted DEF Sum
<1>12. \A c \in C : /\ Baselines'[c] = row'[c].last /\ Moved'[c] = row'[c].up - price'[c].ubase
                    /\ Baselines[c] = row[c].last /\ Moved[c] = row[c].up - price[c].ubase
                    /\ Baselines[c] \in Nat /\ Moved[c] \in Int
                    /\ row[c] \in Row /\ price[c] \in Price
  BY <1>1, <1>2, TermsAreInt DEF Baselines, Moved, TypeOK, BillTypeOK
<1>13. /\ ~old.known => \A c \in C : ~row[c].known
       /\ old.known => old.last = SumFunctionOnSet(Baselines, C)
       /\ old.up = SumFunctionOnSet(Moved, C)
  BY DEF RosterOf
<1>G. ASSUME urow'[s][u].known,
             urow'[s][u].last = SumFunctionOnSet(Baselines', C),
             urow'[s][u].up = SumFunctionOnSet(Moved', C)
      PROVE  RosterOf(s, u)'
  <2>1. \A c \in C : row'[c].known <=> c \in present'
    BY <1>3, <1>4, <1>5, <1>10
  <2> QED BY <1>2, <1>10, <1>G, <2>1 DEF RosterOf
<1> HIDE DEF r, C, P, flag, old, total
<1>14. total = SumFunctionOnSet(Baselines', C)
  <2>1. \A c \in C \ P : Baselines'[c] = 0
    BY <1>4, <1>12 DEF NoRow
  <2>2. \A c \in P : Baselines'[c] = r.raw[c]
    BY <1>2, <1>5, <1>12
  <2>3. \A c \in C : Baselines'[c] \in Int
    BY <1>5, <2>1, <2>2
  <2>4. SumFunctionOnSet(Baselines', C) = SumFunctionOnSet(Baselines', P)
    BY <1>2, <2>1, <2>3, SumOfSupport
  <2>5. SumFunctionOnSet(Baselines', P) = total
    BY <1>2, <2>2, SumsEqual DEF total
  <2> QED BY <2>4, <2>5
<1>15. urow'[s][u].known /\ urow'[s][u].last = total
       /\ urow'[s][u].up = IF old.known THEN old.up + Delta(total, old.last, flag) ELSE 0
  BY <1>9, <1>11 DEF UserUpserted, UserRow
<1>16. CASE ~old.known
  <2>1. \A c \in C : Moved'[c] = 0
    BY <1>4, <1>5, <1>6, <1>12, <1>16 DEF NoRow, NoPrice
  <2>2. SumFunctionOnSet(Moved', C) = 0
    BY <1>2, <2>1, SumOfNothing
  <2> QED BY <1>14, <1>15, <1>16, <1>G, <2>2
<1>17. CASE old.known
  <2> DEFINE D == [c \in C |-> IF c \in P THEN Delta(r.raw[c], row[c].last, flag) ELSE 0]
             R == [c \in C |-> IF c \in P THEN r.raw[c] ELSE 0]
  <2>1. \A c \in C : /\ D[c] = IF c \in P THEN Delta(r.raw[c], row[c].last, flag) ELSE 0
                     /\ R[c] = IF c \in P THEN r.raw[c] ELSE 0
    OBVIOUS
  <2> HIDE DEF D, R
  <2>2. \A c \in C : D[c] \in Nat /\ R[c] \in Nat
    BY <1>5, <1>12, <2>1 DEF Delta, Monus, Row
  <2>3. \A c \in C : Moved'[c] = Moved[c] + D[c]
    <3>1. \A c \in P : Moved'[c] = Moved[c] + D[c]
      <4> SUFFICES ASSUME NEW c \in P PROVE Moved'[c] = Moved[c] + D[c]
        OBVIOUS
      <4>1. c \in C /\ row[c].known
        BY <1>2, <1>5, <1>17
      <4>2. row'[c].up = row[c].up + D[c] /\ price'[c].ubase = price[c].ubase
        BY <1>7, <2>1, <4>1
      <4>3. row[c].up \in Nat /\ price[c].ubase \in Nat /\ D[c] \in Nat
        BY <1>12, <2>2, <4>1 DEF Row, Price
      <4> QED BY <1>12, <4>1, <4>2, <4>3
    <3>2. \A c \in C \ P : Moved'[c] = Moved[c] + D[c]
      BY <1>4, <1>12, <2>1
    <3> QED BY <3>1, <3>2
  <2>4. SumFunctionOnSet(Moved', C) = old.up + SumFunctionOnSet(D, C)
    <3>1. \A c \in C : Moved[c] \in Int /\ D[c] \in Int /\ Moved'[c] = Moved[c] + D[c]
      BY <1>12, <2>2, <2>3
    <3>2. SumFunctionOnSet(Moved', C) = SumFunctionOnSet(Moved, C) + SumFunctionOnSet(D, C)
      BY <1>2, <3>1, SumOfSums
    <3> QED BY <1>13, <3>2
  <2>5. SumFunctionOnSet(R, C) = total
    <3>1. \A c \in C : R[c] \in Int
      BY <2>2
    <3>2. \A c \in C \ P : R[c] = 0
      BY <2>1
    <3>3. SumFunctionOnSet(R, C) = SumFunctionOnSet(R, P)
      BY <1>2, <3>1, <3>2, SumOfSupport
    <3>4. \A c \in P : R[c] = r.raw[c]
      BY <1>2, <2>1
    <3>5. SumFunctionOnSet(R, P) = SumFunctionOnSet(r.raw, P)
      BY <1>2, <3>4, SumsEqual
    <3> QED BY <3>3, <3>5 DEF total
  <2>6. SumFunctionOnSet(D, C) = Delta(total, old.last, flag)
    <3>1. CASE flag
      <4>1. \A c \in C : D[c] = R[c]
        BY <2>1, <3>1 DEF Delta
      <4>2. SumFunctionOnSet(D, C) = SumFunctionOnSet(R, C)
        BY <1>2, <4>1, SumsEqual
      <4> QED BY <2>5, <3>1, <4>2 DEF Delta
    <3>2. CASE ~flag
      <4>1. \A c \in C : R[c] = Baselines[c] + D[c]
        <5>1. \A c \in P : R[c] = Baselines[c] + D[c]
          <6> SUFFICES ASSUME NEW c \in P PROVE R[c] = Baselines[c] + D[c]
            OBVIOUS
          <6>1. c \in C /\ row[c].known /\ row[c].last <= r.raw[c] /\ r.raw[c] \in Nat
            BY <1>2, <1>5, <1>8, <1>17, <3>2
          <6>2. row[c].last \in Nat /\ Baselines[c] = row[c].last
            BY <1>12, <6>1
          <6> QED BY <2>1, <3>2, <6>1, <6>2 DEF Delta, Monus
        <5>2. \A c \in C \ P : R[c] = Baselines[c] + D[c]
          BY <1>4, <1>12, <2>1 DEF NoRow
        <5> QED BY <5>1, <5>2
      <4>2. \A c \in C : Baselines[c] \in Int /\ D[c] \in Int /\ R[c] = Baselines[c] + D[c]
        BY <1>12, <2>2, <4>1
      <4>3. SumFunctionOnSet(R, C) = SumFunctionOnSet(Baselines, C) + SumFunctionOnSet(D, C)
        BY <1>2, <4>2, SumOfSums
      <4>4. SumFunctionOnSet(D, C) \in Nat
        BY <1>2, <2>2, SumIsNat
      <4>5. total = old.last + SumFunctionOnSet(D, C)
        BY <1>13, <1>17, <2>5, <4>3
      <4>6. old.last \in Nat
        BY <1>11 DEF UserRow
      <4> QED BY <1>11, <3>2, <4>4, <4>5, <4>6 DEF Delta, Monus
    <3> QED BY <3>1, <3>2
  <2>7. urow'[s][u].up = SumFunctionOnSet(Moved', C)
    BY <1>15, <1>17, <2>4, <2>6
  <2> QED BY <1>14, <1>15, <1>G, <2>7
<1> QED BY <1>16, <1>17

\* A doubt never goes away.
LEMMA DoubtStays ==
    ASSUME BillInv, [BillNext]_allVars, NEW c \in Clients, doubt'[c] = {}
    PROVE  doubt[c] = {}
<1>0. LedgerInv /\ TypeOK /\ [Next]_vars
  BY BillStepsTheLedger DEF BillInv, LedgerInv
<1>1. ASSUME NEW s \in Servers, Commit(s) PROVE doubt[c] = {}
  BY <1>0, <1>1, CommitOnClient
<1>2. ASSUME NEW s \in Servers, BatchFails(s) PROVE doubt[c] = {}
  BY <1>0, <1>2, FailOnClient
<1>3. ASSUME NEW d \in Clients, AddClient(d) PROVE doubt[c] = {}
  BY <1>0, <1>3 DEF AddClient, TypeOK
<1>4. ASSUME doubt' = doubt PROVE doubt[c] = {}
  BY <1>4
<1> QED BY <1>0, <1>1, <1>2, <1>3, <1>4
    DEF Next, Traffic, RemoveClient, XrayRestart, Send, Heartbeat, ReadBoot,
        Lose, MasterRestart, ghostVars, vars

\* What the rest of the ledger does to a report under way.
LEMMA ReportOf ==
    ASSUME BillInv, LedgerOnly \/ UNCHANGED allVars, NEW s \in Servers,
           report'[s].stage # "idle"
    PROVE  \/ report[s].stage # "idle" /\ report'[s].of = report[s].of
           \/ report'[s].of = present \cap ClientsOn(s)
<1>0. report \in [Servers -> Report]
  BY DEF BillInv, LedgerInv, TypeOK
<1>1. ASSUME report' = report
      PROVE  report[s].stage # "idle" /\ report'[s].of = report[s].of
  BY <1>1
<1>2. ASSUME NEW t \in Servers, Send(t)
      PROVE  \/ report[s].stage # "idle" /\ report'[s].of = report[s].of
             \/ report'[s].of = present \cap ClientsOn(s)
  BY <1>0, <1>2 DEF Send
<1>3. ASSUME NEW t \in Servers, ReadBoot(t)
      PROVE  report[s].stage # "idle" /\ report'[s].of = report[s].of
  <2>1. PICK boot \in Known(bootDB[t]) :
           report' = [report EXCEPT ![t].stage = "booted", ![t].boot = boot]
    BY <1>3 DEF ReadBoot
  <2>2. report'[s].of = report[s].of /\ (s # t => report'[s] = report[s])
    BY <1>0, <2>1 DEF Report
  <2> QED BY <1>3, <2>2 DEF ReadBoot
<1>4. ASSUME NEW t \in Servers, BatchFails(t) \/ Lose(t)
      PROVE  report[s].stage # "idle" /\ report'[s].of = report[s].of
  <2>1. report' = [report EXCEPT ![t] = Idle]
    BY <1>4 DEF BatchFails, Lose
  <2>2. s # t
    BY <1>0, <2>1 DEF Idle
  <2> QED BY <1>0, <2>1, <2>2
<1>5. ASSUME MasterRestart PROVE FALSE
  BY <1>5 DEF MasterRestart, Idle
<1> QED BY <1>1, <1>2, <1>3, <1>4, <1>5
    DEF LedgerOnly, Traffic, XrayRestart, Heartbeat, allVars, vars

\* Rosters.
LEMMA RosterStep == BillInv /\ [BillNext]_allVars => RosterInv'
<1> SUFFICES ASSUME BillInv, [BillNext]_allVars, NEW s \in Servers, NEW u \in Users,
                    Untouched(s, u)'
             PROVE  RosterOf(s, u)'
  BY DEF RosterInv
<1> DEFINE C == ClientsOf(s, u)
<1>0. /\ C' = C /\ C \in SUBSET Clients
      /\ BillTypeOK /\ TypeOK /\ LedgerInv /\ PriceInv
      /\ \A c \in C : ServerOf[c] = s /\ OwnerOf[c] = u
  BY DEF ClientsOf, ClientsOn, BillInv, LedgerInv
<1>1. ~torn'[s][u] /\ \A c \in C : doubt'[c] = {} /\ doubt[c] = {}
  BY <1>0, DoubtStays DEF Untouched
<1>2. torn[s][u] => torn'[s][u]
  <2>1. ASSUME NEW t \in Servers, CommitBatch(t) PROVE torn' = torn
    BY <2>1, BatchFunctions
  <2>2. ASSUME NEW v \in Users, ResetCycle(v) PROVE torn[s][u] => torn'[s][u]
    BY <1>0, <2>2 DEF ResetCycle, BillTypeOK
  <2>3. ASSUME NEW c \in Clients, ChangeClient(c) PROVE torn[s][u] => torn'[s][u]
    BY <1>0, <2>3 DEF ChangeClient, BillTypeOK
  <2> QED BY <2>1, <2>2, <2>3 DEF BillNext, LedgerOnly, billVars, allVars
<1>3. RosterOf(s, u)
  BY <1>1, <1>2 DEF BillInv, RosterInv, Untouched
<1>4. ASSUME NEW t \in Servers, CommitBatch(t) PROVE RosterOf(s, u)'
  <2>1. CASE t = s /\ report[s].of \cap C # {}
    BY <1>1, <1>3, <1>4, <2>1, RosterOfBatch
  <2>2. CASE t # s \/ report[s].of \cap C = {}
    <3>1. urow'[s][u] = urow[s][u] /\ present' = present
      BY <1>4, <2>2, BatchFunctions
    <3>2. \A c \in C : c \notin report[t].of
      BY <1>0, <2>2 DEF LedgerInv, BootOrder, ClientsOn
    <3>3. \A c \in C : row'[c] = row[c] /\ price'[c] = price[c]
      BY <1>0, <1>4, <3>2, BatchPrices
    <3>4. t = s => report'[s].stage = "idle"
      BY <1>4, BatchFunctions
    <3>5. t # s => report'[s] = report[s]
      BY <1>4, BatchFunctions
    <3>6. report'[s].stage # "idle"
              /\ (urow[s][u].known \/ report'[s].of \cap C # {}) =>
                 report'[s].of \cap C = present' \cap C
      BY <1>3, <3>1, <3>4, <3>5 DEF RosterOf
    <3> QED BY <1>3, <3>1, <3>3, <3>6, RosterKept
  <2> QED BY <2>1, <2>2
<1>5. ASSUME NEW v \in Users, ResetCycle(v) PROVE RosterOf(s, u)'
  <2>1. UNCHANGED vars /\ row' = row /\ present' = present /\ report' = report
    BY <1>5 DEF ResetCycle, vars
  <2>2. \A c \in C : price'[c] = CycleReset(c, v)
    BY <1>0, <1>5 DEF ResetCycle
  <2>3. urow'[s] = [urow[s] EXCEPT ![v].up = 0]
    BY <1>5 DEF ResetCycle
  <2>4. report'[s].stage # "idle"
              /\ (urow[s][u].known \/ report'[s].of \cap C # {}) =>
                 report'[s].of \cap C = present' \cap C
    BY <1>3, <2>1 DEF RosterOf
  <2>5. CASE v # u
    <3>1. urow'[s][u] = urow[s][u]
      BY <1>0, <2>3, <2>5 DEF BillTypeOK
    <3>2. \A c \in C : price'[c] = price[c]
      BY <1>0, <2>2, <2>5, BillingAssumption DEF PriceInv, PriceOf, CycleReset
    <3> QED BY <1>3, <2>1, <2>4, <3>1, <3>2, RosterKept
  <2>6. CASE v = u
    <3>1. urow'[s][u] = [urow[s][u] EXCEPT !.up = 0]
      BY <1>0, <2>3, <2>6 DEF BillTypeOK
    <3>2. \A c \in C : row[c].known => price[c].attr = u
      BY <1>0, <1>1, <1>5, <2>6 DEF ResetCycle, BillTypeOK
    <3>3. \A c \in C : Moved'[c] = 0
      <4> SUFFICES ASSUME NEW c \in C PROVE Moved'[c] = 0
        OBVIOUS
      <4>1. Moved'[c] = row[c].up - price'[c].ubase /\ row[c] \in Row /\ price[c] \in Price
        BY <1>0, <2>1 DEF Moved, TypeOK, BillTypeOK
      <4>2. CASE row[c].known
        <5>1. price'[c].ubase = row[c].up
          BY <2>2, <2>6, <3>2, <4>1, <4>2 DEF CycleReset, Price
        <5> QED BY <4>1, <5>1 DEF Row
      <4>3. CASE ~row[c].known
        <5>1. price'[c] = NoPrice /\ row[c] = NoRow
          <6>1. price[c] = NoPrice /\ row[c] = NoRow
            BY <1>0, <4>3 DEF PriceInv, PriceOf
          <6>2. price[c].attr # v
            BY <6>1, BillingAssumption DEF NoPrice
          <6> QED BY <2>2, <6>1, <6>2 DEF CycleReset
        <5> QED BY <4>1, <5>1 DEF NoPrice, NoRow
      <4> QED BY <4>2, <4>3
    <3>4. \A c \in C : Baselines'[c] = Baselines[c]
      BY <1>0, <2>1 DEF Baselines
    <3>5. IsFiniteSet(C)
      BY ClientsOfFinite
    <3>6. /\ urow'[s][u].known = urow[s][u].known
          /\ urow'[s][u].last = urow[s][u].last
          /\ urow'[s][u].up = 0
      BY <1>0, <3>1 DEF BillTypeOK, UserRow
    <3> HIDE DEF C
    <3>7. SumFunctionOnSet(Moved', C) = 0
      BY <3>3, <3>5, SumOfNothing
    <3>8. SumFunctionOnSet(Baselines', C) = SumFunctionOnSet(Baselines, C)
      BY <3>4, <3>5, SumsEqual
    <3> QED BY <1>0, <1>3, <2>1, <3>6, <3>7, <3>8 DEF RosterOf, C
  <2> QED BY <2>5, <2>6
<1>6. ASSUME NEW d \in Clients, ChangeClient(d) PROVE RosterOf(s, u)'
  <2>1. row' = row /\ report' = report /\ price' = price /\ urow' = urow
    BY <1>6, RowsStay DEF ChangeClient, AddClient, RemoveClient, ghostVars
  <2>2. \A c \in Clients : c # d => (c \in present' <=> c \in present)
    BY <1>6 DEF ChangeClient, AddClient, RemoveClient
  <2>3. CASE d \notin C
    <3>1. \A c \in C : c \in present' <=> c \in present
      BY <1>0, <2>2, <2>3
    <3>2. report'[s].stage # "idle"
              /\ (urow[s][u].known \/ report'[s].of \cap C # {}) =>
                 report'[s].of \cap C = present' \cap C
      BY <1>3, <2>1, <3>1 DEF RosterOf
    <3> QED BY <1>3, <2>1, <3>1, <3>2, RosterKept
  <2>4. CASE d \in C
    <3>1. ~urow[s][u].known /\ report[s].of \cap C = {}
      BY <1>0, <1>1, <1>6, <2>4 DEF ChangeClient, BillTypeOK, Rostered
    <3> QED BY <1>3, <2>1, <3>1, RosterKept
  <2> QED BY <2>3, <2>4
<1>7. ASSUME LedgerOnly \/ UNCHANGED allVars PROVE RosterOf(s, u)'
  <2>1. row' = row
    BY <1>7, RowsStay
  <2>2. price' = price /\ urow' = urow /\ present' = present
    BY <1>7 DEF LedgerOnly, Traffic, XrayRestart, Send, Heartbeat, ReadBoot,
                BatchFails, Lose, MasterRestart, allVars, vars, billVars
  <2>3. report'[s].stage # "idle"
              /\ (urow[s][u].known \/ report'[s].of \cap C # {}) =>
                 report'[s].of \cap C = present' \cap C
    <3> SUFFICES ASSUME report'[s].stage # "idle",
                        urow[s][u].known \/ report'[s].of \cap C # {}
                 PROVE  report'[s].of \cap C = present \cap C
      BY <2>2
    <3>1. CASE report[s].stage # "idle" /\ report'[s].of = report[s].of
      BY <1>3, <3>1 DEF RosterOf
    <3>2. CASE report'[s].of = present \cap ClientsOn(s)
      BY <3>2 DEF ClientsOf
    <3> QED BY <1>7, <3>1, <3>2, ReportOf
  <2> QED BY <1>3, <2>1, <2>2, <2>3, RosterKept
<1> QED BY <1>4, <1>5, <1>6, <1>7 DEF BillNext

-----------------------------------------------------------------------------
(* The theorems. *)

\* The invariant holds of every behaviour of the bills.
THEOREM BillInvariant == BillSpec => []BillInv
<1>1. BillInit => BillInv
  BY BillStarts
<1>2. BillInv /\ [BillNext]_allVars => BillInv'
  <2> SUFFICES ASSUME BillInv, [BillNext]_allVars PROVE BillInv'
    OBVIOUS
  <2>1. LedgerInv'
    BY BillStepsTheLedger, TypeStep, BootStep, ReadingStep, CoveredStep, ExactStep
    DEF BillInv, LedgerInv
  <2> QED BY <2>1, BillTypeStep, PriceStep, CycleStep, RosterStep DEF BillInv
<1> QED BY <1>1, <1>2, PTL DEF BillSpec

\* No price, sum or baseline of a bill ever goes below zero.
THEOREM BillTypeCorrect == BillSpec => []BillTypeOK
<1>1. BillInv => BillTypeOK
  BY DEF BillInv
<1> QED BY <1>1, BillInvariant, PTL

\* The user_traffic row of an account is the sum of what its emails moved.
THEOREM PanelAgreesWithBill == BillSpec => []PanelAndBillAgree
<1>1. BillInv => PanelAndBillAgree
  BY DEF BillInv, RosterInv, RosterOf, Untouched, PanelAndBillAgree
<1> QED BY <1>1, BillInvariant, PTL

\* Nobody is billed for more than the bytes witnessed at the dearest multiplier,
\* less the cycles that were closed.
THEOREM BillsStayWithinCycle == BillSpec => []BillWithinCycle
<1>1. BillInv => BillWithinCycle
  <2> SUFFICES ASSUME BillInv, NEW c \in Clients, "staleBoot" \notin doubt[c],
                      ~torn[ServerOf[c]][OwnerOf[c]]
               PROVE  BillableOf(c, OwnerOf[c]) <= Dearest * truth[c] - closed[c]
    BY DEF BillWithinCycle, Dearest
  <2> DEFINE up == row[c].up
             we == price[c].weighted
             most == Dearest * truth[c]
             mine == Dearest * up
  <2>1. /\ row[c] \in Row /\ truth[c] \in Nat /\ price[c] \in Price /\ closed[c] \in Nat
        /\ seen[c] \in [inc: Nat, raw: Nat, epoch: Nat]
        /\ Dearest \in Nat
    BY DearestIsDearest DEF BillInv, LedgerInv, TypeOK, BillTypeOK
  <2>2. up \in Nat /\ we \in Nat /\ price[c].wbase \in Nat
    BY <2>1 DEF Row, Price
  <2>3. up <= truth[c]
    <3>1. CASE row[c].known
      <4>1. up + Monus(seen[c].raw, row[c].last) <= truth[c]
        BY <3>1 DEF BillInv, LedgerInv, Covered, CoveredFor
      <4> QED BY <2>1, <4>1 DEF Monus, Row
    <3>2. CASE ~row[c].known
      BY <2>1, <3>2 DEF BillInv, PriceInv, PriceOf, NoRow
    <3> QED BY <3>1, <3>2
  <2>4. mine <= most /\ mine \in Nat /\ most \in Nat
    <3> HIDE DEF up
    <3> QED BY <2>1, <2>2, <2>3
  <2>5. we <= mine
    BY DEF BillInv, PriceInv, PriceOf
  <2>6. closed[c] = price[c].wbase /\ price[c].wbase <= we
    BY DEF BillInv, CycleInv, CycleOf, PriceInv, PriceOf
  <2>7. BillableOf(c, OwnerOf[c]) = we - price[c].wbase \/ BillableOf(c, OwnerOf[c]) = 0
    BY <2>2 DEF BillableOf, Monus
  <2> HIDE DEF up, we, most, mine
  <2>8. BillableOf(c, OwnerOf[c]) <= most - closed[c]
    BY <2>1, <2>2, <2>4, <2>5, <2>6, <2>7
  <2> QED BY <2>8 DEF most
<1> QED BY <1>1, BillInvariant, PTL
=============================================================================
