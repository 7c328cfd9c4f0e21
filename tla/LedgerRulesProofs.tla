------------------------- MODULE LedgerRulesProofs -------------------------
(***************************************************************************)
(* What the sums of the ledger rules compute, for every set of             *)
(* transactions.                                                           *)
(*                                                                         *)
(* A sum is a fold over a set, a function that is defined by recursion and *)
(* takes its elements in the order CHOOSE picks them.  The lemmas show     *)
(* that the function exists and that the order does not matter.  They are  *)
(* proved by induction on the size of a set, written as an argument about  *)
(* the smallest size for which a claim fails.                              *)
(***************************************************************************)
EXTENDS LedgerRules, Sequences, FiniteSetTheorems, WellFoundedInduction, TLAPS

-----------------------------------------------------------------------------
(* Induction.                                                              *)

\* A set of numbers that is not empty has a smallest one.
LEMMA SmallestNumber ==
  ASSUME NEW T \in SUBSET Nat, T # {}
  PROVE  \E n \in T : \A m \in T : n <= m
<1> DEFINE Less == {pair \in Nat \X Nat : pair[1] < pair[2]}
<1>1. IsWellFoundedOn(Less, Nat)
  BY NatLessThanWellFounded DEF OpToRel
<1>2. \A x, y \in Nat : y < x => <<y, x>> \in Less
  OBVIOUS
<1> HIDE DEF Less
<1>3. PICK n \in T : \A y \in T : ~(<<y, n>> \in Less)
  BY <1>1, WFMin
<1>4. ASSUME NEW m \in T
      PROVE  n <= m
  <2>1. m \in Nat /\ n \in Nat
    OBVIOUS
  <2>2. ~(m < n)
    BY <2>1, <1>2, <1>3
  <2> QED
    BY <2>1, <2>2
<1> QED
  BY <1>4

\* Induction, for a property given by the set of the numbers that have it.
LEMMA Induction ==
  ASSUME NEW P, 0 \in P, \A n \in Nat : n \in P => n + 1 \in P
  PROVE  Nat \subseteq P
<1> DEFINE Bad == Nat \ P
<1> SUFFICES ASSUME Bad # {}
             PROVE  FALSE
  OBVIOUS
<1>1. PICK n \in Bad : \A m \in Bad : n <= m
  <2> Bad \in SUBSET Nat
    OBVIOUS
  <2> HIDE DEF Bad
  <2> QED
    BY SmallestNumber
<1>2. n \in Nat /\ n # 0 /\ n \notin P
  OBVIOUS
<1>3. n - 1 \in Nat /\ ~(n <= n - 1)
  BY <1>2
<1>4. n - 1 \in P
  BY <1>1, <1>3
<1>5. (n - 1) + 1 = n
  BY <1>2
<1> QED
  BY <1>2, <1>3, <1>4, <1>5

\* Taking an element out of a finite set makes it one smaller.
LEMMA OneLess ==
  ASSUME NEW D, IsFiniteSet(D), NEW S \in SUBSET D, NEW x \in S
  PROVE  /\ IsFiniteSet(S) /\ Cardinality(S) \in Nat
         /\ S \ {x} \in SUBSET D
         /\ Cardinality(S \ {x}) \in Nat
         /\ Cardinality(S) = Cardinality(S \ {x}) + 1
<1>1. IsFiniteSet(S)
  BY FS_Subset
<1>2. Cardinality(S) \in Nat
  BY <1>1, FS_CardinalityType
<1>3. IsFiniteSet(S \ {x}) /\ Cardinality(S \ {x}) = Cardinality(S) - 1
  BY <1>1, FS_RemoveElement
<1>4. Cardinality(S \ {x}) \in Nat
  BY <1>3, FS_CardinalityType
<1> QED
  BY <1>1, <1>2, <1>3, <1>4

\* Induction over the subsets of a finite set, one element at a time.
LEMMA SubsetInduction ==
  ASSUME NEW D, IsFiniteSet(D), NEW P, {} \in P,
         \A S \in SUBSET D : S \in P => \A x \in D \ S : S \cup {x} \in P
  PROVE  SUBSET D \subseteq P
<1> DEFINE Q == {n \in Nat : \A S \in SUBSET D : Cardinality(S) = n => S \in P}
<1>1. 0 \in Q
  BY FS_Subset, FS_EmptySet
<1>2. ASSUME NEW n \in Nat, n \in Q
      PROVE  n + 1 \in Q
  <2> SUFFICES ASSUME NEW S \in SUBSET D, Cardinality(S) = n + 1
               PROVE  S \in P
    OBVIOUS
  <2>1. S # {}
    BY FS_EmptySet
  <2>2. PICK x : x \in S
    BY <2>1
  <2>3. /\ S \ {x} \in SUBSET D /\ Cardinality(S \ {x}) \in Nat
        /\ Cardinality(S) = Cardinality(S \ {x}) + 1
    BY <2>2, OneLess
  <2>4. Cardinality(S \ {x}) = n
    BY <2>3
  <2>5. S \ {x} \in P
    BY <1>2, <2>3, <2>4
  <2>6. x \in D \ (S \ {x}) /\ (S \ {x}) \cup {x} = S
    BY <2>2
  <2> QED
    BY <2>3, <2>5, <2>6
<1> HIDE DEF Q
<1>3. Nat \subseteq Q
  BY <1>1, <1>2, Induction
<1>4. \A S \in SUBSET D : Cardinality(S) \in Nat
  BY FS_Subset, FS_CardinalityType
<1> USE DEF Q
<1> QED
  BY <1>3, <1>4

-----------------------------------------------------------------------------
(* Sums.                                                                   *)

\* The element a fold takes from a set.
First(S) == CHOOSE x \in S : TRUE

\* One step of the recursion: what g gives for S is determined by what it gives
\* for S without its first element.
SumStep(g, f, S) == IF S = {} THEN 0 ELSE f[First(S)] + g[S \ {First(S)}]

\* g satisfies the recursion on the subsets of D.
Unfolds(g, f, D) == \A S \in SUBSET D : g[S] = SumStep(g, f, S)

\* g is the recursive function that sums f over the subsets of D.
IsSum(g, f, D) == g \in [SUBSET D -> Int] /\ Unfolds(g, f, D)

LEMMA FirstIsElement ==
  ASSUME NEW S, S # {}
  PROVE  First(S) \in S
BY DEF First

\* There is such a function.
LEMMA SumExists ==
  ASSUME NEW D, IsFiniteSet(D), NEW f \in [D -> Int]
  PROVE  \E g : IsSum(g, f, D)
<1> DEFINE P == {n \in Nat : \E g \in [SUBSET D -> Int] :
                   \A S \in SUBSET D : Cardinality(S) <= n => g[S] = SumStep(g, f, S)}
<1>0. \A S \in SUBSET D : IsFiniteSet(S) /\ Cardinality(S) \in Nat
                          /\ (Cardinality(S) = 0 <=> S = {})
  BY FS_Subset, FS_CardinalityType, FS_EmptySet
<1>1. 0 \in P
  <2> DEFINE g == [S \in SUBSET D |-> 0]
  <2>1. g \in [SUBSET D -> Int]
    OBVIOUS
  <2>2. \A S \in SUBSET D : Cardinality(S) <= 0 => g[S] = SumStep(g, f, S)
    BY <1>0 DEF SumStep
  <2> QED
    BY <2>1, <2>2
<1>2. ASSUME NEW n \in Nat, n \in P
      PROVE  n + 1 \in P
  <2>1. PICK g \in [SUBSET D -> Int] :
          \A S \in SUBSET D : Cardinality(S) <= n => g[S] = SumStep(g, f, S)
    BY <1>2
  <2> DEFINE h == [S \in SUBSET D |-> SumStep(g, f, S)]
  <2>2. \A S \in SUBSET D : SumStep(g, f, S) \in Int
    <3> TAKE S \in SUBSET D
    <3>1. CASE S = {}
      BY <3>1 DEF SumStep
    <3>2. CASE S # {}
      <4>1. First(S) \in D /\ S \ {First(S)} \in SUBSET D
        BY <3>2, FirstIsElement
      <4>2. f[First(S)] \in Int /\ g[S \ {First(S)}] \in Int
        BY <4>1
      <4> QED
        BY <3>2, <4>2 DEF SumStep
    <3> QED
      BY <3>1, <3>2
  <2>3. h \in [SUBSET D -> Int]
    BY <2>2
  <2>4. ASSUME NEW S \in SUBSET D, Cardinality(S) <= n + 1
        PROVE  h[S] = SumStep(h, f, S)
    <3>1. CASE S = {}
      BY <3>1 DEF SumStep
    <3>2. CASE S # {}
      <4>1. First(S) \in S
        BY <3>2, FirstIsElement
      <4>2. /\ S \ {First(S)} \in SUBSET D
            /\ Cardinality(S \ {First(S)}) \in Nat
            /\ Cardinality(S) = Cardinality(S \ {First(S)}) + 1
        BY <4>1, OneLess
      <4>3. Cardinality(S \ {First(S)}) <= n
        BY <4>2, <2>4
      <4>4. h[S \ {First(S)}] = g[S \ {First(S)}]
        BY <4>2, <4>3, <2>1
      <4> QED
        BY <3>2, <4>4 DEF SumStep
    <3> QED
      BY <3>1, <3>2
  <2>5. \A S \in SUBSET D : Cardinality(S) <= n + 1 => h[S] = SumStep(h, f, S)
    BY <2>4
  <2> HIDE DEF h
  <2> QED
    BY <2>3, <2>5
<1> HIDE DEF P
<1>3. Cardinality(D) \in P
  <2>1. Cardinality(D) \in Nat
    BY FS_CardinalityType
  <2>2. \A n \in Nat : n \in P => n + 1 \in P
    BY <1>2
  <2> QED
    BY <1>1, <2>1, <2>2, Induction
<1> USE DEF P
<1>4. PICK g \in [SUBSET D -> Int] :
        \A S \in SUBSET D : Cardinality(S) <= Cardinality(D) => g[S] = SumStep(g, f, S)
  BY <1>3
<1>5. \A S \in SUBSET D : Cardinality(S) <= Cardinality(D)
  BY FS_Subset
<1> QED
  BY <1>4, <1>5 DEF IsSum, Unfolds

\* The order in which the elements are taken does not matter: any element may be
\* the first.
LEMMA SumAnyFirst ==
  ASSUME NEW D, IsFiniteSet(D), NEW f \in [D -> Int], NEW g, IsSum(g, f, D),
         NEW S \in SUBSET D, NEW x \in S
  PROVE  g[S] = f[x] + g[S \ {x}]
<1> DEFINE P == {n \in Nat : \A T \in SUBSET D : Cardinality(T) = n =>
                   \A y \in T : g[T] = f[y] + g[T \ {y}]}
<1>1. 0 \in P
  <2> SUFFICES ASSUME NEW T \in SUBSET D, Cardinality(T) = 0, NEW y \in T
               PROVE  FALSE
    OBVIOUS
  <2> QED
    BY FS_Subset, FS_EmptySet
<1>2. ASSUME NEW n \in Nat, n \in P
      PROVE  n + 1 \in P
  <2> SUFFICES ASSUME NEW T \in SUBSET D, Cardinality(T) = n + 1, NEW y \in T
               PROVE  g[T] = f[y] + g[T \ {y}]
    OBVIOUS
  <2> DEFINE c == First(T)
  <2>1. c \in T /\ T # {}
    BY FirstIsElement
  <2>2. g[T] = f[c] + g[T \ {c}]
    BY <2>1 DEF IsSum, Unfolds, SumStep
  <2>3. CASE c = y
    BY <2>2, <2>3
  <2>4. CASE c # y
    <3> DEFINE R == (T \ {c}) \ {y}
    <3>1. /\ T \ {c} \in SUBSET D /\ Cardinality(T \ {c}) = n
          /\ T \ {y} \in SUBSET D /\ Cardinality(T \ {y}) = n
      BY <2>1, OneLess
    <3>2. g[T \ {c}] = f[y] + g[R]
      BY <3>1, <1>2, <2>4
    <3>3. g[T \ {y}] = f[c] + g[(T \ {y}) \ {c}]
      BY <3>1, <1>2, <2>1, <2>4
    <3>4. (T \ {y}) \ {c} = R
      OBVIOUS
    <3>5. f[y] \in Int /\ f[c] \in Int /\ g[R] \in Int
      <4>1. R \in SUBSET D /\ y \in D /\ c \in D
        BY <2>1
      <4> QED
        BY <4>1 DEF IsSum, Unfolds
    <3>6. f[c] + (f[y] + g[R]) = f[y] + (f[c] + g[R])
      BY <3>5
    <3>7. g[T \ {y}] = f[c] + g[R]
      BY <3>3, <3>4
    <3> QED
      BY <2>2, <3>2, <3>6, <3>7
  <2> QED
    BY <2>3, <2>4
<1> HIDE DEF P
<1>3. Cardinality(S) \in P
  <2>1. Cardinality(S) \in Nat
    BY OneLess
  <2>2. \A n \in Nat : n \in P => n + 1 \in P
    BY <1>2
  <2> QED
    BY <1>1, <2>1, <2>2, Induction
<1> USE DEF P
<1> QED
  BY <1>3

\* Two functions that give the same to the elements of a set have the same sum
\* over it, whatever larger sets they are summed over.
LEMMA SumDependsOnElements ==
  ASSUME NEW D, IsFiniteSet(D), NEW f \in [D -> Int], NEW g, IsSum(g, f, D),
         NEW E, NEW k, NEW h, Unfolds(h, k, E),
         NEW S, S \subseteq D, S \subseteq E, \A x \in S : f[x] = k[x]
  PROVE  g[S] = h[S]
<1> DEFINE P == {n \in Nat : \A T \in SUBSET S : Cardinality(T) = n => g[T] = h[T]}
<1>1. 0 \in P
  <2> SUFFICES ASSUME NEW T \in SUBSET S, Cardinality(T) = 0
               PROVE  g[T] = h[T]
    OBVIOUS
  <2>1. T = {}
    BY FS_Subset, FS_EmptySet
  <2> QED
    BY <2>1 DEF IsSum, Unfolds, SumStep
<1>2. ASSUME NEW n \in Nat, n \in P
      PROVE  n + 1 \in P
  <2> SUFFICES ASSUME NEW T \in SUBSET S, Cardinality(T) = n + 1
               PROVE  g[T] = h[T]
    OBVIOUS
  <2> DEFINE c == First(T)
  <2>1. T # {}
    BY FS_EmptySet
  <2>2. c \in T
    BY <2>1, FirstIsElement
  <2>3. T \in SUBSET D /\ T \in SUBSET E
    OBVIOUS
  <2>4. T \ {c} \in SUBSET S /\ Cardinality(T \ {c}) = n
    <3>1. /\ Cardinality(T \ {c}) \in Nat
          /\ Cardinality(T) = Cardinality(T \ {c}) + 1
      BY <2>2, <2>3, OneLess
    <3> QED
      BY <3>1
  <2>5. g[T \ {c}] = h[T \ {c}]
    BY <2>4, <1>2
  <2>6. f[c] = k[c]
    BY <2>2
  <2>7. g[T] = f[c] + g[T \ {c}] /\ h[T] = k[c] + h[T \ {c}]
    BY <2>1, <2>3 DEF IsSum, Unfolds, SumStep
  <2>8. f[c] + g[T \ {c}] = k[c] + h[T \ {c}]
    BY <2>5, <2>6
  <2> QED
    BY <2>7, <2>8
<1> HIDE DEF P
<1>3. Cardinality(S) \in P
  <2>1. Cardinality(S) \in Nat
    BY FS_Subset, FS_CardinalityType
  <2>2. \A n \in Nat : n \in P => n + 1 \in P
    BY <1>2
  <2> QED
    BY <1>1, <2>1, <2>2, Induction
<1> USE DEF P
<1> QED
  BY <1>3

-----------------------------------------------------------------------------
(* The sums of the ledger rules.                                           *)

\* The sum of f over S, taken from the sums over the subsets of D.
SumFrom(f, D) == CHOOSE g : IsSum(g, f, D)

LEMMA SumFromIsSum ==
  ASSUME NEW D, IsFiniteSet(D), NEW f \in [D -> Int]
  PROVE  IsSum(SumFrom(f, D), f, D)
BY SumExists DEF SumFrom

\* The sum over no element is 0, and an element more adds what f gives it.
LEMMA SumFromSteps ==
  ASSUME NEW D, IsFiniteSet(D), NEW f \in [D -> Int], NEW S \in SUBSET D
  PROVE  /\ SumFrom(f, D)[S] \in Int
         /\ SumFrom(f, D)[{}] = 0
         /\ \A x \in D \ S : SumFrom(f, D)[S \cup {x}] = f[x] + SumFrom(f, D)[S]
<1> DEFINE g == SumFrom(f, D)
<1>1. IsSum(g, f, D)
  BY SumFromIsSum
<1> HIDE DEF g
<1>2. g[S] \in Int /\ g[{}] = 0
  BY <1>1 DEF IsSum, Unfolds, SumStep
<1>3. ASSUME NEW x \in D \ S
      PROVE  g[S \cup {x}] = f[x] + g[S]
  <2>1. S \cup {x} \in SUBSET D /\ x \in S \cup {x} /\ (S \cup {x}) \ {x} = S
    OBVIOUS
  <2> QED
    BY <1>1, <2>1, SumAnyFirst
<1> QED
  BY <1>2, <1>3 DEF g

\* The sum depends on what f gives to the elements.
LEMMA SumFromAgrees ==
  ASSUME NEW D, IsFiniteSet(D), NEW f \in [D -> Int],
         NEW S \in SUBSET D, NEW h, NEW k, Unfolds(h, k, S), \A x \in S : k[x] = f[x]
  PROVE  h[S] = SumFrom(f, D)[S]
<1>1. IsSum(SumFrom(f, D), f, D)
  BY SumFromIsSum
<1>2. SumFrom(f, D)[S] = h[S]
  BY <1>1, SumDependsOnElements
<1> QED
  BY <1>2

\* A fold is defined by recursion on the subsets of its set, and there is a
\* function that satisfies the recursion.
LEMMA FoldExists ==
  ASSUME NEW S, IsFiniteSet(S), NEW f, \A x \in S : f[x] \in Int
  PROVE  \E g : g = [s \in SUBSET S |-> SumStep(g, f, s)]
<1> DEFINE k == [x \in S |-> f[x]]
<1>1. k \in [S -> Int]
  OBVIOUS
<1>2. PICK g : IsSum(g, k, S)
  BY <1>1, SumExists
<1>3. ASSUME NEW s \in SUBSET S
      PROVE  g[s] = SumStep(g, f, s)
  BY <1>2, FirstIsElement DEF IsSum, Unfolds, SumStep
<1>4. g = [s \in SUBSET S |-> SumStep(g, f, s)]
  BY <1>2, <1>3 DEF IsSum
<1> QED
  BY <1>4

\* The folds of the ledger rules are sums of this kind.
LEMMA SupplySum ==
  ASSUME NEW f \in [Txs -> Int], \A t \in Txs : f[t] = Supply(t), NEW S \in SUBSET Txs
  PROVE  MapThenSumSet(Supply, S) = SumFrom(f, Txs)[S]
<1> DEFINE Step(iter) ==
      [s \in SUBSET S |-> IF s = {} THEN 0
                          ELSE LET x == CHOOSE x \in s : TRUE IN Supply(x) + iter[s \ {x}]]
           sum == CHOOSE iter : iter = Step(iter)
<1>1. MapThenSumSet(Supply, S) = sum[S]
  BY DEF MapThenSumSet, MapThenFoldSet
<1>2. IsFiniteSet(S) /\ \A x \in S : f[x] \in Int
  BY TxsAssumption, FS_Subset
<1>3. ASSUME NEW g
      PROVE  Step(g) = [s \in SUBSET S |-> SumStep(g, f, s)]
  BY FirstIsElement DEF SumStep, First
<1> HIDE DEF Step
<1>4. sum = Step(sum)
  BY <1>2, <1>3, FoldExists
<1> HIDE DEF sum
<1>5. Unfolds(sum, f, S)
  BY <1>3, <1>4 DEF Unfolds
<1> QED
  BY <1>1, <1>5, TxsAssumption, SumFromAgrees

LEMMA EffectSum ==
  ASSUME NEW slot, NEW f \in [Txs -> Int], \A t \in Txs : f[t] = Effect(t, slot),
         NEW S \in SUBSET Txs
  PROVE  Replayed(S, slot) = SumFrom(f, Txs)[S]
<1> DEFINE Step(iter) ==
      [s \in SUBSET S |-> IF s = {} THEN 0
                          ELSE LET x == CHOOSE x \in s : TRUE
                               IN  Effect(x, slot) + iter[s \ {x}]]
           sum == CHOOSE iter : iter = Step(iter)
<1>1. Replayed(S, slot) = sum[S]
  BY DEF Replayed, MapThenSumSet, MapThenFoldSet
<1>2. IsFiniteSet(S) /\ \A x \in S : f[x] \in Int
  BY TxsAssumption, FS_Subset
<1>3. ASSUME NEW g
      PROVE  Step(g) = [s \in SUBSET S |-> SumStep(g, f, s)]
  BY FirstIsElement DEF SumStep, First
<1> HIDE DEF Step
<1>4. sum = Step(sum)
  BY <1>2, <1>3, FoldExists
<1> HIDE DEF sum
<1>5. Unfolds(sum, f, S)
  BY <1>3, <1>4 DEF Unfolds
<1> QED
  BY <1>1, <1>5, TxsAssumption, SumFromAgrees

\* The units of an asset in all accounts.
Held(bal, asset) == MapThenSumSet(LAMBDA x : bal[<<x, asset>>], Accounts)

LEMMA HeldSum ==
  ASSUME NEW asset, NEW bal, NEW f \in [Accounts -> Int],
         \A x \in Accounts : f[x] = bal[<<x, asset>>]
  PROVE  Held(bal, asset) = SumFrom(f, Accounts)[Accounts]
<1> DEFINE Step(iter) ==
      [s \in SUBSET Accounts |-> IF s = {} THEN 0
                                 ELSE LET x == CHOOSE x \in s : TRUE
                                      IN  bal[<<x, asset>>] + iter[s \ {x}]]
           sum == CHOOSE iter : iter = Step(iter)
<1>1. Held(bal, asset) = sum[Accounts]
  BY DEF Held, MapThenSumSet, MapThenFoldSet
<1>2. IsFiniteSet(Accounts) /\ \A x \in Accounts : f[x] \in Int
  BY AccountsAssumption
<1>3. ASSUME NEW g
      PROVE  Step(g) = [s \in SUBSET Accounts |-> SumStep(g, f, s)]
  <2>1. ASSUME NEW s \in SUBSET Accounts, s # {}
        PROVE  bal[<<First(s), asset>>] = f[First(s)]
    BY <2>1, FirstIsElement
  <2>2. ASSUME NEW s \in SUBSET Accounts
        PROVE  Step(g)[s] = SumStep(g, f, s)
    BY <2>1 DEF SumStep, First
  <2> QED
    BY <2>2
<1> HIDE DEF Step
<1>4. sum = Step(sum)
  BY <1>2, <1>3, FoldExists
<1> HIDE DEF sum
<1>5. Unfolds(sum, f, Accounts)
  BY <1>3, <1>4 DEF Unfolds
<1> QED
  BY <1>1, <1>5, AccountsAssumption, SumFromAgrees

\* Applying a transaction gives balances.
LEMMA ApplyType ==
  ASSUME NEW t \in Txs, NEW bal \in [Slots -> Int]
  PROVE  Apply(t, bal) \in [Slots -> Int]
<1>1. Tx[t].amount \in Nat
  BY TxAssumption
<1>2. \A slot \in Slots : Effect(t, slot) \in Int
  BY <1>1 DEF Effect, Credit, Debit
<1> QED
  BY <1>2 DEF Apply

-----------------------------------------------------------------------------
(* What a transaction does to the sums.                                    *)

LEMMA AmountsAreIntegers ==
  /\ \A t \in Txs : Supply(t) \in Int
  /\ \A t \in Txs, slot \in Slots : /\ Effect(t, slot) \in Int
                                    /\ Debit(t, slot) \in Int /\ Credit(t, slot) \in Int
<1>1. \A t \in Txs : Tx[t].amount \in Nat
  BY TxAssumption
<1> QED
  BY <1>1 DEF Supply, Effect, Debit, Credit

\* A settled mint adds its amount to the units issued, a burn takes it away.
THEOREM IssuedSteps ==
  ASSUME NEW asset, NEW S \in SUBSET Txs
  PROVE  /\ Issued(S, asset) \in Int
         /\ Issued({}, asset) = 0
         /\ \A t \in Txs \ S :
              Issued(S \cup {t}, asset) =
                Issued(S, asset) + IF Tx[t].asset = asset THEN Supply(t) ELSE 0
<1> DEFINE f == [t \in Txs |-> Supply(t)]
           Of(T) == {t \in T : Tx[t].asset = asset}
           sum == SumFrom(f, Txs)
<1>1. f \in [Txs -> Int]
  BY AmountsAreIntegers
<1>2. \A t \in Txs : f[t] = Supply(t)
  OBVIOUS
<1> HIDE DEF f
<1>3. \A T \in SUBSET Txs : Issued(T, asset) = sum[Of(T)]
  BY <1>1, <1>2, SupplySum DEF Issued
<1>4. \A T \in SUBSET Txs : /\ sum[T] \in Int /\ sum[{}] = 0
                            /\ \A t \in Txs \ T : sum[T \cup {t}] = f[t] + sum[T]
  BY <1>1, TxsAssumption, SumFromSteps
<1> HIDE DEF sum
<1>5. Issued(S, asset) \in Int
  BY <1>3, <1>4
<1>6. Issued({}, asset) = 0
  <2>1. Of({}) = {}
    OBVIOUS
  <2> QED
    BY <1>3, <1>4, <2>1
<1>7. ASSUME NEW t \in Txs \ S
      PROVE  Issued(S \cup {t}, asset) =
               Issued(S, asset) + IF Tx[t].asset = asset THEN Supply(t) ELSE 0
  <2>1. Supply(t) \in Int
    BY AmountsAreIntegers
  <2>4. /\ Issued(S \cup {t}, asset) = sum[Of(S \cup {t})]
        /\ Issued(S, asset) = sum[Of(S)]
        /\ Of(S) \in SUBSET Txs
    <3>1. S \cup {t} \in SUBSET Txs
      OBVIOUS
    <3> QED
      BY <3>1, <1>3
  <2>2. CASE Tx[t].asset = asset
    <3>1. Of(S \cup {t}) = Of(S) \cup {t} /\ t \notin Of(S)
      BY <2>2
    <3> HIDE DEF Of
    <3>2. sum[Of(S) \cup {t}] = Supply(t) + sum[Of(S)]
      BY <2>4, <3>1, <1>2, <1>4
    <3>3. Issued(S \cup {t}, asset) = Supply(t) + Issued(S, asset)
      BY <2>4, <3>1, <3>2
    <3> QED
      BY <2>1, <2>2, <3>3, <1>5
  <2>3. CASE Tx[t].asset # asset
    <3>1. Of(S \cup {t}) = Of(S)
      BY <2>3
    <3> HIDE DEF Of
    <3>2. Issued(S \cup {t}, asset) = Issued(S, asset)
      BY <2>4, <3>1
    <3> QED
      BY <2>3, <3>2, <1>5
  <2> QED
    BY <2>2, <2>3
<1> QED
  BY <1>5, <1>6, <1>7

\* A settled transaction adds its effect to the replayed balance of a slot.
THEOREM ReplayedSteps ==
  ASSUME NEW slot \in Slots, NEW S \in SUBSET Txs
  PROVE  /\ Replayed(S, slot) \in Int
         /\ Replayed({}, slot) = 0
         /\ \A t \in Txs \ S :
              Replayed(S \cup {t}, slot) = Replayed(S, slot) + Effect(t, slot)
<1> DEFINE f == [t \in Txs |-> Effect(t, slot)]
           sum == SumFrom(f, Txs)
<1>1. f \in [Txs -> Int]
  BY AmountsAreIntegers
<1>2. \A t \in Txs : f[t] = Effect(t, slot)
  OBVIOUS
<1> HIDE DEF f
<1>3. \A T \in SUBSET Txs : Replayed(T, slot) = sum[T]
  BY <1>1, <1>2, EffectSum
<1>4. /\ sum[S] \in Int /\ sum[{}] = 0
      /\ \A t \in Txs \ S : sum[S \cup {t}] = f[t] + sum[S]
  BY <1>1, TxsAssumption, SumFromSteps
<1> HIDE DEF sum
<1>5. ASSUME NEW t \in Txs \ S
      PROVE  Replayed(S \cup {t}, slot) = Replayed(S, slot) + Effect(t, slot)
  <2>1. Effect(t, slot) \in Int
    BY AmountsAreIntegers
  <2>2. sum[S \cup {t}] = Effect(t, slot) + sum[S]
    BY <1>2, <1>4
  <2> QED
    BY <2>1, <2>2, <1>3, <1>4
<1> QED
  BY <1>3, <1>4, <1>5

\* Changing one account changes the total by as much.
LEMMA HeldUpdate ==
  ASSUME NEW asset \in Assets, NEW old \in [Slots -> Int], NEW bal \in [Slots -> Int],
         NEW a \in Accounts,
         \A x \in Accounts \ {a} : bal[<<x, asset>>] = old[<<x, asset>>]
  PROVE  /\ Held(old, asset) \in Int
         /\ Held(bal, asset) = Held(old, asset) + (bal[<<a, asset>>] - old[<<a, asset>>])
<1> DEFINE f == [x \in Accounts |-> old[<<x, asset>>]]
           k == [x \in Accounts |-> bal[<<x, asset>>]]
           rest == Accounts \ {a}
<1>1. f \in [Accounts -> Int] /\ k \in [Accounts -> Int]
  BY DEF Slots
<1>2. /\ \A x \in Accounts : f[x] = old[<<x, asset>>] /\ k[x] = bal[<<x, asset>>]
      /\ \A x \in rest : f[x] = k[x]
  OBVIOUS
<1> HIDE DEF f, k
<1>3. /\ Held(old, asset) = SumFrom(f, Accounts)[Accounts]
      /\ Held(bal, asset) = SumFrom(k, Accounts)[Accounts]
  BY <1>1, <1>2, HeldSum
<1>4. /\ IsSum(SumFrom(f, Accounts), f, Accounts)
      /\ IsSum(SumFrom(k, Accounts), k, Accounts)
  BY <1>1, AccountsAssumption, SumFromIsSum
<1> DEFINE g == SumFrom(f, Accounts)
           h == SumFrom(k, Accounts)
<1> HIDE DEF g, h
<1>5. g[Accounts] = f[a] + g[rest] /\ h[Accounts] = k[a] + h[rest]
  BY <1>1, <1>4, AccountsAssumption, SumAnyFirst DEF g, h
<1>6. g[rest] = h[rest]
  <2>1. IsSum(g, f, Accounts) /\ Unfolds(h, k, Accounts) /\ rest \subseteq Accounts
    BY <1>4 DEF g, h, IsSum
  <2> HIDE DEF rest
  <2> QED
    BY <1>1, <1>2, <2>1, AccountsAssumption, SumDependsOnElements
<1>7. g[Accounts] \in Int /\ g[rest] \in Int
  BY <1>4 DEF g, IsSum
<1>8. f[a] \in Int /\ k[a] \in Int /\ f[a] = old[<<a, asset>>] /\ k[a] = bal[<<a, asset>>]
  BY <1>1, <1>2
<1>9. k[a] + g[rest] = (f[a] + g[rest]) + (k[a] - f[a])
  BY <1>7, <1>8
<1>10. h[Accounts] = g[Accounts] + (k[a] - f[a])
  BY <1>5, <1>6, <1>9
<1> QED
  BY <1>3, <1>7, <1>8, <1>10 DEF g, h

\* Nothing is held in an empty ledger.
LEMMA HeldOfNothing ==
  ASSUME NEW asset \in Assets
  PROVE  Held([slot \in Slots |-> 0], asset) = 0
<1> DEFINE f == [x \in Accounts |-> 0]
           zero == [S \in SUBSET Accounts |-> 0]
<1>1. f \in [Accounts -> Int]
  OBVIOUS
<1>2. Held([slot \in Slots |-> 0], asset) = SumFrom(f, Accounts)[Accounts]
  BY <1>1, HeldSum DEF Slots
<1>3. Unfolds(zero, f, Accounts)
  BY FirstIsElement DEF Unfolds, SumStep
<1>4. zero[Accounts] = SumFrom(f, Accounts)[Accounts]
  <2> HIDE DEF f, zero
  <2>1. \A x \in Accounts : f[x] = f[x]
    OBVIOUS
  <2> QED
    BY <1>1, <1>3, <2>1, AccountsAssumption, SumFromAgrees
<1> QED
  BY <1>2, <1>4

\* Applying a transaction changes the units held in all accounts by what it issues:
\* a transfer takes from one account what it gives to another.
THEOREM HeldSteps ==
  ASSUME NEW asset \in Assets, NEW bal \in [Slots -> Int], NEW t \in Txs
  PROVE  /\ Held(bal, asset) \in Int
         /\ Apply(t, bal) \in [Slots -> Int]
         /\ Held(Apply(t, bal), asset) =
              Held(bal, asset) + IF Tx[t].asset = asset THEN Supply(t) ELSE 0
<1> DEFINE mid == [slot \in Slots |-> bal[slot] - Debit(t, slot)]
           new == Apply(t, bal)
           from == Tx[t].from
           to == Tx[t].to
<1>1. /\ from \in Accounts /\ to \in Accounts
      /\ Tx[t].amount \in Int /\ Tx[t].kind \in Kinds
  BY TxAssumption
<1>2. \A slot \in Slots : Debit(t, slot) \in Int /\ Credit(t, slot) \in Int
  BY AmountsAreIntegers
<1>3. mid \in [Slots -> Int] /\ new \in [Slots -> Int]
  BY <1>2 DEF Apply, Effect
<1>4. \A x \in Accounts : /\ mid[<<x, asset>>] = bal[<<x, asset>>] - Debit(t, <<x, asset>>)
                          /\ new[<<x, asset>>] = mid[<<x, asset>>] + Credit(t, <<x, asset>>)
  <2> SUFFICES ASSUME NEW x \in Accounts
               PROVE  /\ mid[<<x, asset>>] = bal[<<x, asset>>] - Debit(t, <<x, asset>>)
                      /\ new[<<x, asset>>] = mid[<<x, asset>>] + Credit(t, <<x, asset>>)
    OBVIOUS
  <2> DEFINE slot == <<x, asset>>
  <2>1. slot \in Slots
    BY DEF Slots
  <2> HIDE DEF slot
  <2>2. bal[slot] \in Int /\ Debit(t, slot) \in Int /\ Credit(t, slot) \in Int
    BY <1>2, <2>1
  <2>3. mid[slot] = bal[slot] - Debit(t, slot)
    BY <2>1
  <2>4. new[slot] = bal[slot] + (Credit(t, slot) - Debit(t, slot))
    BY <2>1 DEF Apply, Effect
  <2>5. new[slot] = mid[slot] + Credit(t, slot)
    BY <2>2, <2>3, <2>4
  <2> QED
    BY <2>3, <2>5 DEF slot
<1>5. \A x \in Accounts : mid[<<x, asset>>] \in Int /\ bal[<<x, asset>>] \in Int
  BY <1>3 DEF Slots
<1> HIDE DEF mid, new
<1>6. /\ Held(bal, asset) \in Int
      /\ Held(mid, asset) = Held(bal, asset) + (mid[<<from, asset>>] - bal[<<from, asset>>])
  <2>1. \A x \in Accounts \ {from} : mid[<<x, asset>>] = bal[<<x, asset>>]
    BY <1>4, <1>5 DEF Debit, Source
  <2> QED
    BY <1>1, <1>3, <2>1, HeldUpdate
<1>7. /\ Held(mid, asset) \in Int
      /\ Held(new, asset) = Held(mid, asset) + (new[<<to, asset>>] - mid[<<to, asset>>])
  <2>1. \A x \in Accounts \ {to} : new[<<x, asset>>] = mid[<<x, asset>>]
    BY <1>4, <1>5 DEF Credit, Target
  <2> QED
    BY <1>1, <1>3, <2>1, HeldUpdate
<1> DEFINE debit == Debit(t, <<from, asset>>)
           credit == Credit(t, <<to, asset>>)
<1>8. debit \in Int /\ credit \in Int
  BY <1>1, <1>2 DEF Slots
<1>9. Held(mid, asset) = Held(bal, asset) - debit
  BY <1>1, <1>4, <1>5, <1>6, <1>8
<1>10. Held(new, asset) = Held(mid, asset) + credit
  BY <1>1, <1>4, <1>5, <1>7, <1>8
<1>11. credit - debit = IF Tx[t].asset = asset THEN Supply(t) ELSE 0
  BY <1>1 DEF Debit, Credit, Source, Target, Supply, Kinds
<1> HIDE DEF debit, credit
<1>12. Held(new, asset) = Held(bal, asset) + (credit - debit)
  BY <1>6, <1>7, <1>8, <1>9, <1>10
<1> QED
  BY <1>3, <1>6, <1>11, <1>12 DEF new

\* Money is neither made nor lost: whatever set of transactions is replayed, all accounts
\* together hold the units of an asset that were issued and not burnt.
THEOREM MoneyIsConserved ==
  ASSUME NEW asset \in Assets, NEW S \in SUBSET Txs
  PROVE  Held([slot \in Slots |-> Replayed(S, slot)], asset) = Issued(S, asset)
<1> DEFINE R(T) == [slot \in Slots |-> Replayed(T, slot)]
           P == {T \in SUBSET Txs : Held(R(T), asset) = Issued(T, asset)}
<1>1. {} \in P
  <2>1. R({}) = [slot \in Slots |-> 0]
    BY ReplayedSteps
  <2> QED
    BY <2>1, HeldOfNothing, IssuedSteps
<1>2. ASSUME NEW T \in SUBSET Txs, T \in P, NEW t \in Txs \ T
      PROVE  T \cup {t} \in P
  <2>1. R(T) \in [Slots -> Int]
    BY <1>2, ReplayedSteps
  <2>2. R(T \cup {t}) = Apply(t, R(T))
    BY <1>2, ReplayedSteps DEF Apply
  <2>3. T \cup {t} \in SUBSET Txs /\ Held(R(T), asset) = Issued(T, asset)
    BY <1>2
  <2> HIDE DEF R
  <2>4. Held(Apply(t, R(T)), asset)
          = Held(R(T), asset) + IF Tx[t].asset = asset THEN Supply(t) ELSE 0
    BY <1>2, <2>1, HeldSteps
  <2>5. Issued(T \cup {t}, asset)
          = Issued(T, asset) + IF Tx[t].asset = asset THEN Supply(t) ELSE 0
    BY <1>2, IssuedSteps
  <2>6. Held(R(T \cup {t}), asset) = Issued(T \cup {t}, asset)
    BY <2>2, <2>3, <2>4, <2>5
  <2> QED
    BY <2>3, <2>6
<1> HIDE DEF P
<1>3. SUBSET Txs \subseteq P
  BY <1>1, <1>2, TxsAssumption, SubsetInduction
<1> USE DEF P
<1> QED
  BY <1>3

-----------------------------------------------------------------------------
(* The balances along a batch.                                             *)

\* Balances after the first i transactions of txs, from balances bal.
Along(bal, txs) ==
  LET after[i \in 0..Len(txs)] == IF i = 0 THEN bal ELSE Apply(txs[i], after[i - 1])
  IN  after

\* They are defined by applying one transaction after the other.
THEOREM AlongSteps ==
  ASSUME NEW bal \in [Slots -> Int], NEW txs \in Seq(Txs)
  PROVE  /\ Along(bal, txs)[0] = bal
         /\ \A i \in 1..Len(txs) : Along(bal, txs)[i] = Apply(txs[i], Along(bal, txs)[i - 1])
<1> DEFINE n == Len(txs)
           After(g, i) == IF i = 0 THEN bal ELSE Apply(txs[i], g[i - 1])
           P == {m \in Nat : m <= n => \E g \in [0..n -> [Slots -> Int]] :
                                        \A i \in 0..m : g[i] = After(g, i)}
<1>0. n \in Nat /\ \A i \in 1..n : txs[i] \in Txs
  OBVIOUS
<1>1. 0 \in P
  <2> DEFINE g == [i \in 0..n |-> bal]
  <2>1. g \in [0..n -> [Slots -> Int]] /\ \A i \in 0..0 : g[i] = After(g, i)
    BY <1>0
  <2> QED
    BY <2>1
<1>2. ASSUME NEW m \in Nat, m \in P
      PROVE  m + 1 \in P
  <2> SUFFICES ASSUME m + 1 <= n
               PROVE  \E g \in [0..n -> [Slots -> Int]] : \A i \in 0..(m + 1) : g[i] = After(g, i)
    OBVIOUS
  <2>1. PICK g \in [0..n -> [Slots -> Int]] : \A i \in 0..m : g[i] = After(g, i)
    BY <1>0, <1>2
  <2> DEFINE h == [g EXCEPT ![m + 1] = Apply(txs[m + 1], g[m])]
  <2>2. m \in 0..n /\ m + 1 \in 1..n
    BY <1>0
  <2>3. Apply(txs[m + 1], g[m]) \in [Slots -> Int]
    BY <1>0, <2>2, ApplyType
  <2>4. h \in [0..n -> [Slots -> Int]]
    BY <2>3
  <2>5. /\ h[m + 1] = Apply(txs[m + 1], g[m])
        /\ \A i \in 0..m : h[i] = g[i]
    BY <1>0, <2>2
  <2> HIDE DEF h
  <2>6. ASSUME NEW i \in 0..(m + 1)
        PROVE  h[i] = After(h, i)
    <3>1. CASE i = m + 1
      BY <2>5, <3>1
    <3>2. CASE i \in 0..m
      <4>1. i # 0 => i - 1 \in 0..m
        BY <3>2
      <4> QED
        BY <2>1, <2>5, <3>2, <4>1
    <3> QED
      BY <3>1, <3>2
  <2> QED
    BY <2>4, <2>6
<1> HIDE DEF P
<1>3. n \in P
  <2>1. \A m \in Nat : m \in P => m + 1 \in P
    BY <1>2
  <2> QED
    BY <1>0, <1>1, <2>1, Induction
<1> USE DEF P
<1>4. PICK g \in [0..n -> [Slots -> Int]] : \A i \in 0..n : g[i] = After(g, i)
  BY <1>0, <1>3
<1>5. g = [i \in 0..n |-> After(g, i)]
  BY <1>4
<1> DEFINE A == Along(bal, txs)
<1>6. A = [i \in 0..n |-> After(A, i)]
  BY <1>5 DEF Along
<1> HIDE DEF A
<1> QED
  BY <1>0, <1>6 DEF A

\* A transaction more at the end of the batch does not change what was before.
THEOREM AlongAppend ==
  ASSUME NEW bal \in [Slots -> Int], NEW txs \in Seq(Txs), NEW t \in Txs
  PROVE  /\ \A i \in 0..Len(txs) : Along(bal, Append(txs, t))[i] = Along(bal, txs)[i]
         /\ Along(bal, Append(txs, t))[Len(txs) + 1] = Apply(t, Along(bal, txs)[Len(txs)])
<1> DEFINE n == Len(txs)
           new == Append(txs, t)
           A == Along(bal, txs)
           B == Along(bal, new)
           P == {m \in Nat : m <= n => B[m] = A[m]}
<1>1. /\ n \in Nat /\ new \in Seq(Txs) /\ Len(new) = n + 1
      /\ \A i \in 1..n : new[i] = txs[i]
      /\ new[n + 1] = t
  OBVIOUS
<1>2. A[0] = bal /\ \A i \in 1..n : A[i] = Apply(txs[i], A[i - 1])
  BY AlongSteps
<1>3. B[0] = bal /\ \A i \in 1..(n + 1) : B[i] = Apply(new[i], B[i - 1])
  <2> HIDE DEF new
  <2> QED
    BY <1>1, AlongSteps
<1> HIDE DEF A, B, new
<1>4. 0 \in P
  BY <1>2, <1>3
<1>5. ASSUME NEW m \in Nat, m \in P
      PROVE  m + 1 \in P
  <2> SUFFICES ASSUME m + 1 <= n
               PROVE  B[m + 1] = A[m + 1]
    OBVIOUS
  <2>1. m + 1 \in 1..n /\ m + 1 \in 1..(n + 1) /\ (m + 1) - 1 = m /\ m <= n
    BY <1>1
  <2>2. B[m] = A[m]
    BY <1>5, <2>1
  <2>3. A[m + 1] = Apply(txs[m + 1], A[m]) /\ B[m + 1] = Apply(new[m + 1], B[m])
    BY <1>2, <1>3, <2>1
  <2>4. new[m + 1] = txs[m + 1]
    BY <1>1, <2>1
  <2> QED
    BY <2>2, <2>3, <2>4
<1> HIDE DEF P
<1>6. Nat \subseteq P
  BY <1>4, <1>5, Induction
<1> USE DEF P
<1>7. \A i \in 0..n : B[i] = A[i]
  BY <1>1, <1>6
<1>8. B[n + 1] = Apply(t, A[n])
  <2>1. n + 1 \in 1..(n + 1) /\ (n + 1) - 1 = n /\ n \in 0..n
    BY <1>1
  <2>2. B[n + 1] = Apply(new[n + 1], B[n])
    BY <1>3, <2>1
  <2>3. new[n + 1] = t /\ B[n] = A[n]
    BY <1>1, <1>7, <2>1
  <2> QED
    BY <2>2, <2>3
<1> QED
  BY <1>7, <1>8 DEF A, B, new

\* A batch of new transactions leaves the replayed balances replayed.
THEOREM AlongReplays ==
  ASSUME NEW bal \in [Slots -> Int], NEW S \in SUBSET Txs, NEW txs \in Seq(Txs),
         \A slot \in Slots : bal[slot] = Replayed(S, slot),
         \A i \in DOMAIN txs : txs[i] \notin S,
         \A i, j \in DOMAIN txs : txs[i] = txs[j] => i = j
  PROVE  \A i \in 0..Len(txs) :
           /\ Along(bal, txs)[i] \in [Slots -> Int]
           /\ \A slot \in Slots :
                Along(bal, txs)[i][slot] = Replayed(S \cup {txs[j] : j \in 1..i}, slot)
<1> DEFINE n == Len(txs)
           A == Along(bal, txs)
           Upto(i) == S \cup {txs[j] : j \in 1..i}
           P == {m \in Nat : m <= n =>
                   /\ A[m] \in [Slots -> Int]
                   /\ \A slot \in Slots : A[m][slot] = Replayed(Upto(m), slot)}
<1>1. n \in Nat /\ DOMAIN txs = 1..n /\ \A i \in 1..n : txs[i] \in Txs
  OBVIOUS
<1>2. A[0] = bal /\ \A i \in 1..n : A[i] = Apply(txs[i], A[i - 1])
  BY AlongSteps
<1> HIDE DEF n, A
<1>3. 0 \in P
  <2>1. Upto(0) = S
    OBVIOUS
  <2> QED
    BY <1>2, <2>1
<1>4. ASSUME NEW m \in Nat, m \in P
      PROVE  m + 1 \in P
  <2> SUFFICES ASSUME m + 1 <= n
               PROVE  /\ A[m + 1] \in [Slots -> Int]
                      /\ \A slot \in Slots : A[m + 1][slot] = Replayed(Upto(m + 1), slot)
    OBVIOUS
  <2> DEFINE t == txs[m + 1]
  <2>1. m <= n /\ m + 1 \in 1..n /\ (m + 1) - 1 = m
    BY <1>1
  <2>2. A[m] \in [Slots -> Int] /\ \A slot \in Slots : A[m][slot] = Replayed(Upto(m), slot)
    BY <1>4, <2>1
  <2>3. A[m + 1] = Apply(t, A[m]) /\ t \in Txs
    BY <1>1, <1>2, <2>1
  <2>4. Upto(m) \in SUBSET Txs /\ t \notin Upto(m) /\ Upto(m + 1) = Upto(m) \cup {t}
    <3>1. \A j \in 1..m : j \in 1..n /\ j # m + 1
      BY <1>1, <2>1
    <3>2. 1..(m + 1) = 1..m \cup {m + 1}
      OBVIOUS
    <3>3. \A j \in 1..m : txs[j] # t
      BY <1>1, <2>1, <3>1
    <3> QED
      BY <1>1, <2>1, <2>3, <3>1, <3>2, <3>3
  <2> HIDE DEF t, Upto
  <2>5. A[m + 1] \in [Slots -> Int]
    BY <2>2, <2>3, ApplyType
  <2>6. ASSUME NEW slot \in Slots
        PROVE  A[m + 1][slot] = Replayed(Upto(m + 1), slot)
    <3>1. A[m + 1][slot] = A[m][slot] + Effect(t, slot)
      BY <2>3 DEF Apply
    <3>2. Replayed(Upto(m) \cup {t}, slot) = Replayed(Upto(m), slot) + Effect(t, slot)
      BY <2>3, <2>4, ReplayedSteps
    <3> QED
      BY <2>2, <2>4, <3>1, <3>2
  <2> QED
    BY <2>5, <2>6
<1> HIDE DEF P
<1>5. Nat \subseteq P
  BY <1>3, <1>4, Induction
<1>6. \A m \in 0..n : m \in P /\ m <= n
  BY <1>1, <1>5
<1> QED
  BY <1>6 DEF A, n, P
=============================================================================
