--------------------------- MODULE TrafficProofs ----------------------------
(***************************************************************************)
(* Proofs about Traffic and MonthlyJobs for any nodes, customers, handlers, *)
(* processes and faults, any calendar and configured day.  They begin with *)
(* the facts about sums that both rest on: the sum of a function over the  *)
(* empty set, over a set and one more index, of two functions, and what a  *)
(* change at one index does.  Induction over a finite set, and over the    *)
(* numbers, is the existence of a minimal counterexample.                  *)
(***************************************************************************)
EXTENDS Traffic, MonthlyJobs, FiniteSetTheorems, WellFoundedInduction, TLAPS

\* Every subset of a finite set is in F if each subset is whose proper subsets are.
LEMMA SubsetInduction ==
    ASSUME NEW S, IsFiniteSet(S), NEW F,
           \A T \in SUBSET S : (\A U \in SUBSET T : U # T => U \in F) => T \in F
    PROVE  SUBSET S \subseteq F
<1> DEFINE R == StrictSubsetOrdering(S)
<1> DEFINE Bad == (SUBSET S) \ F
<1>1. IsWellFoundedOn(R, FiniteSubsetsOf(S))
  BY FS_StrictSubsetOrderingWellFounded
<1>2. Bad \subseteq FiniteSubsetsOf(S)
  BY FS_Subset DEF FiniteSubsetsOf
<1>3. SUFFICES ASSUME Bad # {} PROVE FALSE
  OBVIOUS
<1>4. \E T \in Bad : \A U \in Bad : ~(<<U, T>> \in R)
  <2> HIDE DEF Bad, R
  <2> QED BY <1>1, <1>2, <1>3, WFMin
<1>5. PICK T \in Bad : \A U \in Bad : ~(<<U, T>> \in R)
  BY <1>4
<1>6. \A U \in SUBSET T : U # T => U \in F
  BY <1>5 DEF StrictSubsetOrdering
<1> QED BY <1>5, <1>6

\* The same for the natural numbers, one by one.
LEMMA NumberInduction ==
    ASSUME NEW F, 0 \in F, \A n \in Nat : n \in F => n + 1 \in F
    PROVE  Nat \subseteq F
<1> DEFINE Bad == Nat \ F
<1>1. SUFFICES ASSUME Bad # {} PROVE FALSE
  OBVIOUS
<1>2. \E n \in Bad : \A m \in Bad : ~(<<m, n>> \in OpToRel(<, Nat))
  <2> HIDE DEF Bad
  <2>1. Bad \subseteq Nat
    BY DEF Bad
  <2> QED BY <1>1, <2>1, WFMin, NatLessThanWellFounded
<1>3. PICK n \in Bad : \A m \in Bad : ~(<<m, n>> \in OpToRel(<, Nat))
  BY <1>2
<1>4. n \in Nat /\ n # 0
  BY Zenon
<1>7. n - 1 \in Nat /\ n - 1 < n
  BY <1>4
<1>5. n - 1 \in F
  BY <1>3, <1>7 DEF OpToRel
<1>6. (n - 1) + 1 = n
  BY <1>4
<1> QED BY <1>4, <1>5, <1>6, <1>7

-----------------------------------------------------------------------------
(* The recursion behind SumFunctionOnSet                                   *)

Pick(s) == CHOOSE x \in s : TRUE
Adds(f, D, g) ==
    g = [s \in D |-> IF s = {} THEN 0 ELSE f[Pick(s)] + g[s \ {Pick(s)}]]
Adder(f, S) == CHOOSE g : Adds(f, SUBSET S, g)

LEMMA SumIsAdder ==
    ASSUME NEW f, NEW S PROVE SumFunctionOnSet(f, S) = Adder(f, S)[S]
BY DEF SumFunctionOnSet, FoldFunctionOnSet, MapThenFoldSet, Pick, Adder, Adds

\* A function that adds exists on the subsets of at most n elements, for every n.
LEMMA AdderExists ==
    ASSUME NEW f, NEW S, IsFiniteSet(S)
    PROVE  Adds(f, SUBSET S, Adder(f, S))
<1> DEFINE Level(n) == {s \in SUBSET S : Cardinality(s) <= n}
<1> DEFINE F == {n \in Nat : \E g : Adds(f, Level(n), g)}
<1>1. \A s \in SUBSET S : IsFiniteSet(s) /\ Cardinality(s) \in Nat /\ Cardinality(s) <= Cardinality(S)
  BY FS_Subset, FS_CardinalityType
<1>2. ASSUME NEW s \in SUBSET S, s # {}
      PROVE  /\ Pick(s) \in s /\ s \ {Pick(s)} \in SUBSET S
             /\ Cardinality(s \ {Pick(s)}) = Cardinality(s) - 1
  <2>1. Pick(s) \in s
    BY <1>2 DEF Pick
  <2> QED BY <1>1, <1>2, <2>1, FS_RemoveElement
<1>3. 0 \in F
  <2> DEFINE g == [s \in Level(0) |-> 0]
  <2>1. \A s \in Level(0) : s = {}
    BY <1>1, FS_EmptySet
  <2>2. Adds(f, Level(0), g)
    BY <2>1 DEF Adds
  <2> QED BY <2>2
<1>4. ASSUME NEW n \in Nat, n \in F PROVE n + 1 \in F
  <2>1. PICK g : Adds(f, Level(n), g)
    BY <1>4
  <2> DEFINE h == [s \in Level(n + 1) |-> IF s = {} THEN 0 ELSE f[Pick(s)] + g[s \ {Pick(s)}]]
  <2>2. ASSUME NEW s \in Level(n) PROVE h[s] = g[s]
    <3>1. s \in Level(n + 1)
      BY <1>1
    <3>2. h[s] = IF s = {} THEN 0 ELSE f[Pick(s)] + g[s \ {Pick(s)}]
      BY <3>1
    <3>3. g[s] = IF s = {} THEN 0 ELSE f[Pick(s)] + g[s \ {Pick(s)}]
      <4> HIDE DEF Level
      <4> QED BY <2>1, <2>2 DEF Adds
    <3> QED BY <3>2, <3>3
  <2>3. ASSUME NEW s \in Level(n + 1), s # {}
        PROVE  h[s \ {Pick(s)}] = g[s \ {Pick(s)}]
    <3>1. s \ {Pick(s)} \in Level(n)
      BY <1>1, <1>2, <2>3
    <3> HIDE DEF Level, h
    <3> QED BY <2>2, <3>1
  <2>4. h = [s \in Level(n + 1) |-> IF s = {} THEN 0 ELSE f[Pick(s)] + h[s \ {Pick(s)}]]
    <3> DEFINE k == [s \in Level(n + 1) |-> IF s = {} THEN 0 ELSE f[Pick(s)] + h[s \ {Pick(s)}]]
    <3>1. \A s \in Level(n + 1) : h[s] = k[s]
      <4> SUFFICES ASSUME NEW s \in Level(n + 1) PROVE h[s] = k[s]
        OBVIOUS
      <4>1. h[s] = IF s = {} THEN 0 ELSE f[Pick(s)] + g[s \ {Pick(s)}]
        OBVIOUS
      <4>2. k[s] = IF s = {} THEN 0 ELSE f[Pick(s)] + h[s \ {Pick(s)}]
        OBVIOUS
      <4> HIDE DEF h, k
      <4> QED BY <2>3, <4>1, <4>2
    <3>2. h = [s \in Level(n + 1) |-> h[s]] /\ k = [s \in Level(n + 1) |-> k[s]]
      OBVIOUS
    <3>3. h = k
      <4> HIDE DEF h, k, Level
      <4> QED BY <3>1, <3>2
    <3> QED BY <3>3
  <2>5. Adds(f, Level(n + 1), h)
    <3> HIDE DEF h
    <3> QED BY <2>4 DEF Adds
  <2>6. \E k : Adds(f, Level(n + 1), k)
    <3> HIDE DEF h, Level
    <3> QED BY <2>5
  <2> QED BY <2>6
<1>5. Nat \subseteq F
  <2> HIDE DEF F
  <2> QED BY <1>3, <1>4, NumberInduction
<1>6. Level(Cardinality(S)) = SUBSET S /\ Cardinality(S) \in Nat
  BY <1>1, FS_CardinalityType
<1>7. \E g : Adds(f, SUBSET S, g)
  BY <1>5, <1>6
<1> QED BY <1>7, Zenon DEF Adder


LEMMA AdderStep ==
    ASSUME NEW f, NEW S, IsFiniteSet(S)
    PROVE  /\ Adder(f, S)[{}] = 0
           /\ \A T \in SUBSET S : T # {} =>
                Adder(f, S)[T] = f[Pick(T)] + Adder(f, S)[T \ {Pick(T)}]
<1> DEFINE g == Adder(f, S)
<1>0. Adds(f, SUBSET S, g)
  BY AdderExists
<1> HIDE DEF g
<1>1. g = [s \in SUBSET S |-> IF s = {} THEN 0 ELSE f[Pick(s)] + g[s \ {Pick(s)}]]
  BY <1>0 DEF Adds
<1>2. \A T \in SUBSET S : g[T] = IF T = {} THEN 0 ELSE f[Pick(T)] + g[T \ {Pick(T)}]
  BY <1>1
<1>3. g[{}] = 0 /\ \A T \in SUBSET S : T # {} => g[T] = f[Pick(T)] + g[T \ {Pick(T)}]
  BY <1>2
<1> QED BY <1>3 DEF g

\* A smaller set of indices has the same sums.
LEMMA AdderRestricted ==
    ASSUME NEW f, NEW S, IsFiniteSet(S), NEW T \in SUBSET S
    PROVE  Adder(f, T)[T] = Adder(f, S)[T]
<1> DEFINE F == {U \in SUBSET T : Adder(f, T)[U] = Adder(f, S)[U]}
<1>1. IsFiniteSet(T)
  BY FS_Subset
<1>2. ASSUME NEW U \in SUBSET T, \A V \in SUBSET U : V # U => V \in F
      PROVE  U \in F
  <2>1. CASE U = {}
    BY <1>1, <2>1, AdderStep
  <2>2. CASE U # {}
    <3>1. Pick(U) \in U
      BY <2>2 DEF Pick
    <3>2. U \ {Pick(U)} \in F
      BY <1>2, <3>1
    <3>3. /\ Adder(f, T)[U] = f[Pick(U)] + Adder(f, T)[U \ {Pick(U)}]
          /\ Adder(f, S)[U] = f[Pick(U)] + Adder(f, S)[U \ {Pick(U)}]
      BY <1>1, <2>2, AdderStep
    <3> QED BY <3>2, <3>3
  <2> QED BY <2>1, <2>2
<1>3. SUBSET T \subseteq F
  <2> HIDE DEF F
  <2> QED BY <1>1, <1>2, SubsetInduction
<1> QED BY <1>3

\* The sum over any set is what is picked and the sum over the rest.
LEMMA SumPick ==
    ASSUME NEW f, NEW S, IsFiniteSet(S), S # {}
    PROVE  /\ Pick(S) \in S
           /\ SumFunctionOnSet(f, S) = f[Pick(S)] + SumFunctionOnSet(f, S \ {Pick(S)})
<1>1. Pick(S) \in S
  BY DEF Pick
<1>2. Adder(f, S)[S] = f[Pick(S)] + Adder(f, S)[S \ {Pick(S)}]
  BY AdderStep
<1>3. Adder(f, S)[S \ {Pick(S)}] = SumFunctionOnSet(f, S \ {Pick(S)})
  BY AdderRestricted, SumIsAdder
<1> QED BY <1>1, <1>2, <1>3, SumIsAdder

-----------------------------------------------------------------------------
(* What the proofs use                                                     *)

LEMMA SumEmpty == ASSUME NEW f PROVE SumFunctionOnSet(f, {}) = 0
BY FS_EmptySet, AdderStep, SumIsAdder

LEMMA SumType ==
    ASSUME NEW S, IsFiniteSet(S), NEW f, \A x \in S : f[x] \in Int
    PROVE  \A T \in SUBSET S : SumFunctionOnSet(f, T) \in Int
<1> DEFINE F == {T \in SUBSET S : SumFunctionOnSet(f, T) \in Int}
<1>1. ASSUME NEW T \in SUBSET S, \A U \in SUBSET T : U # T => U \in F
      PROVE  T \in F
  <2>1. CASE T = {}
    BY <2>1, SumEmpty
  <2>2. CASE T # {}
    <3>1. /\ Pick(T) \in T
          /\ SumFunctionOnSet(f, T) = f[Pick(T)] + SumFunctionOnSet(f, T \ {Pick(T)})
      BY <2>2, FS_Subset, SumPick
    <3>2. T \ {Pick(T)} \in F
      BY <1>1, <3>1
    <3> QED BY <3>1, <3>2
  <2> QED BY <2>1, <2>2
<1>2. SUBSET S \subseteq F
  <2> HIDE DEF F
  <2> QED BY <1>1, SubsetInduction
<1> QED BY <1>2

\* The order does not matter: any index can be taken out first.
LEMMA SumRemove ==
    ASSUME NEW S, IsFiniteSet(S), NEW f, \A x \in S : f[x] \in Int, NEW x \in S
    PROVE  SumFunctionOnSet(f, S) = f[x] + SumFunctionOnSet(f, S \ {x})
<1> DEFINE Takes(T) == \A y \in T : SumFunctionOnSet(f, T) = f[y] + SumFunctionOnSet(f, T \ {y})
<1> DEFINE F == {T \in SUBSET S : Takes(T)}
<1>1. ASSUME NEW T \in SUBSET S, \A U \in SUBSET T : U # T => U \in F
      PROVE  T \in F
  <2> SUFFICES ASSUME NEW y \in T
               PROVE  SumFunctionOnSet(f, T) = f[y] + SumFunctionOnSet(f, T \ {y})
    OBVIOUS
  <2> DEFINE p == Pick(T)
  <2>1. /\ p \in T
        /\ SumFunctionOnSet(f, T) = f[p] + SumFunctionOnSet(f, T \ {p})
    BY FS_Subset, SumPick
  <2>2. CASE y = p
    BY <2>1, <2>2
  <2>3. CASE y # p
    <3>1. T \ {p} \in F /\ T \ {y} \in F /\ y \in T \ {p} /\ p \in T \ {y}
      BY <1>1, <2>1, <2>3
    <3>2. SumFunctionOnSet(f, T \ {p}) = f[y] + SumFunctionOnSet(f, (T \ {p}) \ {y})
      BY <3>1
    <3>3. SumFunctionOnSet(f, T \ {y}) = f[p] + SumFunctionOnSet(f, (T \ {y}) \ {p})
      BY <3>1
    <3>4. (T \ {p}) \ {y} = (T \ {y}) \ {p} /\ (T \ {p}) \ {y} \in SUBSET S
      OBVIOUS
    <3>5. /\ SumFunctionOnSet(f, (T \ {p}) \ {y}) \in Int /\ f[y] \in Int /\ f[p] \in Int
      BY <2>1, <3>4, SumType
    <3>6. SumFunctionOnSet(f, T) = f[p] + (f[y] + SumFunctionOnSet(f, (T \ {p}) \ {y}))
      BY <2>1, <3>2
    <3>7. SumFunctionOnSet(f, T \ {y}) = f[p] + SumFunctionOnSet(f, (T \ {p}) \ {y})
      BY <3>3, <3>4
    <3>8. \A a, b, c \in Int : a + (b + c) = b + (a + c)
      OBVIOUS
    <3> HIDE DEF p
    <3> QED BY <3>5, <3>6, <3>7, <3>8
  <2> QED BY <2>2, <2>3
<1>2. SUBSET S \subseteq F
  <2> HIDE DEF F
  <2> QED BY <1>1, SubsetInduction
<1>3. S \in F
  BY <1>2
<1> QED BY <1>3

\* One more index.
LEMMA SumAdd ==
    ASSUME NEW S, IsFiniteSet(S), NEW x, x \notin S, NEW f, \A y \in S \cup {x} : f[y] \in Int
    PROVE  SumFunctionOnSet(f, S \cup {x}) = SumFunctionOnSet(f, S) + f[x]
<1>1. (S \cup {x}) \ {x} = S /\ IsFiniteSet(S \cup {x})
  BY FS_AddElement
<1>2. SumFunctionOnSet(f, S \cup {x}) = f[x] + SumFunctionOnSet(f, S)
  BY <1>1, SumRemove
<1>3. SumFunctionOnSet(f, S) \in Int
  BY SumType
<1> QED BY <1>2, <1>3

\* Functions that agree, that are below one another, and the sum of two.
LEMMA SumCompare ==
    ASSUME NEW S, IsFiniteSet(S), NEW f, NEW g,
           \A x \in S : f[x] \in Int /\ g[x] \in Int /\ f[x] <= g[x]
    PROVE  SumFunctionOnSet(f, S) <= SumFunctionOnSet(g, S)
<1> DEFINE F == {T \in SUBSET S : SumFunctionOnSet(f, T) <= SumFunctionOnSet(g, T)}
<1>1. ASSUME NEW T \in SUBSET S, \A U \in SUBSET T : U # T => U \in F
      PROVE  T \in F
  <2>1. CASE T = {}
    BY <2>1, SumEmpty
  <2>2. CASE T # {}
    <3>0. IsFiniteSet(T)
      BY FS_Subset
    <3>1. /\ Pick(T) \in T
          /\ SumFunctionOnSet(f, T) = f[Pick(T)] + SumFunctionOnSet(f, T \ {Pick(T)})
          /\ SumFunctionOnSet(g, T) = g[Pick(T)] + SumFunctionOnSet(g, T \ {Pick(T)})
      BY <2>2, <3>0, SumPick
    <3>2. T \ {Pick(T)} \in F
      BY <1>1, <3>1
    <3>3. /\ SumFunctionOnSet(f, T \ {Pick(T)}) \in Int
          /\ SumFunctionOnSet(g, T \ {Pick(T)}) \in Int
      BY SumType
    <3> QED BY <3>1, <3>2, <3>3
  <2> QED BY <2>1, <2>2
<1>2. SUBSET S \subseteq F
  <2> HIDE DEF F
  <2> QED BY <1>1, SubsetInduction
<1> QED BY <1>2

LEMMA SumSame ==
    ASSUME NEW S, IsFiniteSet(S), NEW f, NEW g,
           \A x \in S : f[x] \in Int /\ g[x] = f[x]
    PROVE  SumFunctionOnSet(g, S) = SumFunctionOnSet(f, S)
<1>1. SumFunctionOnSet(f, S) \in Int /\ SumFunctionOnSet(g, S) \in Int
  BY SumType
<1>2. /\ SumFunctionOnSet(f, S) <= SumFunctionOnSet(g, S)
      /\ SumFunctionOnSet(g, S) <= SumFunctionOnSet(f, S)
  BY SumCompare
<1> QED BY <1>1, <1>2

LEMMA SumPlus ==
    ASSUME NEW S, IsFiniteSet(S), NEW f, NEW g, NEW h,
           \A x \in S : f[x] \in Int /\ g[x] \in Int /\ h[x] = f[x] + g[x]
    PROVE  SumFunctionOnSet(h, S) = SumFunctionOnSet(f, S) + SumFunctionOnSet(g, S)
<1> DEFINE F == {T \in SUBSET S :
                   SumFunctionOnSet(h, T) = SumFunctionOnSet(f, T) + SumFunctionOnSet(g, T)}
<1>1. ASSUME NEW T \in SUBSET S, \A U \in SUBSET T : U # T => U \in F
      PROVE  T \in F
  <2>1. CASE T = {}
    BY <2>1, SumEmpty
  <2>2. CASE T # {}
    <3>0. IsFiniteSet(T)
      BY FS_Subset
    <3>1. /\ Pick(T) \in T
          /\ SumFunctionOnSet(f, T) = f[Pick(T)] + SumFunctionOnSet(f, T \ {Pick(T)})
          /\ SumFunctionOnSet(g, T) = g[Pick(T)] + SumFunctionOnSet(g, T \ {Pick(T)})
          /\ SumFunctionOnSet(h, T) = h[Pick(T)] + SumFunctionOnSet(h, T \ {Pick(T)})
      BY <2>2, <3>0, SumPick
    <3>2. T \ {Pick(T)} \in F
      BY <1>1, <3>1
    <3>3. /\ SumFunctionOnSet(f, T \ {Pick(T)}) \in Int
          /\ SumFunctionOnSet(g, T \ {Pick(T)}) \in Int
      BY SumType
    <3>4. f[Pick(T)] \in Int /\ g[Pick(T)] \in Int /\ h[Pick(T)] = f[Pick(T)] + g[Pick(T)]
      BY <3>1
    <3> QED BY <3>1, <3>2, <3>3, <3>4
  <2> QED BY <2>1, <2>2
<1>2. SUBSET S \subseteq F
  <2> HIDE DEF F
  <2> QED BY <1>1, SubsetInduction
<1> QED BY <1>2

LEMMA SumNat ==
    ASSUME NEW S, IsFiniteSet(S), NEW f, \A x \in S : f[x] \in Nat
    PROVE  SumFunctionOnSet(f, S) \in Nat
<1> DEFINE zero == [x \in S |-> 0]
<1> DEFINE F == {T \in SUBSET S : SumFunctionOnSet(f, T) \in Nat}
<1>1. ASSUME NEW T \in SUBSET S, \A U \in SUBSET T : U # T => U \in F
      PROVE  T \in F
  <2>1. CASE T = {}
    BY <2>1, SumEmpty
  <2>2. CASE T # {}
    <3>1. /\ Pick(T) \in T
          /\ SumFunctionOnSet(f, T) = f[Pick(T)] + SumFunctionOnSet(f, T \ {Pick(T)})
      BY <2>2, FS_Subset, SumPick
    <3>2. T \ {Pick(T)} \in F
      BY <1>1, <3>1
    <3> QED BY <3>1, <3>2
  <2> QED BY <2>1, <2>2
<1>2. SUBSET S \subseteq F
  <2> HIDE DEF F
  <2> QED BY <1>1, SubsetInduction
<1> QED BY <1>2

\* The sum follows a change of the function at one index.
LEMMA SumChange ==
    ASSUME NEW S, IsFiniteSet(S), NEW f, NEW g, NEW x \in S,
           \A y \in S : f[y] \in Int /\ g[y] \in Int,
           \A y \in S \ {x} : g[y] = f[y]
    PROVE  SumFunctionOnSet(g, S) = SumFunctionOnSet(f, S) + g[x] - f[x]
<1>1. /\ SumFunctionOnSet(f, S) = f[x] + SumFunctionOnSet(f, S \ {x})
      /\ SumFunctionOnSet(g, S) = g[x] + SumFunctionOnSet(g, S \ {x})
  BY SumRemove
<1>2. IsFiniteSet(S \ {x}) /\ \A y \in S \ {x} : f[y] \in Int /\ g[y] = f[y]
  BY FS_RemoveElement
<1>3. SumFunctionOnSet(g, S \ {x}) = SumFunctionOnSet(f, S \ {x})
  BY <1>2, SumSame
<1>4. SumFunctionOnSet(f, S \ {x}) \in Int /\ f[x] \in Int /\ g[x] \in Int
  BY SumType
<1> QED BY <1>1, <1>3, <1>4

-----------------------------------------------------------------------------
(* Traffic: totals and logs agree                                          *)

\* The types the proof needs: all but those of the sums.
MetersTyped ==
    counter \in [Reporters -> Records] /\ prev \in [Reporters -> Records]

ReportsTyped ==
    report \in [Reporters -> [rec : Records, attempt : 0..MaxAttempts,
                              by : Handlers \cup {NoHandler}]]

BooksTyped ==
    /\ tx \in [Handlers -> [node : Reporters \cup {NoHandler}, rec : Records,
                            todo : SUBSET Customers]]
    /\ userLock \in [Customers -> Handlers \cup {"reset", NoHandler}]
    /\ used \in [Customers -> Nat] /\ logged \in [Customers -> Nat]
    /\ apart \in [Customers -> Int] /\ copies \subseteq Customers \X Nat

\* A transaction that is past a customer has that customer's row locked: nobody else can
\* have added to the total, reset it or deleted the customer before the commit.
RowsAreLocked ==
    \A h \in Handlers : \A u \in Customers \ deleted :
        tx[h].rec[u] > 0 /\ u \notin tx[h].todo => userLock[u] = h

BooksInv == MetersTyped /\ ReportsTyped /\ BooksTyped /\ RowsAreLocked /\ BooksAgree

-----------------------------------------------------------------------------
LEMMA NothingTyped ==
    /\ Nothing \in Records
    /\ Quiet \in [rec : Records, attempt : 0..MaxAttempts, by : Handlers \cup {NoHandler}]
    /\ NoTx \in [node : Reporters \cup {NoHandler}, rec : Records, todo : SUBSET Customers]
    /\ \A u \in Customers : NoTx.rec[u] = 0
<1>1. Nothing \in Records
  BY DEF Nothing, Records
<1> QED BY <1>1 DEF Quiet, NoTx, Nothing, MaxAttempts

LEMMA DeltasTyped ==
    ASSUME MetersTyped, NEW n \in Reporters PROVE Deltas(n) \in Records
<1>1. ASSUME NEW u \in Customers PROVE Grown(counter[n][u], prev[n][u]) \in Nat
  <2>1. counter[n][u] \in Nat /\ prev[n][u] \in Nat
    BY DEF MetersTyped, Records
  <2> QED BY <2>1 DEF Grown
<1> QED BY <1>1 DEF Deltas, Records

LEMMA RetriedTyped ==
    ASSUME ReportsTyped, NEW n \in Reporters
    PROVE  Retried(n) \in [rec : Records, attempt : 0..MaxAttempts,
                           by : Handlers \cup {NoHandler}]
<1>1. CASE report[n].attempt < MaxAttempts
  <2>1. report[n] \in [rec : Records, attempt : 0..MaxAttempts,
                       by : Handlers \cup {NoHandler}]
    BY DEF ReportsTyped
  <2>2. report[n].attempt + 1 \in 0..MaxAttempts
    BY <1>1, <2>1 DEF MaxAttempts
  <2>3. Retried(n) = [report[n] EXCEPT !.attempt = @ + 1, !.by = NoHandler]
    BY <1>1 DEF Retried
  <2> QED BY ONLY <2>1, <2>2, <2>3
<1>2. CASE ~(report[n].attempt < MaxAttempts)
  BY <1>2, NothingTyped DEF Retried
<1> QED BY <1>1, <1>2

-----------------------------------------------------------------------------
(* The node's steps                                                        *)

LEMMA AgentStep ==
    ASSUME BooksInv, NEW n \in Reporters,
           \/ \E u \in Customers : Carry(n, u)
           \/ XrayRestarts(n) \/ AgentCrashes(n) \/ QueryDelta(n) \/ Unreached(n) \/ TimesOut(n)
    PROVE  BooksInv'
<1>1. UNCHANGED <<tx, userLock, totalVars>>
  BY DEF Carry, XrayRestarts, AgentCrashes, QueryDelta, Unreached, TimesOut
<1>2. BooksTyped' /\ RowsAreLocked' /\ BooksAgree'
  BY <1>1 DEF BooksInv, BooksTyped, RowsAreLocked, BooksAgree, totalVars
<1>3. MetersTyped'
  <2>1. ASSUME NEW u \in Customers, Carry(n, u) PROVE MetersTyped'
    <3>1. counter[n][u] \in Nat
      BY DEF BooksInv, MetersTyped, Records
    <3>2. [counter[n] EXCEPT ![u] = @ + 1] \in Records
      BY <3>1 DEF BooksInv, MetersTyped, Records
    <3> QED BY <2>1, <3>2 DEF Carry, BooksInv, MetersTyped
  <2>2. CASE XrayRestarts(n) \/ AgentCrashes(n) \/ QueryDelta(n)
    BY <2>2, NothingTyped DEF XrayRestarts, AgentCrashes, QueryDelta, BooksInv, MetersTyped
  <2>3. CASE Unreached(n) \/ TimesOut(n)
    BY <2>3 DEF Unreached, TimesOut, meterVars, BooksInv, MetersTyped
  <2> QED BY <2>1, <2>2, <2>3
<1>4. ReportsTyped'
  <2>1. CASE QueryDelta(n)
    <3>1. [rec |-> Deltas(n), attempt |-> 1, by |-> NoHandler]
            \in [rec : Records, attempt : 0..MaxAttempts, by : Handlers \cup {NoHandler}]
      BY DeltasTyped DEF BooksInv, MaxAttempts
    <3> QED BY <2>1, <3>1 DEF QueryDelta, BooksInv, ReportsTyped
  <2>2. CASE Unreached(n)
    BY <2>2, RetriedTyped DEF Unreached, BooksInv, ReportsTyped
  <2>3. CASE AgentCrashes(n) \/ TimesOut(n)
    BY <2>3, NothingTyped DEF AgentCrashes, TimesOut, BooksInv, ReportsTyped
  <2>4. CASE XrayRestarts(n) \/ \E u \in Customers : Carry(n, u)
    BY <2>4 DEF XrayRestarts, Carry, BooksInv, ReportsTyped
  <2> QED BY <2>1, <2>2, <2>3, <2>4
<1> QED BY <1>2, <1>3, <1>4 DEF BooksInv

-----------------------------------------------------------------------------
(* The panel's transaction                                                 *)

LEMMA BeginStep ==
    ASSUME BooksInv, NEW h \in Handlers, NEW n \in Reporters, BeginReport(h, n) PROVE BooksInv'
<1>1. /\ report[n].rec \in Records
      /\ \A u \in Customers : report[n].rec[u] \in Nat
  BY DEF BooksInv, ReportsTyped, Records
<1>2. MetersTyped' /\ ReportsTyped'
  BY DEF BeginReport, meterVars, BooksInv, MetersTyped, ReportsTyped
<1> DEFINE begun == [node |-> n, rec |-> report[n].rec,
                     todo |-> {u \in Customers : report[n].rec[u] > 0}]
<1>3. tx' = [tx EXCEPT ![h] = begun] /\ UNCHANGED <<userLock, totalVars>>
  BY DEF BeginReport
<1>4. BooksTyped'
  BY <1>1, <1>3 DEF BooksInv, BooksTyped, totalVars
<1>5. \A u \in Customers : begun.rec[u] > 0 => u \in begun.todo
  BY <1>1
<1>6. RowsAreLocked'
  <2> HIDE DEF begun
  <2> QED BY <1>3, <1>5 DEF BooksInv, RowsAreLocked, BooksTyped, totalVars
<1>7. BooksAgree'
  BY <1>3 DEF BooksInv, BooksAgree, totalVars
<1> QED BY <1>2, <1>4, <1>6, <1>7 DEF BooksInv

LEMMA AddStep ==
    ASSUME BooksInv, NEW h \in Handlers, NEW u \in Customers, AddTraffic(h, u) PROVE BooksInv'
<1>1. MetersTyped' /\ ReportsTyped' /\ BooksAgree'
  BY DEF AddTraffic, meterVars, totalVars, BooksInv, MetersTyped, ReportsTyped, BooksAgree
<1>2. tx' = [tx EXCEPT ![h].todo = @ \ {u}]
  BY DEF AddTraffic
<1>3. BooksTyped'
  BY <1>2 DEF AddTraffic, BooksInv, BooksTyped, totalVars
<1>4. RowsAreLocked'
  <2> SUFFICES ASSUME NEW g \in Handlers, NEW v \in Customers \ deleted,
                      tx'[g].rec[v] > 0, v \notin tx'[g].todo
               PROVE  userLock'[v] = g
    BY DEF RowsAreLocked, AddTraffic, totalVars
  <2>1. tx'[g].rec = tx[g].rec
    BY <1>2 DEF BooksInv, BooksTyped
  <2>2. CASE v \notin tx[g].todo
    <3>1. userLock[v] = g
      BY <2>1, <2>2 DEF BooksInv, RowsAreLocked
    <3>2. v # u
      BY <3>1, TrafficAssumption DEF AddTraffic
    <3> QED BY <3>1, <3>2 DEF AddTraffic
  <2>3. CASE v \in tx[g].todo
    <3>1. g = h /\ v = u
      BY <1>2, <2>3 DEF BooksInv, BooksTyped
    <3> QED BY <3>1 DEF AddTraffic, BooksInv, BooksTyped
  <2> QED BY <2>2, <2>3
<1> QED BY <1>1, <1>3, <1>4 DEF BooksInv

\* What a handler that is done, or has failed, leaves locked and open.
LEMMA ReleaseStep ==
    ASSUME BooksInv, NEW h \in Handlers, userLock' = RowsReleased(h), tx' = [tx EXCEPT ![h] = NoTx],
           UNCHANGED <<apart, copies, deleted>>,
           used' \in [Customers -> Nat], logged' \in [Customers -> Nat]
    PROVE  BooksTyped' /\ RowsAreLocked'
<1>1. BooksTyped'
  BY NothingTyped DEF RowsReleased, BooksInv, BooksTyped
<1>2. RowsAreLocked'
  <2> SUFFICES ASSUME NEW g \in Handlers, NEW v \in Customers \ deleted,
                      tx'[g].rec[v] > 0, v \notin tx'[g].todo
               PROVE  userLock'[v] = g
    BY DEF RowsAreLocked
  <2>1. g # h
    BY NothingTyped DEF BooksInv, BooksTyped
  <2>2. userLock[v] = g
    BY <2>1 DEF BooksInv, BooksTyped, RowsAreLocked
  <2> QED BY <2>1, <2>2 DEF RowsReleased
<1> QED BY <1>1, <1>2

LEMMA CommitStep == ASSUME BooksInv, NEW h \in Handlers, CommitReport(h) PROVE BooksInv'
<1>1. \A u \in Customers : tx[h].rec[u] \in Nat /\ used[u] \in Nat /\ logged[u] \in Nat
  BY DEF BooksInv, BooksTyped, Records
<1>2. /\ used' = [u \in Customers |-> used[u] + IF userLock[u] = h THEN tx[h].rec[u] ELSE 0]
      /\ logged' = [u \in Customers |-> logged[u] + tx[h].rec[u]]
      /\ tx[h].todo = {} /\ UNCHANGED <<meterVars, apart, copies, deleted>>
  BY DEF CommitReport
<1>3. used' \in [Customers -> Nat] /\ logged' \in [Customers -> Nat]
  BY <1>1, <1>2
<1>4. BooksTyped' /\ RowsAreLocked'
  BY <1>2, <1>3, ReleaseStep DEF CommitReport
<1>5. BooksAgree'
  <2> SUFFICES ASSUME NEW u \in Customers \ deleted PROVE used'[u] = logged'[u] + apart[u]
    BY <1>2 DEF BooksAgree
  <2>1. used[u] = logged[u] + apart[u] /\ apart[u] \in Int
    BY DEF BooksInv, BooksAgree, BooksTyped
  <2>2. userLock[u] = h \/ tx[h].rec[u] = 0
    BY <1>1, <1>2 DEF BooksInv, RowsAreLocked
  <2> QED BY <1>1, <1>2, <2>1, <2>2
<1>6. MetersTyped' /\ ReportsTyped'
  <2>1. MetersTyped'
    BY <1>2 DEF meterVars, BooksInv, MetersTyped
  <2>2. ReportsTyped'
    <3>1. CASE report' = [n \in Reporters |-> IF n \in Awaited(h) THEN Quiet ELSE report[n]]
      BY <3>1, NothingTyped DEF BooksInv, ReportsTyped
    <3>2. ASSUME NEW n \in Reporters, report' = [report EXCEPT ![n] = Retried(n)]
          PROVE  ReportsTyped'
      BY <3>2, RetriedTyped DEF BooksInv, ReportsTyped
    <3> QED BY <3>1, <3>2 DEF CommitReport, Awaited
  <2> QED BY <2>1, <2>2
<1> QED BY <1>4, <1>5, <1>6 DEF BooksInv

LEMMA AbortStep == ASSUME BooksInv, NEW h \in Handlers, Aborts(h) PROVE BooksInv'
<1>1. UNCHANGED <<meterVars, totalVars>>
  BY DEF Aborts
<1>2. BooksTyped' /\ RowsAreLocked'
  <2>1. /\ used' \in [Customers -> Nat] /\ logged' \in [Customers -> Nat]
        /\ UNCHANGED <<apart, copies, deleted>>
    BY <1>1 DEF BooksInv, BooksTyped, totalVars
  <2> QED BY <2>1, ReleaseStep DEF Aborts
<1>3. MetersTyped' /\ BooksAgree'
  BY <1>1 DEF BooksInv, MetersTyped, BooksAgree, meterVars, totalVars
<1>4. ReportsTyped'
  BY RetriedTyped DEF Aborts, BooksInv, ReportsTyped
<1> QED BY <1>2, <1>3, <1>4 DEF BooksInv

-----------------------------------------------------------------------------
(* The administrator's steps                                               *)

LEMMA AdminStep ==
    ASSUME BooksInv, NEW u \in Customers, ResetUser(u) \/ ResetLogs(u) \/ DeleteUser(u)
    PROVE  BooksInv'
<1>1. MetersTyped' /\ ReportsTyped'
  BY DEF ResetUser, ResetLogs, DeleteUser, meterVars, BooksInv, MetersTyped, ReportsTyped
<1>2. BooksTyped'
  BY DEF ResetUser, ResetLogs, DeleteUser, totalVars, BooksInv, BooksTyped
<1>3. RowsAreLocked'
  <2>1. CASE ResetUser(u)
    BY <2>1, TrafficAssumption DEF ResetUser, totalVars, BooksInv, RowsAreLocked, BooksTyped
  <2>2. CASE ResetLogs(u)
    BY <2>2, TrafficAssumption DEF ResetLogs, BooksInv, RowsAreLocked, BooksTyped
  <2>3. CASE DeleteUser(u)
    BY <2>3 DEF DeleteUser, BooksInv, RowsAreLocked
  <2> QED BY <2>1, <2>2, <2>3
<1>4. BooksAgree'
  <2>1. CASE ResetUser(u)
    BY <2>1 DEF ResetUser, totalVars, BooksInv, BooksAgree
  <2>2. CASE ResetLogs(u)
    BY <2>2 DEF ResetLogs, BooksInv, BooksAgree, BooksTyped
  <2>3. CASE DeleteUser(u)
    BY <2>3 DEF DeleteUser, BooksInv, BooksAgree
  <2> QED BY <2>1, <2>2, <2>3
<1> QED BY <1>1, <1>2, <1>3, <1>4 DEF BooksInv

\* What the others write keeps the account of the difference.
LEMMA TotalStep ==
    ASSUME BooksInv, NEW u \in Customers, NEW n \in Nat, TotalBecomes(u, n),
           copies' \subseteq copies
    PROVE  BooksInv'
<1>1. MetersTyped' /\ ReportsTyped' /\ RowsAreLocked'
  BY DEF TotalBecomes, meterVars, BooksInv, MetersTyped, ReportsTyped, RowsAreLocked
<1>2. /\ \A v \in Customers : used[v] \in Nat /\ logged[v] \in Nat /\ apart[v] \in Int
      /\ used \in [Customers -> Nat] /\ apart \in [Customers -> Int]
  BY DEF BooksInv, BooksTyped
<1>3. /\ used' = [used EXCEPT ![u] = n]
      /\ apart' = [apart EXCEPT ![u] = @ + n - used[u]]
      /\ UNCHANGED <<tx, userLock, logged, deleted>>
  BY DEF TotalBecomes
<1>4. BooksTyped'
  <2>1. used' \in [Customers -> Nat] /\ apart' \in [Customers -> Int]
    BY <1>2, <1>3
  <2> QED BY <1>3, <2>1 DEF BooksInv, BooksTyped
<1>5. BooksAgree'
  <2> SUFFICES ASSUME NEW v \in Customers \ deleted PROVE used'[v] = logged[v] + apart'[v]
    BY <1>3 DEF BooksAgree
  <2>1. used[v] = logged[v] + apart[v]
    BY DEF BooksInv, BooksAgree
  <2>2. CASE v = u
    <3>1. used'[v] = n /\ apart'[v] = apart[u] + n - used[u]
      BY <1>2, <1>3, <2>2
    <3> QED BY <1>2, <2>1, <2>2, <3>1
  <2>3. CASE v # u
    BY <1>2, <1>3, <2>1, <2>3
  <2> QED BY <2>2, <2>3
<1> QED BY <1>1, <1>4, <1>5 DEF BooksInv

LEMMA CleanStep ==
    ASSUME BooksInv, NEW u \in Customers, CleanOldLogs(u) PROVE BooksInv'
<1>1. MetersTyped' /\ ReportsTyped' /\ RowsAreLocked'
  BY DEF CleanOldLogs, meterVars, BooksInv, MetersTyped, ReportsTyped, RowsAreLocked
<1>2. /\ \A v \in Customers : used[v] \in Nat /\ logged[v] \in Nat /\ apart[v] \in Int
      /\ logged \in [Customers -> Nat] /\ apart \in [Customers -> Int]
  BY DEF BooksInv, BooksTyped
<1>3. PICK old \in 1..logged[u] :
        /\ logged' = [logged EXCEPT ![u] = @ - old]
        /\ apart' = [apart EXCEPT ![u] = @ + old]
  BY DEF CleanOldLogs
<1>4. old \in Nat /\ logged[u] - old \in Nat /\ UNCHANGED <<tx, userLock, used, copies, deleted>>
  BY <1>2 DEF CleanOldLogs
<1>5. BooksTyped'
  <2>1. logged' \in [Customers -> Nat] /\ apart' \in [Customers -> Int]
    BY <1>2, <1>3, <1>4
  <2> QED BY <1>4, <2>1 DEF BooksInv, BooksTyped
<1>6. BooksAgree'
  <2> SUFFICES ASSUME NEW v \in Customers \ deleted PROVE used[v] = logged'[v] + apart'[v]
    BY <1>4 DEF BooksAgree
  <2>1. used[v] = logged[v] + apart[v]
    BY DEF BooksInv, BooksAgree
  <2>2. CASE v = u
    <3>1. logged'[v] = logged[u] - old /\ apart'[v] = apart[u] + old
      BY <1>2, <1>3, <2>2
    <3> QED BY <1>2, <1>4, <2>1, <2>2, <3>1
  <2>3. CASE v # u
    BY <1>2, <1>3, <2>1, <2>3
  <2> QED BY <2>2, <2>3
<1> QED BY <1>1, <1>5, <1>6 DEF BooksInv

LEMMA ReadStep ==
    ASSUME BooksInv, NEW u \in Customers, ReadCopy(u) PROVE BooksInv'
<1>1. MetersTyped' /\ ReportsTyped' /\ RowsAreLocked' /\ BooksAgree'
  BY DEF ReadCopy, meterVars, BooksInv, MetersTyped, ReportsTyped, RowsAreLocked, BooksAgree
<1>2. copies' \subseteq Customers \X Nat
  <2>1. <<u, used[u]>> \in Customers \X Nat
    BY DEF BooksInv, BooksTyped
  <2> QED BY <2>1 DEF ReadCopy, BooksInv, BooksTyped
<1>3. BooksTyped'
  BY <1>2 DEF ReadCopy, BooksInv, BooksTyped
<1> QED BY <1>1, <1>3 DEF BooksInv

\* The steps of those who write totals or take log lines away.
LEMMA OtherStep ==
    ASSUME BooksInv,
           \/ \E u \in Customers : PlanReplaced(u) \/ ReadCopy(u) \/ CleanOldLogs(u)
           \/ \E c \in copies : SaveCopy(c)
    PROVE  BooksInv'
<1>1. ASSUME NEW u \in Customers, PlanReplaced(u) PROVE BooksInv'
  BY <1>1, TotalStep DEF PlanReplaced
<1>2. ASSUME NEW c \in copies, SaveCopy(c) PROVE BooksInv'
  <2>1. c[1] \in Customers /\ c[2] \in Nat
    BY DEF BooksInv, BooksTyped
  <2> QED BY <1>2, <2>1, TotalStep DEF SaveCopy
<1> QED BY <1>1, <1>2, ReadStep, CleanStep

-----------------------------------------------------------------------------
LEMMA BooksInit == TrafficInit => BooksInv
<1> SUFFICES ASSUME TrafficInit PROVE BooksInv
  OBVIOUS
<1>1. MetersTyped /\ ReportsTyped
  BY NothingTyped DEF TrafficInit, MetersTyped, ReportsTyped
<1>2. BooksTyped
  <2>1. /\ used \in [Customers -> Nat] /\ logged \in [Customers -> Nat]
        /\ apart \in [Customers -> Int] /\ copies = {}
    BY DEF TrafficInit, Nothing
  <2> QED BY <2>1, NothingTyped DEF TrafficInit, BooksTyped
<1>3. RowsAreLocked
  BY NothingTyped DEF TrafficInit, RowsAreLocked
<1>4. BooksAgree
  BY DEF TrafficInit, BooksAgree, Nothing
<1> QED BY <1>1, <1>2, <1>3, <1>4 DEF BooksInv

LEMMA BooksStep == BooksInv /\ [TrafficNext]_trafficVars => BooksInv'
<1> SUFFICES ASSUME BooksInv, [TrafficNext]_trafficVars PROVE BooksInv'
  OBVIOUS
<1>1. ASSUME NEW h \in Handlers, ServeReport(h) \/ ReportFails(h) PROVE BooksInv'
  BY <1>1, BeginStep, AddStep, CommitStep, AbortStep DEF ServeReport, ReportFails, DeadlockBroken
<1>2. CASE UNCHANGED trafficVars
  BY <1>2 DEF trafficVars, BooksInv, MetersTyped,
         ReportsTyped, BooksTyped, RowsAreLocked, BooksAgree
<1> QED BY <1>1, <1>2, AgentStep, AdminStep, OtherStep DEF TrafficNext

\* A report adds the same to a customer's total and to the log, and a reset empties both,
\* for any number of nodes reporting at once, whatever fails, deadlocks or is deleted: what
\* lies between the two is what plans that begin at zero, rows saved whole and the cleaning
\* of old logs have put there.
THEOREM BooksAlwaysAgree == TrafficSpec => []BooksAgree
<1>1. BooksInv => BooksAgree
  BY DEF BooksInv
<1> QED BY <1>1, BooksInit, BooksStep, PTL DEF TrafficSpec

-----------------------------------------------------------------------------
(* No byte is charged twice                                                *)

TotalsTyped ==
    /\ carried \in [Reporters -> Records]
    /\ nodeUsed \in [Reporters -> Nat] /\ repeated \in [Reporters -> Nat]
    /\ deleted \subseteq Customers /\ dropped \in BOOLEAN
    /\ trafficScope \in [ops : SUBSET Incidents, changes : Nat, bytes : Nat]

\* An agent waits for the handler that works on its report.
CallsMatch ==
    \A n \in Reporters : report[n].by # NoHandler =>
        tx[report[n].by].node = n /\ tx[report[n].by].rec = report[n].rec

\* Where the bytes of a node are that it is not charged for yet: in open transactions, some
\* of which nobody waits for any more, in the report that waits, and in the counters.
Share(t, n) == IF t.node = n THEN Total(t.rec) ELSE 0
Open(n) == SumFunctionOnSet([h \in Handlers |-> Share(tx[h], n)], Handlers)
Waiting(n) == IF report[n].by = NoHandler THEN Total(report[n].rec) ELSE 0
Unsent(n) == Total(Deltas(n))

Accounted(n) ==
    nodeUsed[n] + Open(n) + Waiting(n) + Unsent(n) <= Total(carried[n]) + repeated[n]

BillInv == TotalsTyped /\ CallsMatch /\ \A n \in Reporters : Accounted(n)

LEMMA TotalTyped ==
    /\ \A rec \in Records : Total(rec) \in Nat
    /\ Total(Nothing) = 0
<1>1. ASSUME NEW rec \in Records PROVE Total(rec) \in Nat
  BY SumNat, TrafficAssumption DEF Total, Records
<1>2. Total(Nothing) = 0
  <2>1. \A u \in Customers : Nothing[u] \in Int /\ Nothing[u] = Nothing[u] + Nothing[u]
    BY DEF Nothing
  <2>2. SumFunctionOnSet(Nothing, Customers)
          = SumFunctionOnSet(Nothing, Customers) + SumFunctionOnSet(Nothing, Customers)
    BY <2>1, SumPlus, TrafficAssumption
  <2>3. SumFunctionOnSet(Nothing, Customers) \in Nat
    BY <1>1, NothingTyped DEF Total
  <2>4. \A k \in Nat : k = k + k => k = 0
    OBVIOUS
  <2>5. SumFunctionOnSet(Nothing, Customers) = 0
    BY ONLY <2>2, <2>3, <2>4
  <2> QED BY <2>5 DEF Total
<1> QED BY <1>1, <1>2

LEMMA TotalChange ==
    ASSUME NEW f \in Records, NEW g \in Records, NEW u \in Customers,
           \A v \in Customers \ {u} : g[v] = f[v]
    PROVE  Total(g) = Total(f) + g[u] - f[u]
<1>1. \A v \in Customers : f[v] \in Int /\ g[v] \in Int
  BY DEF Records
<1> QED BY <1>1, SumChange, TrafficAssumption DEF Total

\* The parts of a node's bytes are numbers.
LEMMA PartsTyped ==
    ASSUME MetersTyped, ReportsTyped, BooksTyped, TotalsTyped, NEW n \in Reporters
    PROVE  /\ Open(n) \in Nat /\ Waiting(n) \in Nat /\ Unsent(n) \in Nat
           /\ nodeUsed[n] \in Nat /\ repeated[n] \in Nat /\ Total(carried[n]) \in Nat
           /\ \A h \in Handlers : Share(tx[h], n) \in Nat
<1>1. \A h \in Handlers : Share(tx[h], n) \in Nat
  BY TotalTyped DEF Share, BooksTyped
<1>2. Open(n) \in Nat
  <2> DEFINE f == [h \in Handlers |-> Share(tx[h], n)]
  <2>1. \A h \in Handlers : f[h] \in Nat
    BY <1>1
  <2>2. SumFunctionOnSet(f, Handlers) \in Nat
    <3> HIDE DEF f
    <3> QED BY <2>1, SumNat, TrafficAssumption
  <2> QED BY <2>2 DEF Open
<1>3. Waiting(n) \in Nat
  BY TotalTyped DEF Waiting, ReportsTyped
<1>4. Unsent(n) \in Nat
  BY DeltasTyped, TotalTyped DEF Unsent
<1>5. nodeUsed[n] \in Nat /\ repeated[n] \in Nat /\ Total(carried[n]) \in Nat
  BY TotalTyped DEF TotalsTyped
<1> QED BY <1>1, <1>2, <1>3, <1>4, <1>5

\* What opening, or closing, a transaction does to the bytes in transactions.
LEMMA OpenChange ==
    ASSUME BooksTyped, BooksTyped', NEW h \in Handlers, NEW t, tx' = [tx EXCEPT ![h] = t],
           NEW n \in Reporters
    PROVE  Open(n)' = Open(n) + Share(t, n) - Share(tx[h], n)
<1> DEFINE f == [g \in Handlers |-> Share(tx[g], n)]
<1> DEFINE k == [g \in Handlers |-> Share(tx'[g], n)]
<1>1. \A g \in Handlers : Share(tx[g], n) \in Int /\ Share(tx'[g], n) \in Int
  BY TotalTyped DEF Share, BooksTyped
<1>2. tx'[h] = t /\ \A g \in Handlers \ {h} : tx'[g] = tx[g]
  BY DEF BooksTyped
<1>3. /\ \A g \in Handlers : f[g] \in Int /\ k[g] \in Int
      /\ \A g \in Handlers \ {h} : k[g] = f[g]
  BY <1>1, <1>2
<1>4. SumFunctionOnSet(k, Handlers) = SumFunctionOnSet(f, Handlers) + k[h] - f[h]
  <2> HIDE DEF f, k
  <2> QED BY <1>3, SumChange, TrafficAssumption
<1>5. k[h] = Share(t, n) /\ f[h] = Share(tx[h], n)
  BY <1>2
<1>6. Open(n)' = SumFunctionOnSet(k, Handlers) /\ Open(n) = SumFunctionOnSet(f, Handlers)
  BY DEF Open, Share
<1> QED BY <1>4, <1>5, <1>6

\* One more byte carried is at most one more byte to report.
LEMMA GrownByOne ==
    ASSUME NEW c \in Nat, NEW p \in Nat
    PROVE  /\ Grown(c, p) \in Nat /\ Grown(c + 1, p) \in Nat
           /\ Grown(c + 1, p) <= Grown(c, p) + 1
           /\ Grown(0, p) = 0 /\ Grown(c, c) = 0
BY DEF Grown

LEMMA MeterBill ==
    ASSUME BooksInv, BillInv, BooksInv', NEW n \in Reporters,
           \/ \E u \in Customers : Carry(n, u)
           \/ XrayRestarts(n) \/ AgentCrashes(n) \/ QueryDelta(n)
    PROVE  \A k \in Reporters : Accounted(k)'
<1>t. /\ MetersTyped /\ ReportsTyped /\ BooksTyped /\ TotalsTyped
      /\ UNCHANGED <<tx, nodeUsed, repeated>>
  BY DEF BooksInv, BillInv, Carry, XrayRestarts, AgentCrashes, QueryDelta, totalVars, lossVars
<1>m. \A k \in Reporters : \A v \in Customers : counter[k][v] \in Nat /\ prev[k][v] \in Nat
  BY <1>t DEF MetersTyped, Records
<1>d. \A k \in Reporters : Deltas(k) \in Records /\ Deltas(k)' \in Records
  <2>1. \A k \in Reporters : \A v \in Customers : counter'[k][v] \in Nat /\ prev'[k][v] \in Nat
    BY DEF BooksInv, MetersTyped, Records
  <2> QED BY <1>m, <2>1, GrownByOne DEF Deltas, Records
<1>o. \A k \in Reporters : Open(k)' = Open(k)
  BY <1>t DEF Open, Share
<1>1. ASSUME NEW k \in Reporters, k # n PROVE Accounted(k)'
  <2>1. /\ carried'[k] = carried[k] /\ counter'[k] = counter[k] /\ prev'[k] = prev[k]
        /\ report'[k] = report[k]
    BY <1>t, <1>1 DEF MetersTyped, ReportsTyped, TotalsTyped,
           Carry, XrayRestarts, AgentCrashes, QueryDelta
  <2>2. /\ Waiting(k)' = Waiting(k) /\ Unsent(k)' = Unsent(k)
        /\ Total(carried[k])' = Total(carried[k])
    BY <2>1 DEF Waiting, Unsent, Deltas, Total
  <2> QED BY <1>o, <1>t, <2>2 DEF Accounted, BillInv
<1>2. ASSUME Waiting(n)' + Unsent(n)' <= Waiting(n) + Unsent(n) + Total(carried[n])' - Total(carried[n]),
             Waiting(n)' \in Nat, Unsent(n)' \in Nat, Total(carried[n])' \in Nat
      PROVE  Accounted(n)'
  <2>1. Accounted(n)
    BY DEF BillInv
  <2>2. nodeUsed'[n] = nodeUsed[n] /\ repeated'[n] = repeated[n] /\ Open(n)' = Open(n)
    BY <1>t, <1>o
  <2> QED BY <1>2, <1>t, <2>1, <2>2, PartsTyped DEF Accounted
<1>3. ASSUME NEW u \in Customers, Carry(n, u) PROVE Accounted(n)'
  <2>1. /\ carried'[n] = [carried[n] EXCEPT ![u] = @ + 1]
        /\ counter'[n] = [counter[n] EXCEPT ![u] = @ + 1]
        /\ prev' = prev /\ report' = report
    BY <1>3, <1>t DEF Carry, MetersTyped, TotalsTyped
  <2>2. Waiting(n)' = Waiting(n)
    BY <2>1 DEF Waiting
  <2>c. \A v \in Customers : carried[n][v] \in Nat
    BY <1>t DEF TotalsTyped, Records
  <2>3. Total(carried'[n]) = Total(carried[n]) + 1
    <3>1. carried'[n] \in Records
      BY <1>t, <2>1, <2>c DEF TotalsTyped, Records
    <3>2. \A v \in Customers \ {u} : carried'[n][v] = carried[n][v]
      BY <1>t, <2>1 DEF TotalsTyped, Records
    <3>3. carried'[n][u] = carried[n][u] + 1 /\ carried[n][u] \in Int
      BY <1>t, <2>1, <2>c DEF TotalsTyped, Records
    <3>4. Total(carried'[n]) = Total(carried[n]) + carried'[n][u] - carried[n][u]
      BY <1>t, <3>1, <3>2, TotalChange DEF TotalsTyped
    <3>5. Total(carried[n]) \in Int
      BY <1>t, PartsTyped
    <3> QED BY <3>3, <3>4, <3>5
  <2>4. Unsent(n)' <= Unsent(n) + 1
    <3> DEFINE old == Deltas(n)
    <3> DEFINE new == Deltas(n)'
    <3> DEFINE most == [old EXCEPT ![u] = @ + 1]
    <3>1. old \in Records /\ new \in Records
      BY <1>d
    <3>2. old = [v \in Customers |-> Grown(counter[n][v], prev[n][v])]
          /\ new = [v \in Customers |-> Grown(counter'[n][v], prev[n][v])]
      BY <2>1 DEF Deltas
    <3>3. /\ counter'[n][u] = counter[n][u] + 1
          /\ \A v \in Customers \ {u} : counter'[n][v] = counter[n][v]
      BY <1>t, <2>1 DEF MetersTyped, Records
    <3>4. new[u] <= old[u] + 1 /\ \A v \in Customers \ {u} : new[v] = old[v]
      <4>1. counter[n][u] \in Nat /\ prev[n][u] \in Nat
        BY <1>m
      <4>2. /\ new[u] = Grown(counter[n][u] + 1, prev[n][u])
            /\ old[u] = Grown(counter[n][u], prev[n][u])
        BY <3>2, <3>3
      <4>3. \A v \in Customers \ {u} : new[v] = old[v]
        BY <3>2, <3>3
      <4> HIDE DEF old, new
      <4> QED BY <4>1, <4>2, <4>3, GrownByOne
    <3> HIDE DEF old, new
    <3>5. /\ \A v \in Customers : old[v] \in Int /\ most[v] \in Int /\ new[v] \in Int
          /\ \A v \in Customers : new[v] <= most[v]
          /\ most \in Records
          /\ \A v \in Customers \ {u} : most[v] = old[v]
          /\ most[u] = old[u] + 1
      BY <3>1, <3>4 DEF Records
    <3> HIDE DEF most
    <3>6. Total(new) <= Total(most)
      BY <3>5, SumCompare, TrafficAssumption DEF Total
    <3>7. Total(most) = Total(old) + most[u] - old[u]
      BY <3>1, <3>5, TotalChange
    <3>8. Total(most) = Total(old) + 1 /\ Total(old) \in Nat /\ Total(new) \in Nat
      BY <3>1, <3>5, <3>7, TotalTyped
    <3>9. Unsent(n) = Total(old) /\ Unsent(n)' = Total(new)
      BY DEF Unsent, old, new, Total
    <3> QED BY <3>6, <3>8, <3>9
  <2>5. Unsent(n)' \in Nat
    BY <1>d, TotalTyped DEF Unsent, Total
  <2>6. Waiting(n) \in Nat /\ Unsent(n) \in Nat /\ Total(carried[n]) \in Nat
    BY <1>t, PartsTyped
  <2>7. Total(carried[n])' = Total(carried[n]) + 1
    BY <2>3 DEF Total
  <2> QED BY <1>2, <2>2, <2>4, <2>5, <2>6, <2>7
<1>4. ASSUME XrayRestarts(n) \/ AgentCrashes(n) \/ QueryDelta(n) PROVE Accounted(n)'
  <2>1. Total(carried[n])' = Total(carried[n])
    BY <1>4 DEF XrayRestarts, AgentCrashes, QueryDelta, Total
  <2>2. Unsent(n)' = 0
    <3>1. ASSUME NEW v \in Customers PROVE Grown(counter'[n][v], prev'[n][v]) = 0
      <4>1. counter[n][v] \in Nat /\ prev[n][v] \in Nat
        BY <1>m
      <4>2. CASE QueryDelta(n)
        <5>1. counter'[n][v] = counter[n][v] /\ prev'[n][v] = counter[n][v]
          BY <1>t, <4>2 DEF QueryDelta, MetersTyped
        <5> QED BY <4>1, <5>1, GrownByOne
      <4>3. CASE XrayRestarts(n)
        <5>1. counter'[n][v] = 0 /\ prev'[n][v] = prev[n][v]
          BY <1>t, <4>3 DEF XrayRestarts, MetersTyped, Nothing
        <5> QED BY <4>1, <5>1, GrownByOne
      <4>4. CASE AgentCrashes(n)
        <5>1. counter'[n][v] = 0 /\ prev'[n][v] = 0
          BY <1>t, <4>4 DEF AgentCrashes, MetersTyped, Nothing
        <5> QED BY <5>1, GrownByOne
      <4> QED BY <1>4, <4>2, <4>3, <4>4
    <3>2. Deltas(n)' = Nothing
      BY <3>1 DEF Deltas, Nothing
    <3>3. Unsent(n)' = Total(Nothing)
      BY <3>2 DEF Unsent, Total, Nothing
    <3> QED BY <3>3, TotalTyped
  <2>3. Waiting(n)' \in Nat /\ Waiting(n)' <= Waiting(n) + Unsent(n)
    <3>p. Waiting(n) \in Nat /\ Unsent(n) \in Nat
      BY <1>t, PartsTyped
    <3>1. CASE XrayRestarts(n)
      BY <3>1, <3>p DEF XrayRestarts, Waiting
    <3>2. CASE AgentCrashes(n)
      <4>1. report'[n] = Quiet
        BY <1>t, <3>2 DEF AgentCrashes, ReportsTyped
      <4>2. Waiting(n)' = Total(Nothing)
        BY <4>1 DEF Waiting, Quiet, Total, Nothing
      <4> QED BY <3>p, <4>2, TotalTyped
    <3>3. CASE QueryDelta(n)
      <4>1. report'[n] = [rec |-> Deltas(n), attempt |-> 1, by |-> NoHandler]
        BY <1>t, <3>3 DEF QueryDelta, ReportsTyped
      <4>2. Waiting(n)' = Unsent(n)
        BY <4>1 DEF Waiting, Unsent, Total
      <4> QED BY <3>p, <4>2
    <3> QED BY <1>4, <3>1, <3>2, <3>3
  <2>4. Total(carried[n]) \in Nat /\ Waiting(n) \in Nat /\ Unsent(n) \in Nat
    BY <1>t, PartsTyped
  <2> QED BY <1>2, <2>1, <2>2, <2>3, <2>4
<1> QED BY <1>1, <1>3, <1>4

\* What an agent that tries again, or gives up, has waiting.
LEMMA RetriedWaits ==
    ASSUME ReportsTyped, NEW n \in Reporters
    PROVE  /\ Retried(n).by = NoHandler
           /\ Total(Retried(n).rec) \in Nat /\ Total(Retried(n).rec) <= Total(report[n].rec)
<1>1. report[n] \in [rec : Records, attempt : 0..MaxAttempts, by : Handlers \cup {NoHandler}]
  BY DEF ReportsTyped
<1>2. Retried(n) = Quiet \/ (Retried(n).rec = report[n].rec /\ Retried(n).by = NoHandler)
  BY <1>1 DEF Retried
<1>3. Total(report[n].rec) \in Nat /\ Total(Quiet.rec) = 0 /\ Quiet.by = NoHandler
  BY <1>1, TotalTyped DEF Quiet
<1> QED BY <1>2, <1>3

\* A report that is no longer waited for is worth less than it was, the rest is the same.
LEMMA CallBill ==
    ASSUME BooksInv, BillInv, NEW n \in Reporters, Unreached(n) \/ TimesOut(n)
    PROVE  CallsMatch' /\ \A k \in Reporters : Accounted(k)'
<1>t. /\ MetersTyped /\ ReportsTyped /\ BooksTyped /\ TotalsTyped
      /\ UNCHANGED <<carried, counter, prev, tx, nodeUsed, repeated>>
  BY DEF BooksInv, BillInv, Unreached, TimesOut, meterVars, totalVars
<1>r. PICK q \in {Quiet, Retried(n)} : report' = [report EXCEPT ![n] = q]
  BY DEF Unreached, TimesOut
<1>w. q.by = NoHandler /\ Total(q.rec) \in Nat /\ Total(q.rec) <= Total(report[n].rec)
  <2>1. Total(report[n].rec) \in Nat /\ Total(Quiet.rec) = 0 /\ Quiet.by = NoHandler
    BY <1>t, TotalTyped DEF Quiet, ReportsTyped
  <2> QED BY <1>r, <1>t, <2>1, RetriedWaits
<1>1. CallsMatch'
  <2>1. \A k \in Reporters : report'[k] = IF k = n THEN q ELSE report[k]
    BY <1>r, <1>t DEF ReportsTyped
  <2> QED BY <1>t, <1>w, <2>1 DEF CallsMatch, BillInv
<1>2. ASSUME NEW k \in Reporters PROVE Accounted(k)'
  <2>1. Open(k)' = Open(k) /\ Unsent(k)' = Unsent(k) /\ Total(carried[k])' = Total(carried[k])
    BY <1>t DEF Open, Share, Unsent, Deltas, Total
  <2>2. Waiting(k)' \in Nat /\ Waiting(k)' <= Waiting(k)
    <3>1. CASE k # n
      <4>1. Waiting(k)' = Waiting(k)
        BY <1>r, <1>t, <3>1 DEF Waiting, ReportsTyped
      <4> QED BY <1>t, <4>1, PartsTyped
    <3>2. CASE k = n
      <4>1. report'[n] = q
        BY <1>r, <1>t DEF ReportsTyped
      <4>2. Waiting(n)' = Total(q.rec)
        BY <1>w, <4>1 DEF Waiting, Total
      <4>3. Unreached(n) => report[n].by = NoHandler
        BY DEF Unreached, ReportWaiting
      <4>4. TimesOut(n) => report' = [report EXCEPT ![n] = Quiet]
        BY DEF TimesOut
      <4>5. Total(Quiet.rec) = 0
        BY TotalTyped DEF Quiet
      <4>6. CASE Unreached(n)
        BY <1>w, <3>2, <4>2, <4>3, <4>6 DEF Waiting
      <4>7. CASE TimesOut(n)
        <5>1. report'[n] = Quiet
          BY <1>t, <4>4, <4>7 DEF ReportsTyped
        <5>2. Waiting(n)' = 0
          BY <4>1, <4>2, <4>5, <5>1
        <5> QED BY <1>t, <3>2, <5>2, PartsTyped
      <4> QED BY <4>6, <4>7
    <3> QED BY <3>1, <3>2
  <2> QED BY <1>t, <2>1, <2>2, PartsTyped DEF Accounted, BillInv
<1> QED BY <1>1, <1>2

\* A report that is begun is no longer waiting but in a transaction.
LEMMA BeginBill ==
    ASSUME BooksInv, BillInv, BooksInv', NEW h \in Handlers, NEW n \in Reporters, BeginReport(h, n)
    PROVE  CallsMatch' /\ \A k \in Reporters : Accounted(k)'
<1>t. /\ MetersTyped /\ ReportsTyped /\ BooksTyped /\ BooksTyped' /\ TotalsTyped
      /\ UNCHANGED <<carried, counter, prev, nodeUsed, repeated>>
  BY DEF BooksInv, BillInv, BeginReport, meterVars, totalVars, lossVars
<1>1. /\ tx[h] = NoTx /\ report[n].by = NoHandler
      /\ report' = [report EXCEPT ![n].by = h]
  BY DEF BeginReport, ReportWaiting
<1>2. PICK t : /\ t.node = n /\ t.rec = report[n].rec
               /\ tx' = [tx EXCEPT ![h] = t]
  BY DEF BeginReport
<1>3. /\ \A k \in Reporters \ {n} : report'[k] = report[k]
      /\ report'[n].by = h /\ report'[n].rec = report[n].rec
  BY <1>1, <1>t DEF ReportsTyped
<1>4. tx'[h] = t /\ \A g \in Handlers \ {h} : tx'[g] = tx[g]
  BY <1>2, <1>t DEF BooksTyped
<1>5. CallsMatch'
  <2> SUFFICES ASSUME NEW k \in Reporters, report'[k].by # NoHandler
               PROVE  /\ tx'[report'[k].by].node = k
                      /\ tx'[report'[k].by].rec = report'[k].rec
    BY DEF CallsMatch
  <2>1. CASE k = n
    BY <1>2, <1>3, <1>4, <2>1
  <2>2. CASE k # n
    <3>1. /\ report[k].by \in Handlers /\ tx[report[k].by].node = k
          /\ tx[report[k].by].rec = report[k].rec
      BY <1>3, <1>t, <2>2 DEF CallsMatch, BillInv, ReportsTyped
    <3>2. report[k].by # h
      BY <1>1, <3>1, TrafficAssumption DEF NoTx
    <3> QED BY <1>3, <1>4, <2>2, <3>1, <3>2
  <2> QED BY <2>1, <2>2
<1>6. ASSUME NEW k \in Reporters PROVE Accounted(k)'
  <2>1. Unsent(k)' = Unsent(k) /\ Total(carried[k])' = Total(carried[k])
    BY <1>t DEF Unsent, Deltas, Total
  <2>2. Open(k)' = Open(k) + Share(t, k) - Share(tx[h], k)
    BY <1>t, <1>2, OpenChange
  <2>3. Share(tx[h], k) = 0
    BY <1>1, TrafficAssumption DEF Share, NoTx
  <2>4. Share(t, k) + Waiting(k)' = Waiting(k) /\ Share(t, k) \in Nat /\ Waiting(k)' \in Nat
    <3>1. CASE k = n
      <4>1. /\ Waiting(n)' = 0 /\ Share(t, n) = Total(report[n].rec)
            /\ Waiting(n) = Total(report[n].rec)
        BY <1>1, <1>2, <1>3, TrafficAssumption DEF Waiting, Share
      <4> QED BY <1>t, <3>1, <4>1, PartsTyped
    <3>2. CASE k # n
      <4>1. Waiting(k)' = Waiting(k) /\ Share(t, k) = 0
        BY <1>2, <1>3, <3>2 DEF Waiting, Share
      <4> QED BY <1>t, <4>1, PartsTyped
    <3> QED BY <3>1, <3>2
  <2>5. Accounted(k) /\ nodeUsed'[k] = nodeUsed[k] /\ repeated'[k] = repeated[k]
    BY <1>t DEF BillInv
  <2> QED BY <1>t, <2>1, <2>2, <2>3, <2>4, <2>5, PartsTyped DEF Accounted
<1> QED BY <1>5, <1>6

\* A transaction that ends: its bytes are charged, or wait again, or are given up; sent again
\* although charged they are repeated.
LEMMA EndBill ==
    ASSUME BooksInv, BillInv, BooksInv', NEW h \in Handlers, CommitReport(h) \/ Aborts(h)
    PROVE  CallsMatch' /\ \A k \in Reporters : Accounted(k)'
<1>t. /\ MetersTyped /\ ReportsTyped /\ BooksTyped /\ BooksTyped' /\ TotalsTyped
      /\ UNCHANGED <<carried, counter, prev>>
      /\ tx' = [tx EXCEPT ![h] = NoTx]
  BY DEF BooksInv, BillInv, CommitReport, Aborts, meterVars
<1>u. /\ tx'[h] = NoTx /\ \A g \in Handlers \ {h} : tx'[g] = tx[g]
      /\ \A k \in Reporters : tx[h].node = k => tx[h] # NoTx
  BY <1>t, TrafficAssumption DEF BooksTyped, NoTx
<1>a. \A k \in Reporters : report[k].by = h => tx[h].node = k /\ tx[h].rec = report[k].rec
  BY TrafficAssumption DEF BillInv, CallsMatch
<1>q. Quiet.by = NoHandler /\ Total(Quiet.rec) = 0
  BY TotalTyped DEF Quiet
<1>1. ASSUME NEW k \in Reporters
      PROVE  \/ report'[k] = report[k] /\ report[k].by # h
             \/ report'[k] = Quiet /\ report[k].by = h
             \/ report'[k] = Retried(k) /\ report[k].by = h
  <2>1. CASE CommitReport(h)
    <3>1. CASE report' = [n \in Reporters |-> IF n \in Awaited(h) THEN Quiet ELSE report[n]]
      BY <3>1 DEF Awaited
    <3>2. ASSUME NEW n \in Awaited(h), report' = [report EXCEPT ![n] = Retried(n)]
          PROVE  \/ report'[k] = report[k] /\ report[k].by # h
                 \/ report'[k] = Retried(k) /\ report[k].by = h
      <4>1. n \in Reporters /\ report[n].by = h
        BY <3>2 DEF Awaited
      <4>2. CASE k = n
        BY <1>t, <3>2, <4>1, <4>2 DEF ReportsTyped
      <4>3. CASE k # n
        BY <1>a, <1>t, <3>2, <4>1, <4>3 DEF ReportsTyped
      <4> QED BY <4>2, <4>3
    <3> QED BY <2>1, <3>1, <3>2 DEF CommitReport
  <2>2. CASE Aborts(h)
    BY <2>2 DEF Aborts, Awaited
  <2> QED BY <2>1, <2>2
<1>2. CallsMatch'
  <2> SUFFICES ASSUME NEW k \in Reporters, report'[k].by # NoHandler
               PROVE  /\ tx'[report'[k].by].node = k
                      /\ tx'[report'[k].by].rec = report'[k].rec
    BY DEF CallsMatch
  <2>1. report'[k] = report[k] /\ report[k].by # h
    BY <1>1, <1>q, <1>t, RetriedWaits
  <2>2. report[k].by \in Handlers \ {h}
    BY <1>t, <2>1 DEF ReportsTyped
  <2>3. tx[report[k].by].node = k /\ tx[report[k].by].rec = report[k].rec
    BY <2>2, TrafficAssumption DEF BillInv, CallsMatch
  <2> QED BY <1>u, <2>1, <2>2, <2>3
<1>3. ASSUME NEW k \in Reporters PROVE Accounted(k)'
  <2>1. Unsent(k)' = Unsent(k) /\ Total(carried[k])' = Total(carried[k])
    BY <1>t DEF Unsent, Deltas, Total
  <2>2. Open(k)' = Open(k) + Share(NoTx, k) - Share(tx[h], k) /\ Share(NoTx, k) = 0
    BY <1>t, OpenChange, TrafficAssumption DEF Share, NoTx
  <2>3. Accounted(k)
    BY DEF BillInv
  <2>p. /\ Open(k) \in Nat /\ Waiting(k) \in Nat /\ Unsent(k) \in Nat /\ nodeUsed[k] \in Nat
        /\ repeated[k] \in Nat /\ Total(carried[k]) \in Nat /\ Share(tx[h], k) \in Nat
        /\ Total(tx[h].rec) \in Nat
    BY <1>t, PartsTyped, TotalTyped DEF BooksTyped
  <2>w. /\ Waiting(k)' \in Nat
        /\ Waiting(k)' <= Waiting(k) + Share(tx[h], k)
        /\ report'[k] = report[k] \/ report'[k] = Quiet => Waiting(k)' <= Waiting(k)
    <3>1. CASE report'[k] = report[k] /\ report[k].by # h
      <4>1. Waiting(k)' = Waiting(k)
        BY <3>1 DEF Waiting
      <4> QED BY <2>p, <4>1
    <3>2. CASE report'[k] = Quiet /\ report[k].by = h
      <4>1. Waiting(k)' = 0
        BY <1>q, <3>2 DEF Waiting, Total
      <4> QED BY <2>p, <4>1
    <3>3. CASE report'[k] = Retried(k) /\ report[k].by = h
      <4>1. Waiting(k)' = Total(Retried(k).rec)
        BY <1>t, <3>3, RetriedWaits DEF Waiting, Total
      <4>2. Total(Retried(k).rec) \in Nat /\ Total(Retried(k).rec) <= Share(tx[h], k)
        BY <1>a, <1>t, <3>3, RetriedWaits DEF Share
      <4>3. report'[k] # report[k]
        <5>1. Retried(k).by = NoHandler
          BY <1>t, RetriedWaits
        <5> QED BY <3>3, <5>1, TrafficAssumption
      <4>4. report'[k] = Quiet => Waiting(k)' = 0
        BY <1>q DEF Waiting, Total
      <4> QED BY <2>p, <4>1, <4>2, <4>3, <4>4
    <3> QED BY <1>1, <3>1, <3>2, <3>3
  <2>4. CASE Aborts(h)
    <3>1. nodeUsed'[k] = nodeUsed[k] /\ repeated'[k] = repeated[k]
      BY <2>4 DEF Aborts, totalVars
    <3> QED BY <2>1, <2>2, <2>3, <2>p, <2>w, <2>4, <3>1 DEF Accounted
  <2>5. CASE CommitReport(h)
    <3>1. nodeUsed'[k] = nodeUsed[k] + Share(tx[h], k)
      <4>1. nodeUsed' = [nodeUsed EXCEPT ![tx[h].node] = @ + Total(tx[h].rec)]
        BY <2>5 DEF CommitReport
      <4>2. CASE tx[h].node = k
        BY <1>t, <4>1, <4>2 DEF TotalsTyped, Share
      <4>3. CASE tx[h].node # k
        <5>1. nodeUsed'[k] = nodeUsed[k] /\ Share(tx[h], k) = 0
          BY <1>t, <4>1, <4>3 DEF TotalsTyped, Share
        <5> QED BY <2>p, <5>1
      <4> QED BY <4>2, <4>3
    <3>2. CASE repeated' = repeated /\ (report'[k] = report[k] \/ report'[k] = Quiet)
      <4>1. repeated'[k] = repeated[k] /\ Waiting(k)' <= Waiting(k)
        BY <2>w, <3>2
      <4> QED BY <2>1, <2>2, <2>3, <2>p, <2>w, <3>1, <4>1 DEF Accounted
    <3>3. ASSUME NEW n \in Awaited(h),
                 report' = [report EXCEPT ![n] = Retried(n)],
                 repeated' = [repeated EXCEPT ![n] = @ + Total(tx[h].rec)]
          PROVE  Accounted(k)'
      <4>1. n \in Reporters /\ report[n].by = h /\ tx[h].node = n
        BY <1>a DEF Awaited
      <4>2. repeated'[k] = repeated[k] + Share(tx[h], k)
        <5>1. CASE k = n
          BY <1>t, <3>3, <4>1, <5>1 DEF TotalsTyped, Share
        <5>2. CASE k # n
          <6>1. repeated'[k] = repeated[k] /\ Share(tx[h], k) = 0
            BY <1>t, <3>3, <4>1, <5>2 DEF TotalsTyped, Share
          <6> QED BY <2>p, <6>1
        <5> QED BY <5>1, <5>2
      <4> QED BY <2>1, <2>2, <2>3, <2>p, <2>w, <3>1, <4>2 DEF Accounted
    <3>4. CASE report' = [n \in Reporters |-> IF n \in Awaited(h) THEN Quiet ELSE report[n]]
               /\ UNCHANGED lossVars
      BY <3>2, <3>4 DEF lossVars
    <3> QED BY <2>5, <3>3, <3>4 DEF CommitReport
  <2> QED BY <2>4, <2>5
<1> QED BY <1>2, <1>3

\* The rows a report locks, and what the administrator does, leave all of that alone.
LEMMA QuietBill ==
    ASSUME BooksInv, BillInv,
           UNCHANGED <<carried, counter, prev, report, nodeUsed, repeated>>,
           \A h \in Handlers : tx'[h].node = tx[h].node /\ tx'[h].rec = tx[h].rec
    PROVE  CallsMatch' /\ \A k \in Reporters : Accounted(k)'
<1>1. CallsMatch'
  BY DEF CallsMatch, BillInv, BooksInv, ReportsTyped
<1>2. ASSUME NEW k \in Reporters PROVE Accounted(k)'
  <2>1. \A h \in Handlers : Share(tx[h], k)' = Share(tx[h], k)
    BY DEF Share, Total
  <2>2. Open(k)' = Open(k)
    BY <2>1 DEF Open
  <2>3. /\ Unsent(k)' = Unsent(k) /\ Waiting(k)' = Waiting(k)
        /\ Total(carried[k])' = Total(carried[k])
    BY DEF Unsent, Deltas, Waiting, Total
  <2> QED BY <2>2, <2>3 DEF Accounted, BillInv
<1> QED BY <1>1, <1>2

LEMMA IncidentTyped ==
    ASSUME TotalsTyped, NEW op, Incident(op)
    PROVE  trafficScope' \in [ops : SUBSET Incidents, changes : Nat, bytes : Nat]
<1>1. /\ trafficScope \in [ops : SUBSET Incidents, changes : Nat, bytes : Nat]
      /\ trafficScope.changes > 0 /\ trafficScope' = [trafficScope EXCEPT !.changes = @ - 1]
  BY DEF TotalsTyped, Incident
<1> QED BY ONLY <1>1

LEMMA TotalsStep ==
    ASSUME BooksInv, TotalsTyped, [TrafficNext]_trafficVars PROVE TotalsTyped'
<1>b. \A n \in Reporters : GivenUp(n) \in BOOLEAN
  BY DEF GivenUp, TotalsTyped
<1>1. ASSUME NEW n \in Reporters, NEW u \in Customers, Carry(n, u) PROVE TotalsTyped'
  <2>1. [carried[n] EXCEPT ![u] = @ + 1] \in Records
    <3>1. carried[n] \in Records /\ carried[n][u] \in Nat
      BY DEF TotalsTyped, Records
    <3> QED BY <3>1 DEF Records
  <2>2. carried' = [carried EXCEPT ![n] = [carried[n] EXCEPT ![u] = @ + 1]]
    BY <1>1 DEF Carry, TotalsTyped
  <2>3. carried' \in [Reporters -> Records]
    BY <2>1, <2>2 DEF TotalsTyped
  <2>4. trafficScope' \in [ops : SUBSET Incidents, changes : Nat, bytes : Nat]
    BY <1>1 DEF Carry, TotalsTyped
  <2> QED BY <1>1, <2>3, <2>4 DEF Carry, TotalsTyped, totalVars, lossVars
<1>2. ASSUME NEW n \in Reporters, XrayRestarts(n) \/ AgentCrashes(n) \/ Unreached(n) \/ TimesOut(n)
      PROVE  TotalsTyped'
  <2>1. trafficScope' \in [ops : SUBSET Incidents, changes : Nat, bytes : Nat]
    BY <1>2, IncidentTyped DEF XrayRestarts, AgentCrashes, Unreached, TimesOut
  <2>2. UNCHANGED <<carried, nodeUsed, repeated, deleted>> /\ dropped' \in BOOLEAN
    BY <1>2, <1>b DEF XrayRestarts, AgentCrashes, Unreached, TimesOut, meterVars, totalVars
  <2> QED BY <2>1, <2>2 DEF TotalsTyped
<1>3. ASSUME NEW n \in Reporters, QueryDelta(n) PROVE TotalsTyped'
  BY <1>3 DEF QueryDelta, TotalsTyped, totalVars, lossVars
<1>4. ASSUME NEW h \in Handlers, NEW n \in Reporters, BeginReport(h, n) PROVE TotalsTyped'
  BY <1>4 DEF BeginReport, TotalsTyped, meterVars, totalVars, lossVars
<1>5. ASSUME NEW h \in Handlers, NEW u \in Customers, AddTraffic(h, u) PROVE TotalsTyped'
  BY <1>5 DEF AddTraffic, TotalsTyped, meterVars, totalVars, lossVars
<1>6. ASSUME NEW h \in Handlers, CommitReport(h) PROVE TotalsTyped'
  <2>1. Total(tx[h].rec) \in Nat
    BY TotalTyped DEF BooksInv, BooksTyped
  <2>2. nodeUsed' \in [Reporters -> Nat]
    <3>1. nodeUsed' = [nodeUsed EXCEPT ![tx[h].node] = @ + Total(tx[h].rec)]
      BY <1>6 DEF CommitReport
    <3>2. \A k \in Reporters : nodeUsed[k] + Total(tx[h].rec) \in Nat
      BY <2>1 DEF TotalsTyped
    <3> QED BY <3>1, <3>2 DEF TotalsTyped
  <2>3. /\ repeated' \in [Reporters -> Nat] /\ dropped' \in BOOLEAN
        /\ trafficScope' \in [ops : SUBSET Incidents, changes : Nat, bytes : Nat]
    <3>1. CASE UNCHANGED <<trafficScope, lossVars>>
      BY <3>1 DEF TotalsTyped, lossVars
    <3>2. ASSUME NEW n \in Awaited(h), Incident("replyLost"),
                 repeated' = [repeated EXCEPT ![n] = @ + Total(tx[h].rec)], UNCHANGED dropped
          PROVE  /\ repeated' \in [Reporters -> Nat] /\ dropped' \in BOOLEAN
                 /\ trafficScope' \in [ops : SUBSET Incidents, changes : Nat, bytes : Nat]
      <4>1. repeated' \in [Reporters -> Nat]
        <5>1. \A k \in Reporters : repeated[k] + Total(tx[h].rec) \in Nat
          BY <2>1 DEF TotalsTyped
        <5> QED BY <3>2, <5>1 DEF TotalsTyped
      <4> QED BY <3>2, <4>1, IncidentTyped DEF TotalsTyped
    <3> QED BY <1>6, <3>1, <3>2 DEF CommitReport
  <2> QED BY <1>6, <2>2, <2>3 DEF CommitReport, TotalsTyped, meterVars
<1>7. ASSUME NEW h \in Handlers, DeadlockBroken(h) \/ ReportFails(h) PROVE TotalsTyped'
  <2>1. trafficScope' \in [ops : SUBSET Incidents, changes : Nat, bytes : Nat]
    <3>1. CASE ReportFails(h)
      BY <3>1, IncidentTyped DEF ReportFails
    <3>2. CASE DeadlockBroken(h)
      BY <3>2 DEF DeadlockBroken, TotalsTyped
    <3> QED BY <1>7, <3>1, <3>2
  <2>2. Aborts(h)
    BY <1>7 DEF DeadlockBroken, ReportFails
  <2> QED BY <2>1, <2>2 DEF Aborts, TotalsTyped, meterVars, totalVars
<1>8. ASSUME NEW u \in Customers, ResetUser(u) \/ ResetLogs(u) \/ DeleteUser(u) PROVE TotalsTyped'
  <2>1. trafficScope' \in [ops : SUBSET Incidents, changes : Nat, bytes : Nat]
    BY <1>8, IncidentTyped DEF ResetUser, ResetLogs, DeleteUser, TotalsTyped
  <2>2. /\ UNCHANGED <<carried, nodeUsed, repeated, dropped>>
        /\ deleted' \in {deleted, deleted \cup {u}}
    BY <1>8 DEF ResetUser, ResetLogs, DeleteUser, meterVars, totalVars, lossVars
  <2> QED BY <2>1, <2>2 DEF TotalsTyped
<1>9. ASSUME NEW u \in Customers, PlanReplaced(u) \/ ReadCopy(u) \/ CleanOldLogs(u)
      PROVE  TotalsTyped'
  <2>1. trafficScope' \in [ops : SUBSET Incidents, changes : Nat, bytes : Nat]
    BY <1>9, IncidentTyped DEF PlanReplaced, ReadCopy, CleanOldLogs
  <2>2. UNCHANGED <<carried, nodeUsed, repeated, dropped, deleted>>
    BY <1>9 DEF PlanReplaced, TotalBecomes, ReadCopy, CleanOldLogs, meterVars, lossVars
  <2> QED BY <2>1, <2>2 DEF TotalsTyped
<1>10. ASSUME NEW c \in copies, SaveCopy(c) PROVE TotalsTyped'
  BY <1>10 DEF SaveCopy, TotalBecomes, TotalsTyped, meterVars, lossVars
<1>11. CASE UNCHANGED trafficVars
  BY <1>11 DEF trafficVars, TotalsTyped
<1> QED
  BY <1>1, <1>2, <1>3, <1>4, <1>5, <1>6, <1>7, <1>8, <1>9, <1>10, <1>11
  DEF TrafficNext, ServeReport

LEMMA BillStep ==
    ASSUME BooksInv, BillInv, [TrafficNext]_trafficVars PROVE BillInv'
<1>t. BooksInv' /\ TotalsTyped' /\ BooksTyped
  BY BooksStep, TotalsStep DEF BillInv, BooksInv
<1> SUFFICES CallsMatch' /\ \A k \in Reporters : Accounted(k)'
  BY <1>t DEF BillInv
<1>1. ASSUME NEW n \in Reporters,
             \/ \E u \in Customers : Carry(n, u)
             \/ XrayRestarts(n) \/ AgentCrashes(n) \/ QueryDelta(n)
      PROVE  CallsMatch' /\ \A k \in Reporters : Accounted(k)'
  <2>1. /\ tx' = tx
        /\ \A k \in Reporters : report'[k] = report[k] \/ report'[k].by = NoHandler
    BY <1>1 DEF Carry, XrayRestarts, AgentCrashes, QueryDelta, BooksInv, ReportsTyped, Quiet
  <2>2. CallsMatch'
    BY <2>1 DEF CallsMatch, BillInv
  <2> QED BY <1>1, <1>t, <2>2, MeterBill
<1>2. ASSUME NEW n \in Reporters, Unreached(n) \/ TimesOut(n)
      PROVE  CallsMatch' /\ \A k \in Reporters : Accounted(k)'
  BY <1>2, CallBill
<1>3. ASSUME NEW h \in Handlers, ServeReport(h) \/ ReportFails(h)
      PROVE  CallsMatch' /\ \A k \in Reporters : Accounted(k)'
  <2>1. ASSUME NEW n \in Reporters, BeginReport(h, n)
        PROVE  CallsMatch' /\ \A k \in Reporters : Accounted(k)'
    BY <1>t, <2>1, BeginBill
  <2>2. ASSUME NEW u \in Customers, AddTraffic(h, u)
        PROVE  CallsMatch' /\ \A k \in Reporters : Accounted(k)'
    <3>1. \A g \in Handlers : tx'[g].node = tx[g].node /\ tx'[g].rec = tx[g].rec
      BY <1>t, <2>2 DEF AddTraffic, BooksTyped
    <3> QED BY <2>2, <3>1, QuietBill DEF AddTraffic, meterVars, totalVars, lossVars
  <2>3. CASE CommitReport(h) \/ DeadlockBroken(h) \/ ReportFails(h)
    BY <1>t, <2>3, EndBill DEF DeadlockBroken, ReportFails
  <2> QED BY <1>3, <2>1, <2>2, <2>3 DEF ServeReport
<1>4. ASSUME NEW u \in Customers, ResetUser(u) \/ ResetLogs(u) \/ DeleteUser(u)
      PROVE  CallsMatch' /\ \A k \in Reporters : Accounted(k)'
  <2>1. UNCHANGED <<meterVars, report, tx, nodeUsed, repeated>>
    BY <1>4 DEF ResetUser, ResetLogs, DeleteUser, totalVars, lossVars
  <2> QED BY <2>1, QuietBill DEF meterVars
<1>5. ASSUME \/ \E u \in Customers : PlanReplaced(u) \/ ReadCopy(u) \/ CleanOldLogs(u)
             \/ \E c \in copies : SaveCopy(c)
      PROVE  CallsMatch' /\ \A k \in Reporters : Accounted(k)'
  <2>1. UNCHANGED <<meterVars, report, tx, nodeUsed, repeated>>
    BY <1>5 DEF PlanReplaced, ReadCopy, CleanOldLogs, SaveCopy, TotalBecomes, lossVars
  <2> QED BY <2>1, QuietBill DEF meterVars
<1>6. CASE UNCHANGED trafficVars
  <2>1. UNCHANGED <<meterVars, report, tx, nodeUsed, repeated>>
    BY <1>6 DEF trafficVars, meterVars
  <2> QED BY <2>1, QuietBill DEF meterVars
<1> QED BY <1>1, <1>2, <1>3, <1>4, <1>5, <1>6 DEF TrafficNext

LEMMA BillInit == TrafficInit => BillInv
<1> SUFFICES ASSUME TrafficInit PROVE BillInv
  OBVIOUS
<1>1. BooksInv
  BY BooksInit
<1>2. TotalsTyped
  BY NothingTyped, TrafficAssumption DEF TrafficInit, TotalsTyped
<1>3. CallsMatch
  BY DEF TrafficInit, CallsMatch, Quiet
<1>4. ASSUME NEW n \in Reporters PROVE Accounted(n)
  <2> DEFINE f == [h \in Handlers |-> Share(tx[h], n)]
  <2>1. \A h \in Handlers : Share(tx[h], n) = 0
    BY TrafficAssumption DEF TrafficInit, Share, NoTx
  <2>2. \A h \in Handlers : f[h] \in Int /\ f[h] = f[h] + f[h]
    BY <2>1
  <2>3. SumFunctionOnSet(f, Handlers) = SumFunctionOnSet(f, Handlers) + SumFunctionOnSet(f, Handlers)
    <3> HIDE DEF f
    <3> QED BY <2>2, SumPlus, TrafficAssumption
  <2>4. Open(n) \in Nat /\ nodeUsed[n] = 0 /\ Total(carried[n]) \in Nat /\ repeated[n] = 0
    BY <1>1, <1>2, PartsTyped DEF BooksInv, TrafficInit
  <2>5. Open(n) = 0
    BY <2>3, <2>4 DEF Open
  <2>6. Waiting(n) = 0
    BY TotalTyped DEF TrafficInit, Waiting, Quiet
  <2>7. Unsent(n) = 0
    <3>1. Deltas(n) = Nothing
      <4>1. \A u \in Customers : Grown(counter[n][u], prev[n][u]) = 0
        BY GrownByOne DEF TrafficInit, Nothing
      <4> QED BY <4>1 DEF Deltas, Nothing
    <3> QED BY <3>1, TotalTyped DEF Unsent
  <2> QED BY <2>4, <2>5, <2>6, <2>7 DEF Accounted
<1> QED BY <1>2, <1>3, <1>4 DEF BillInv

LEMMA TrafficInvariant == TrafficSpec => [](BooksInv /\ BillInv)
<1>1. BooksInv /\ BillInv /\ [TrafficNext]_trafficVars => (BooksInv /\ BillInv)'
  BY BooksStep, BillStep
<1> QED BY <1>1, BooksInit, BillInit, PTL DEF TrafficSpec

\* The proxies' counters, the agents' reports and the panel's transactions and totals keep
\* their types.
THEOREM TrafficIsTyped == TrafficSpec => []TrafficTypeOK
<1>1. BooksInv /\ BillInv => TrafficTypeOK
  BY DEF BooksInv, BillInv, MetersTyped, ReportsTyped, BooksTyped, TotalsTyped, TrafficTypeOK
<1> QED BY <1>1, TrafficInvariant, PTL

\* No byte is charged twice to a node beyond what was sent again after a committed report:
\* what was charged, what open transactions hold, what waits and what the counters grew by
\* make up at most what was carried.
THEOREM NodesAreNotOverbilled == TrafficSpec => []NeverOverbilled
<1>1. ASSUME BooksInv, BillInv PROVE NeverOverbilled
  <2>1. ASSUME NEW n \in Reporters PROVE nodeUsed[n] <= Total(carried[n]) + repeated[n]
    BY <1>1, PartsTyped DEF BooksInv, BillInv, Accounted
  <2> QED BY <2>1 DEF NeverOverbilled
<1> QED BY <1>1, TrafficInvariant, PTL

-----------------------------------------------------------------------------
(* MonthlyJobs: the calendar                                               *)

LastMonth == Len(MonthLengths)

\* The calendar: one month begins where the one before it ends.
LEMMA CalendarKinds ==
    /\ LastMonth \in Nat /\ 2 <= LastMonth /\ Months = 1..LastMonth
    /\ \A m \in Months : /\ MonthLengths[m] \in Nat
                         /\ 28 <= MonthLengths[m] /\ MonthLengths[m] <= 31
    /\ DaysBefore[1] = 0
    /\ \A m \in 1..(LastMonth + 1) : DaysBefore[m] \in Nat
    /\ \A m \in Months : DaysBefore[m + 1] = DaysBefore[m] + MonthLengths[m]
<1>1. /\ LastMonth \in Nat /\ 2 <= LastMonth /\ Months = 1..LastMonth
      /\ \A m \in Months : /\ MonthLengths[m] \in Nat
                           /\ 28 <= MonthLengths[m] /\ MonthLengths[m] <= 31
  <2>1. MonthLengths \in Seq(28..31) /\ 2 <= LastMonth
    BY MonthAssumption DEF LastMonth
  <2>2. LastMonth \in Nat /\ \A m \in 1..LastMonth : MonthLengths[m] \in 28..31
    BY <2>1 DEF LastMonth
  <2> QED BY <2>1, <2>2 DEF Months, LastMonth
<1>2. \A m \in 1..(LastMonth + 1) : DaysBefore[m] = SumFunctionOnSet(MonthLengths, 1..(m - 1))
  BY DEF DaysBefore, LastMonth
<1>3. DaysBefore[1] = 0
  <2>1. 1..(1 - 1) = {} /\ 1 \in 1..(LastMonth + 1)
    BY <1>1
  <2> QED BY <1>2, <2>1, SumEmpty
<1>4. ASSUME NEW m \in 1..(LastMonth + 1) PROVE DaysBefore[m] \in Nat
  <2>1. IsFiniteSet(1..(m - 1)) /\ \A x \in 1..(m - 1) : MonthLengths[x] \in Nat
    <3>1. m - 1 \in Int /\ 1 \in Int /\ 1..(m - 1) \subseteq Months
      BY <1>1
    <3> QED BY <1>1, <3>1, FS_Interval
  <2> QED BY <1>2, <2>1, SumNat
<1>5. ASSUME NEW m \in Months PROVE DaysBefore[m + 1] = DaysBefore[m] + MonthLengths[m]
  <2>1. /\ m \in 1..(LastMonth + 1) /\ m + 1 \in 1..(LastMonth + 1) /\ 1..((m + 1) - 1) = 1..(m - 1) \cup {m}
        /\ m \notin 1..(m - 1)
    BY <1>1
  <2>2. IsFiniteSet(1..(m - 1)) /\ \A x \in 1..(m - 1) \cup {m} : MonthLengths[x] \in Int
    <3>1. m - 1 \in Int /\ 1 \in Int /\ 1..(m - 1) \cup {m} \subseteq Months
      BY <1>1
    <3> QED BY <1>1, <3>1, FS_Interval
  <2>3. SumFunctionOnSet(MonthLengths, 1..(m - 1) \cup {m})
          = SumFunctionOnSet(MonthLengths, 1..(m - 1)) + MonthLengths[m]
    BY <2>1, <2>2, SumAdd
  <2> QED BY <1>2, <2>1, <2>3
<1> QED BY <1>1, <1>3, <1>4, <1>5

\* Later months begin later; every day lies in exactly one month.
LEMMA MonthsInOrder ==
    \A m \in Months : \A n \in 1..(LastMonth + 1) : m < n => DaysBefore[m + 1] <= DaysBefore[n]
<1> SUFFICES ASSUME NEW m \in Months
             PROVE  \A n \in 1..(LastMonth + 1) : m < n => DaysBefore[m + 1] <= DaysBefore[n]
  OBVIOUS
<1> DEFINE F == {n \in Nat : n \in 1..(LastMonth + 1) /\ m < n => DaysBefore[m + 1] <= DaysBefore[n]}
<1>1. 0 \in F
  BY CalendarKinds
<1>2. ASSUME NEW n \in Nat, n \in F PROVE n + 1 \in F
  <2>1. SUFFICES ASSUME n + 1 \in 1..(LastMonth + 1), m < n + 1, m # n
                 PROVE  DaysBefore[m + 1] <= DaysBefore[n + 1]
    BY CalendarKinds
  <2>2. n \in Months /\ n \in 1..(LastMonth + 1) /\ m < n /\ m + 1 \in 1..(LastMonth + 1)
    BY <2>1, CalendarKinds
  <2>3. DaysBefore[m + 1] <= DaysBefore[n] /\ DaysBefore[n + 1] = DaysBefore[n] + MonthLengths[n]
    BY <1>2, <2>2, CalendarKinds
  <2>4. /\ DaysBefore[m + 1] \in Nat /\ DaysBefore[n] \in Nat
        /\ MonthLengths[n] \in Nat
    BY <2>2, CalendarKinds
  <2> HIDE DEF F
  <2> QED BY <2>3, <2>4
<1>3. Nat \subseteq F
  <2> HIDE DEF F
  <2> QED BY <1>1, <1>2, NumberInduction
<1> QED BY <1>3, CalendarKinds

LEMMA DaysHaveMonths ==
    ASSUME NEW d \in Days
    PROVE  /\ d \in Nat
           /\ Month[d] \in Months
           /\ DaysBefore[Month[d]] <= d /\ d < DaysBefore[Month[d] + 1]
           /\ DayOfMonth[d] = d - DaysBefore[Month[d]] + 1
<1>1. d \in Nat /\ d < DaysBefore[LastMonth + 1]
  BY CalendarKinds DEF Days, LastMonth
<1> DEFINE Holds(m) == DaysBefore[m] <= d /\ d < DaysBefore[m + 1]
<1> DEFINE F == {n \in Nat : n \in 1..(LastMonth + 1) /\ d < DaysBefore[n] => \E m \in Months : Holds(m)}
<1>2. 0 \in F
  BY CalendarKinds
<1>3. ASSUME NEW n \in Nat, n \in F PROVE n + 1 \in F
  <2>1. SUFFICES ASSUME n + 1 \in 1..(LastMonth + 1), d < DaysBefore[n + 1]
                 PROVE  \E m \in Months : Holds(m)
    BY CalendarKinds
  <2>2. CASE n = 0
    BY <1>1, <2>1, <2>2, CalendarKinds
  <2>3. CASE n # 0
    <3>1. n \in Months /\ n \in 1..(LastMonth + 1)
      BY <2>1, <2>3, CalendarKinds
    <3>2. CASE d < DaysBefore[n]
      BY <1>3, <3>1, <3>2
    <3>3. CASE ~(d < DaysBefore[n])
      BY <1>1, <2>1, <3>1, <3>3, CalendarKinds
    <3> QED BY <3>2, <3>3
  <2> QED BY <2>2, <2>3
<1>4. Nat \subseteq F
  <2> HIDE DEF F
  <2> QED BY <1>2, <1>3, NumberInduction
<1>5. \E m \in Months : Holds(m)
  BY <1>1, <1>4, CalendarKinds
<1>6. Month[d] = CHOOSE m \in Months : Holds(m)
  BY DEF Month
<1>7. Month[d] \in Months /\ Holds(Month[d])
  <2> HIDE DEF Holds
  <2> QED BY <1>5, <1>6
<1>8. DayOfMonth[d] = d - DaysBefore[Month[d]] + 1
  BY DEF DayOfMonth
<1> QED BY <1>1, <1>7, <1>8

\* The day of a month is in no other month.
LEMMA MonthOfDay ==
    ASSUME NEW m \in Months, NEW d \in Int, DaysBefore[m] <= d, d < DaysBefore[m + 1]
    PROVE  d \in Days /\ Month[d] = m
<1>1. /\ m \in Nat /\ 0 < m /\ m <= LastMonth
      /\ m + 1 \in 1..(LastMonth + 1) /\ m \in 1..(LastMonth + 1) /\ LastMonth + 1 \in 1..(LastMonth + 1)
  BY CalendarKinds
<1>2. DaysBefore[m + 1] <= DaysBefore[LastMonth + 1]
  BY <1>1, MonthsInOrder, CalendarKinds
<1>3. /\ DaysBefore[m] \in Nat /\ DaysBefore[m + 1] \in Nat /\ DaysBefore[LastMonth + 1] \in Nat
  BY <1>1, CalendarKinds
<1>4. d \in Days
  BY <1>2, <1>3 DEF Days, LastMonth
<1>5. /\ Month[d] \in Months
      /\ DaysBefore[Month[d]] <= d /\ d < DaysBefore[Month[d] + 1]
  BY <1>4, DaysHaveMonths
<1>6. Month[d] \in Nat /\ Month[d] \in 1..(LastMonth + 1) /\ Month[d] + 1 \in 1..(LastMonth + 1)
  BY <1>5, CalendarKinds
<1>7. DaysBefore[Month[d]] \in Nat /\ DaysBefore[Month[d] + 1] \in Nat
  BY <1>6, CalendarKinds
<1>8. CASE Month[d] < m
  <2>1. DaysBefore[Month[d] + 1] <= DaysBefore[m]
    BY <1>1, <1>5, <1>8, MonthsInOrder
  <2> QED BY <1>3, <1>5, <1>7, <2>1
<1>9. CASE m < Month[d]
  <2>1. DaysBefore[m + 1] <= DaysBefore[Month[d]]
    BY <1>6, <1>9, MonthsInOrder
  <2> QED BY <1>3, <1>5, <1>7, <2>1
<1> QED BY <1>1, <1>4, <1>6, <1>8, <1>9

LEMMA NextDay ==
    ASSUME NEW h \in Nat
    PROVE  DayOf(h) \in Nat /\ DayOf(h + 1) \in {DayOf(h), DayOf(h) + 1} /\ DayOf(0) = 0
<1>1. HoursPerDay \in Nat /\ HoursPerDay > 1
  BY MonthAssumption
<1> DEFINE q == h \div HoursPerDay
<1> DEFINE p == (h + 1) \div HoursPerDay
<1>2. /\ q \in Int /\ p \in Int
      /\ HoursPerDay * q <= h /\ h < HoursPerDay * (q + 1)
      /\ HoursPerDay * p <= h + 1 /\ h + 1 < HoursPerDay * (p + 1)
  BY <1>1
<1> QED
  BY <1>1, <1>2 DEF DayOf

-----------------------------------------------------------------------------
DueDay(day, m) == DaysBefore[m] + TargetDay(day, m) - 1

LEMMA DueDays ==
    ASSUME NEW day \in Int
    PROVE  /\ \A m \in Months : /\ DueDay(day, m) \in Nat
                                /\ DueDay(day, m) < DaysBefore[m + 1]
                                /\ DueDay(day, m) \in Days /\ Month[DueDay(day, m)] = m
           /\ \A d \in Days : Due(day, d) <=> d = DueDay(day, Month[d])
<1>1. ASSUME NEW m \in Months
      PROVE  /\ TargetDay(day, m) \in Nat
             /\ 1 <= TargetDay(day, m) /\ TargetDay(day, m) <= MonthLengths[m]
  <2> DEFINE wanted == IF day \in 1..31 THEN day ELSE 1
  <2>1. wanted \in Nat /\ 1 <= wanted
    OBVIOUS
  <2>2. TargetDay(day, m) = IF wanted > MonthLengths[m] THEN MonthLengths[m] ELSE wanted
    BY DEF TargetDay
  <2>3. MonthLengths[m] \in Nat /\ 28 <= MonthLengths[m]
    BY CalendarKinds
  <2> HIDE DEF wanted
  <2> QED BY <2>1, <2>2, <2>3
<1>2. \A m \in Months : m \in 1..(LastMonth + 1) /\ m + 1 \in 1..(LastMonth + 1)
  BY CalendarKinds
<1>3. ASSUME NEW m \in Months
      PROVE  /\ DueDay(day, m) \in Nat /\ DaysBefore[m] <= DueDay(day, m)
             /\ DueDay(day, m) < DaysBefore[m + 1]
  <2>1. /\ DaysBefore[m] \in Nat /\ MonthLengths[m] \in Nat
        /\ DaysBefore[m + 1] = DaysBefore[m] + MonthLengths[m]
    BY <1>2, CalendarKinds
  <2> QED BY <1>1, <2>1 DEF DueDay
<1>4. ASSUME NEW m \in Months PROVE DueDay(day, m) \in Days /\ Month[DueDay(day, m)] = m
  BY <1>3, MonthOfDay
<1>5. ASSUME NEW d \in Days PROVE Due(day, d) <=> d = DueDay(day, Month[d])
  <2>1. /\ d \in Nat /\ Month[d] \in Months
        /\ DayOfMonth[d] = d - DaysBefore[Month[d]] + 1
    BY DaysHaveMonths
  <2>2. DaysBefore[Month[d]] \in Nat /\ TargetDay(day, Month[d]) \in Nat
    BY <1>1, <1>2, <2>1, CalendarKinds
  <2> QED BY <2>1, <2>2 DEF Due, DueDay
<1> QED BY <1>3, <1>4, <1>5

\* The reset of a month is done, or known to have failed, when its day is over.  On that day
\* a check or a key of the day shows that the reset is done, under way or failed.
ResetInvariant ==
    /\ resetKey # NoKey => resetKey.day <= Today
    /\ Due(prospect.resetDay, Today) /\ (checked # {} \/ Taken)
          => Month[Today] \in excused \cup resets \/ resetting # {}
    /\ \A m \in Months : DueDay(prospect.resetDay, m) < Today => m \in excused \cup resets

\* The steps within an hour: who is at work, what was done and what went wrong.
LEMMA HourStep ==
    ASSUME MonthTypeOK, ResetInvariant, UNCHANGED <<hour, partitions>>,
           prospect' \in [ops : SUBSET Setbacks, faults : Nat, resetDay : Int],
           prospect'.resetDay = prospect.resetDay,
           up' \subseteq Replicas, checked' \subseteq up', resetting' \subseteq up',
           resets' \in {resets, resets \cup {Month[Today]}},
           excused' \in {excused, Excuse},
           resetKey' \in {resetKey, NoKey, [day |-> Today, at |-> hour]},
           \* whoever stops resetting is done or excused
           resetting \subseteq resetting' \/ Month[Today] \in resets' \/ excused' = Excuse,
           \* whoever checks on the day, or takes the key, finds it taken, resets or is excused
           Due(prospect.resetDay, Today) /\ ~(checked' \subseteq checked)
              => Taken \/ resetting' # {} \/ excused' = Excuse,
           resetKey' \notin {resetKey, NoKey} => resetting' # {}
    PROVE  MonthTypeOK' /\ ResetInvariant'
<1>t. /\ Today \in Days /\ hour \in Nat /\ Today \in Nat /\ Month[Today] \in Months
      /\ resets \subseteq Months /\ excused \subseteq Months
  BY DaysHaveMonths DEF MonthTypeOK
<1>1. Today' = Today
  BY DEF Today, DayOf
<1>2. [day |-> Today, at |-> hour] \in [day : Days, at : Nat]
  BY <1>t
<1>3. excused \subseteq excused' /\ excused' \subseteq Months
      /\ resets \subseteq resets' /\ resets' \subseteq Months
  BY <1>t DEF Excuse
<1>4. resetKey' \in [day : Days, at : Nat] \cup {NoKey}
  BY <1>2 DEF MonthTypeOK
<1>5. MonthTypeOK'
  BY <1>1, <1>3, <1>4 DEF MonthTypeOK
<1>6. resetKey' # NoKey => resetKey'.day <= Today'
  BY <1>t, <1>1 DEF ResetInvariant
<1>7. \A m \in Months : DueDay(prospect.resetDay, m) < Today => m \in excused' \cup resets'
  BY <1>3 DEF ResetInvariant
<1>8. ASSUME Due(prospect.resetDay, Today), checked' # {} \/ Taken'
      PROVE  Month[Today] \in excused' \cup resets' \/ resetting' # {}
  <2>1. CASE excused' = Excuse
    BY <1>8, <2>1 DEF Excuse
  <2>2. CASE excused' # Excuse
    <3>1. resetting \subseteq resetting' \/ Month[Today] \in resets'
      BY <2>2
    <3>2. CASE checked # {} \/ Taken
      BY <1>3, <1>8, <3>1, <3>2 DEF ResetInvariant
    <3>3. CASE ~(checked # {} \/ Taken)
      <4>1. ~(checked' \subseteq checked) \/ Taken'
        BY <1>8, <3>3
      <4>2. Taken' => resetKey' \notin {resetKey, NoKey}
        BY <1>1, <3>3 DEF Taken
      <4> QED BY <1>8, <2>2, <3>3, <4>1, <4>2
    <3> QED BY <3>2, <3>3
  <2> QED BY <2>1, <2>2
<1>9. ResetInvariant'
  <2>1. prospect'.resetDay = prospect.resetDay
    OBVIOUS
  <2>2. /\ Due(prospect.resetDay, Today)' = Due(prospect.resetDay, Today)
        /\ Month[Today]' = Month[Today]
        /\ \A m \in Months : DueDay(prospect.resetDay, m)' = DueDay(prospect.resetDay, m)
    BY <1>1 DEF Due, DueDay
  <2> QED BY <1>1, <1>6, <1>7, <1>8, <2>2 DEF ResetInvariant
<1> QED BY <1>5, <1>9

LEMMA MonthStep ==
    ASSUME MonthTypeOK, ResetInvariant, [MonthNext]_monthVars
    PROVE  MonthTypeOK' /\ ResetInvariant'
<1>t. /\ prospect \in [ops : SUBSET Setbacks, faults : Nat, resetDay : Int]
      /\ up \subseteq Replicas /\ checked \subseteq up /\ resetting \subseteq up
      /\ hour \in Nat /\ Today \in Days
  BY DEF MonthTypeOK
<1>s. ASSUME NEW op, Setback(op)
      PROVE  /\ prospect' \in [ops : SUBSET Setbacks, faults : Nat, resetDay : Int]
             /\ prospect'.resetDay = prospect.resetDay
  <2>1. prospect' = [prospect EXCEPT !.faults = @ - 1] /\ prospect.faults > 0
    BY <1>s DEF Setback
  <2> QED BY <1>t, <2>1
<1>c. ASSUME NEW r \in Replicas, NEW day, Check(r, day), day = prospect.resetDay \/ excused' = Excuse,
             UNCHANGED <<hour, up, resets, partitions>>,
             excused' \in {excused, Excuse},
             prospect' \in [ops : SUBSET Setbacks, faults : Nat, resetDay : Int],
             prospect'.resetDay = prospect.resetDay
      PROVE  MonthTypeOK' /\ ResetInvariant'
  <2>1. /\ checked' \subseteq up' /\ resetting \subseteq resetting' /\ resetting' \subseteq up'
        /\ resetKey' \in {resetKey, NoKey, [day |-> Today, at |-> hour]}
        /\ Due(day, Today) => Taken \/ resetting' # {}
        /\ resetKey' \notin {resetKey, NoKey} => resetting' # {}
    BY <1>t, <1>c DEF Check
  <2> QED BY <1>c, <1>t, <2>1, HourStep
<1>1. ASSUME NEW r \in Replicas, CheckDay(r) PROVE MonthTypeOK' /\ ResetInvariant'
  BY <1>1, <1>c, <1>t DEF CheckDay, resetVars
<1>2. ASSUME NEW r \in Replicas, CheckUnread(r) PROVE MonthTypeOK' /\ ResetInvariant'
  BY <1>2, <1>c, <1>s DEF CheckUnread
<1>3. ASSUME NEW r \in Replicas, CheckUnguarded(r) PROVE MonthTypeOK' /\ ResetInvariant'
  <2>1. /\ checked' \subseteq up' /\ resetting \subseteq resetting' /\ resetting' \subseteq up'
        /\ resetting' # {}
    BY <1>3, <1>t DEF CheckUnguarded
  <2> QED BY <1>3, <1>s, <1>t, <2>1, HourStep DEF CheckUnguarded, resetVars
<1>4. ASSUME NEW r \in Replicas, ResetDone(r) PROVE MonthTypeOK' /\ ResetInvariant'
  BY <1>4, <1>t, HourStep DEF ResetDone
<1>5. ASSUME NEW r \in Replicas, ResetFails(r) PROVE MonthTypeOK' /\ ResetInvariant'
  BY <1>5, <1>s, <1>t, HourStep DEF ResetFails
<1>6. ASSUME NEW r \in Replicas, ReplicaDies(r) PROVE MonthTypeOK' /\ ResetInvariant'
  <2>1. /\ up' \subseteq Replicas /\ checked' \subseteq up' /\ resetting' \subseteq up'
        /\ checked' \subseteq checked
        /\ excused' \in {excused, Excuse}
        /\ resetting \subseteq resetting' \/ excused' = Excuse
    BY <1>6, <1>t DEF ReplicaDies
  <2> QED BY <1>6, <1>s, <2>1, HourStep DEF ReplicaDies
<1>7. ASSUME NEW r \in Replicas, Restart(r) PROVE MonthTypeOK' /\ ResetInvariant'
  BY <1>7, <1>t, HourStep DEF Restart, resetVars
<1>8. CASE KeyExpires
  BY <1>8, <1>t, HourStep DEF KeyExpires, resetVars
<1>9. CASE HourPasses
  <2>1. /\ hour' = hour + 1 /\ DayOf(hour + 1) \in Days /\ checked' = {}
        /\ checked # {} /\ resetting = {}
        /\ UNCHANGED <<up, resetting, resetKey, resets, excused, partitions, prospect>>
    BY <1>9, <1>t DEF HourPasses, resetVars
  <2>2. /\ Today \in Nat /\ Today' \in {Today, Today + 1} /\ Today' \in Days
    BY <1>t, <2>1, NextDay DEF Today
  <2>3. MonthTypeOK'
    BY <1>t, <2>1, <2>2 DEF MonthTypeOK
  <2>4. Due(prospect.resetDay, Today) => Month[Today] \in excused \cup resets
    BY <2>1 DEF ResetInvariant
  <2>5. resetKey' # NoKey => resetKey'.day \in Nat /\ resetKey'.day <= Today
    BY <2>1, DaysHaveMonths DEF ResetInvariant, MonthTypeOK
  <2>6. ASSUME NEW m \in Months, DueDay(prospect.resetDay, m) < Today'
        PROVE  m \in excused \cup resets
    <3>1. DueDay(prospect.resetDay, m) \in Nat /\ Month[DueDay(prospect.resetDay, m)] = m
      BY <1>t, DueDays
    <3>2. CASE DueDay(prospect.resetDay, m) < Today
      BY <3>2 DEF ResetInvariant
    <3>3. CASE ~(DueDay(prospect.resetDay, m) < Today)
      <4>1. Today = DueDay(prospect.resetDay, m)
        BY <2>2, <2>6, <3>1, <3>3
      <4>2. Due(prospect.resetDay, Today)
        BY <1>t, <3>1, <4>1, DueDays
      <4> QED BY <2>4, <3>1, <4>1, <4>2
    <3> QED BY <3>2, <3>3
  <2>7. /\ resetKey' # NoKey => resetKey'.day <= Today'
        /\ \A m \in Months : DueDay(prospect.resetDay, m)' < Today' => m \in excused' \cup resets'
    <3>1. \A m \in Months : DueDay(prospect.resetDay, m)' = DueDay(prospect.resetDay, m)
      BY <2>1 DEF DueDay
    <3>2. Today' \in Nat /\ Today <= Today'
      BY <2>2
    <3>3. resetKey' # NoKey => resetKey'.day <= Today'
      BY <2>2, <2>5, <3>2
    <3>4. \A m \in Months : DueDay(prospect.resetDay, m) < Today' => m \in excused' \cup resets'
      BY <2>1, <2>6
    <3> QED BY <3>1, <3>3, <3>4
  <2>8. ASSUME Due(prospect.resetDay, Today)', checked' # {} \/ Taken'
        PROVE  (Month[Today] \in excused \cup resets \/ resetting # {})'
    <3>1. Taken' /\ resetKey'.day = Today'
      BY <2>1, <2>8 DEF Taken
    <3>2. Today' = Today
      BY <2>2, <2>5, <3>1 DEF Taken
    <3>3. Due(prospect.resetDay, Today)
      BY <2>1, <2>8, <3>2 DEF Due
    <3> QED BY <2>1, <2>4, <3>2, <3>3
  <2> QED BY <2>3, <2>7, <2>8 DEF ResetInvariant
<1>10. CASE DropOldTrafficPartitions \/ UNCHANGED monthVars
  <2>1. /\ UNCHANGED <<hour, up, checked, resetting, resetKey, resets, excused, prospect>>
        /\ partitions' \subseteq partitions
    BY <1>10 DEF DropOldTrafficPartitions, monthVars, resetVars
  <2>2. Today' = Today /\ Taken' = Taken
    BY <2>1 DEF Today, DayOf, Taken
  <2> QED BY <2>1, <2>2 DEF MonthTypeOK, ResetInvariant, Due, DueDay
<1> QED
  BY <1>1, <1>2, <1>3, <1>4, <1>5, <1>6, <1>7, <1>8, <1>9, <1>10 DEF MonthNext

LEMMA MonthInvariantHolds == MonthSpec => [](MonthTypeOK /\ ResetInvariant)
<1>1. ASSUME MonthInit PROVE MonthTypeOK /\ ResetInvariant
  <2>1. prospect \in [ops : SUBSET Setbacks, faults : Nat, resetDay : Int]
    BY <1>1, MonthAssumption DEF MonthInit
  <2>2. Today = 0
    BY <1>1, NextDay DEF MonthInit, Today
  <2>3. 0 \in Days /\ 1 \in Months /\ 2 \in Months
    <3>1. 1 \in Months /\ 2 \in Months /\ 1 \in 1..(LastMonth + 1) /\ 1 + 1 \in 1..(LastMonth + 1)
      BY CalendarKinds
    <3>2. DaysBefore[1] = 0 /\ 0 < DaysBefore[1 + 1]
      BY <3>1, CalendarKinds
    <3> QED BY <3>1, <3>2, MonthOfDay
  <2>4. MonthTypeOK
    BY <1>1, <2>1, <2>2, <2>3 DEF MonthInit, MonthTypeOK
  <2>5. \A m \in Months : ~(DueDay(prospect.resetDay, m) < Today)
    BY <2>1, <2>2, DueDays
  <2>6. ResetInvariant
    BY <1>1, <2>5 DEF MonthInit, ResetInvariant, Taken
  <2> QED BY <2>4, <2>6
<1>2. MonthTypeOK /\ ResetInvariant /\ [MonthNext]_monthVars => (MonthTypeOK /\ ResetInvariant)'
  BY MonthStep
<1> QED BY <1>1, <1>2, PTL DEF MonthSpec

\* The clock, the processes, the key, the months and the partitions keep their types, for any
\* calendar, configured day, processes and faults.
THEOREM MonthsAreTyped == MonthSpec => []MonthTypeOK
<1> QED BY MonthInvariantHolds, PTL

\* Every month that is over has had its reset, or a step of its reset day had failed.
THEOREM MonthsAreReset == MonthSpec => []EveryMonthIsReset
<1>1. ASSUME MonthTypeOK, ResetInvariant PROVE EveryMonthIsReset
  <2> SUFFICES ASSUME NEW m \in Months, DaysBefore[m + 1] <= Today
               PROVE  m \in excused \cup resets
    BY DEF EveryMonthIsReset
  <2>1. /\ DueDay(prospect.resetDay, m) \in Nat
        /\ DueDay(prospect.resetDay, m) < DaysBefore[m + 1]
    BY <1>1, DueDays DEF MonthTypeOK
  <2>2. DaysBefore[m + 1] \in Nat /\ Today \in Nat
    <3>1. m + 1 \in 1..(LastMonth + 1)
      BY CalendarKinds
    <3> QED BY <1>1, <3>1, CalendarKinds, DaysHaveMonths DEF MonthTypeOK
  <2> QED BY <1>1, <2>1, <2>2 DEF ResetInvariant
<1> QED BY <1>1, MonthInvariantHolds, PTL

\* No step drops the partition of the running month or, until the 28th, the one before.
THEOREM RecentLogsAreKept == MonthSpec => RecentLogsStay
<1>1. ASSUME MonthTypeOK, [MonthNext]_monthVars
      PROVE  [\A m \in partitions \ partitions' :
                m # Month[Today] /\ (DayOfMonth[Today] <= 28 => m # Month[Today] - 1)]_monthVars
  <2> SUFFICES ASSUME NEW m \in partitions \ partitions'
               PROVE  m # Month[Today] /\ (DayOfMonth[Today] <= 28 => m # Month[Today] - 1)
    OBVIOUS
  <2>1. DropOldTrafficPartitions
    BY <1>1 DEF MonthNext, CheckDay, CheckUnread, CheckUnguarded, ResetDone, ResetFails,
                ReplicaDies, Restart, KeyExpires, HourPasses, monthVars
  <2>2. m # Month[Today] /\ m # MonthBefore(Today)
    BY <2>1 DEF DropOldTrafficPartitions
  <2>3. Today \in Days /\ Month[Today] \in Months /\ m \in Months
    BY <1>1, DaysHaveMonths DEF MonthTypeOK
  <2>4. ASSUME DayOfMonth[Today] <= 28 PROVE MonthBefore(Today) = Month[Today] - 1
    <3>1. DayOfMonth[Today] \in Int
      <4>1. Month[Today] \in 1..(LastMonth + 1)
        BY <2>3, CalendarKinds
      <4>2. DaysBefore[Month[Today]] \in Nat
        BY <4>1, CalendarKinds
      <4> QED BY <2>3, <4>2, DaysHaveMonths
    <3>2. Month[Today] > 1 => Month[Today] - 1 \in Months
      BY <2>3, CalendarKinds
    <3>3. Month[Today] > 1 => ~(DayOfMonth[Today] > MonthLengths[Month[Today] - 1])
      BY <2>4, <3>1, <3>2, CalendarKinds
    <3> QED BY <3>3 DEF MonthBefore
  <2> QED BY <2>2, <2>4
<1> QED BY <1>1, MonthInvariantHolds, PTL DEF MonthSpec, RecentLogsStay
=============================================================================
