-------------------------- MODULE Operators_proofs --------------------------
(***************************************************************************)
(* Lemmas about the operators that the models are built from: sums over    *)
(* finite sets, by induction over the set; what one call of                *)
(* apply_transaction does to the accounts; what the operations of the pool *)
(* do to its two maps.  They hold for every set of transactions, every    *)
(* width of the integers and every capacity.                               *)
(***************************************************************************)
EXTENDS Pool, FiniteSetTheorems, WellFoundedInduction, TLAPS

(* Of some subsets of a finite set one contains no other.  An induction    *)
(* over finite sets takes the smallest counterexample.                     *)
LEMMA MinimalSubset ==
  ASSUME NEW S, IsFiniteSet(S), NEW Bad, Bad \subseteq SUBSET S, Bad # {}
  PROVE  \E T \in Bad : \A U \in Bad : U \subseteq T => U = T
<1>1. IsWellFoundedOn(StrictSubsetOrdering(S), SUBSET S)
  BY Zenon, FS_StrictSubsetOrderingWellFounded, FS_FiniteSubsetsOfFinite
<1>2. \E T \in Bad : \A U \in Bad : ~(<<U, T>> \in StrictSubsetOrdering(S))
  BY <1>1, WFMin
<1> QED BY Zenon, <1>2 DEF StrictSubsetOrdering

-----------------------------------------------------------------------------

(* The term that a sum takes first.                                        *)
Pick(T) == CHOOSE x \in T : TRUE

(* It is one of the terms.                                                 *)
LEMMA PickIn == \A T : T # {} => Pick(T) \in T
BY DEF Pick

(* g is the table of the sums of f over the subsets of S.                  *)
IsSum(g, f, S) ==
  g = [T \in SUBSET S |->
         IF T = {} THEN 0 ELSE f[Pick(T)] + g[T \ {Pick(T)}]]

Solution(f, S) == CHOOSE g : IsSum(g, f, S)

(* The sum of f[x] over the elements x of S.                               *)
Sum(f, S) == Solution(f, S)[S]

(* A table of sums, entry by entry.                                        *)
LEMMA IsSumUnfold ==
  ASSUME NEW S, NEW f, NEW g, IsSum(g, f, S), NEW T, T \subseteq S
  PROVE  /\ T = {} => g[T] = 0
         /\ T # {} => g[T] = f[Pick(T)] + g[T \ {Pick(T)}]
BY Zenon DEF IsSum

(* Two tables of one function agree wherever both have an entry.           *)
LEMMA SumUnique ==
  ASSUME NEW S, IsFiniteSet(S), NEW f, NEW g, NEW h,
         NEW R, NEW Q, S \subseteq R, S \subseteq Q, IsSum(g, f, R), IsSum(h, f, Q)
  PROVE  g[S] = h[S]
<1> DEFINE Bad == {T \in SUBSET S : g[T] # h[T]}
<1> SUFFICES ASSUME Bad # {} PROVE FALSE
  OBVIOUS
<1>0. Bad \subseteq SUBSET S /\ \A T \in SUBSET S : T \notin Bad => g[T] = h[T]
  OBVIOUS
<1>0b. \A T \in Bad : g[T] # h[T]
  OBVIOUS
<1> HIDE DEF Bad
<1>1. PICK T \in Bad : \A U \in Bad : U \subseteq T => U = T
  BY <1>0, MinimalSubset
<1>2. CASE T = {}
  BY Zenon, <1>0, <1>0b, <1>1, <1>2 DEF IsSum
<1>3. CASE T # {}
  <2>1. Pick(T) \in T
   BY <1>3, PickIn
  <2>2. T \ {Pick(T)} \in SUBSET S /\ T \ {Pick(T)} \notin Bad
    BY <1>0, <1>1, <2>1
  <2>3. g[T \ {Pick(T)}] = h[T \ {Pick(T)}]
    BY <1>0, <2>2
  <2>4. T \subseteq R /\ T \subseteq Q
    BY <1>0
  <2>5. g[T] = f[Pick(T)] + g[T \ {Pick(T)}]
    BY <1>3, <2>4, IsSumUnfold
  <2>6. h[T] = f[Pick(T)] + h[T \ {Pick(T)}]
    BY <1>3, <2>4, IsSumUnfold
  <2> QED BY <1>0b, <2>3, <2>5, <2>6
<1> QED BY <1>2, <1>3

(* Where the tables exist a sum is its first term and the sum of the rest. *)
LEMMA SumStep ==
  ASSUME NEW S, IsFiniteSet(S), S # {}, NEW f, IsSum(Solution(f, S), f, S),
         IsSum(Solution(f, S \ {Pick(S)}), f, S \ {Pick(S)})
  PROVE  Sum(f, S) = f[Pick(S)] + Sum(f, S \ {Pick(S)})
<1> DEFINE R == S \ {Pick(S)}
           g == Solution(f, S)
           h == Solution(f, R)
<1>1. g[S] = f[Pick(S)] + g[R]
  BY IsSumUnfold
<1>2. g[R] = h[R]
  <2>1. IsFiniteSet(R)
    BY FS_Subset
  <2>2. IsSum(g, f, S) /\ IsSum(h, f, R) /\ R \subseteq S /\ R \subseteq R
    OBVIOUS
  <2> HIDE DEF g, h, R
  <2> QED BY <2>1, <2>2, SumUnique
<1> QED BY <1>1, <1>2 DEF Sum

(* Every function has a table: a smallest set without one would get it     *)
(* from its subsets.                                                       *)
LEMMA SumExists ==
  ASSUME NEW S, IsFiniteSet(S), NEW f
  PROVE  IsSum(Solution(f, S), f, S)
<1> DEFINE Bad == {T \in SUBSET S : ~IsSum(Solution(f, T), f, T)}
<1> SUFFICES ASSUME Bad # {} PROVE FALSE
  OBVIOUS
<1>0. Bad \subseteq SUBSET S
  OBVIOUS
<1>1. \A T \in SUBSET S : T \notin Bad => IsSum(Solution(f, T), f, T)
  OBVIOUS
<1>2. \A T \in Bad : ~IsSum(Solution(f, T), f, T)
  OBVIOUS
<1> HIDE DEF Bad
<1>3. PICK T \in Bad : \A U \in Bad : U \subseteq T => U = T
  BY <1>0, MinimalSubset
<1>4. \A U \in SUBSET T : U # T => IsSum(Solution(f, U), f, U) /\ IsFiniteSet(U)
  BY <1>0, <1>1, <1>3, FS_Subset
<1>5. \A U \in SUBSET T : U # T /\ U # {} => Sum(f, U) = f[Pick(U)] + Sum(f, U \ {Pick(U)})
  BY <1>4, PickIn, SumStep
<1>6. T # {} => {} \in SUBSET T /\ Sum(f, {}) = 0
  BY Zenon, <1>4 DEF Sum, IsSum
<1> DEFINE g == [U \in SUBSET T |->
                   IF U = {} THEN 0 ELSE f[Pick(U)] + Sum(f, U \ {Pick(U)})]
<1>7. \A U \in SUBSET T : U # {} => g[U \ {Pick(U)}] = Sum(f, U \ {Pick(U)})
  <2> SUFFICES ASSUME NEW U \in SUBSET T, U # {}
               PROVE  g[U \ {Pick(U)}] = Sum(f, U \ {Pick(U)})
    BY Zenon
  <2>1. U \ {Pick(U)} \in SUBSET T /\ U \ {Pick(U)} # T /\ T # {}
    BY PickIn
  <2> QED BY Zenon, <1>5, <1>6, <2>1
<1>8. IsSum(g, f, T)
  BY Zenon, <1>7 DEF IsSum
<1>9. IsSum(Solution(f, T), f, T)
  BY <1>8 DEF Solution
<1> QED BY <1>2, <1>3, <1>9

(* The recursive equation of a sum.                                        *)
LEMMA SumRec ==
  ASSUME NEW S, IsFiniteSet(S), NEW f
  PROVE  /\ S = {} => Sum(f, S) = 0
         /\ S # {} => Sum(f, S) = f[Pick(S)] + Sum(f, S \ {Pick(S)})
<1>1. IsFiniteSet(S \ {Pick(S)})
  BY FS_Subset
<1>2. IsSum(Solution(f, S), f, S)
  BY SumExists
<1>3. S = {} => Sum(f, S) = 0
  BY <1>2 DEF Sum, IsSum
<1> QED BY <1>1, <1>2, <1>3, SumExists, SumStep

(* Any element may be taken out first.                                     *)
LEMMA SumTake ==
  ASSUME NEW S, IsFiniteSet(S), NEW f, \A x \in S : f[x] \in Int
  PROVE  /\ Sum(f, S) \in Int
         /\ \A x \in S : Sum(f, S) = f[x] + Sum(f, S \ {x})
<1> DEFINE Fine(T) == /\ Sum(f, T) \in Int
                      /\ \A x \in T : Sum(f, T) = f[x] + Sum(f, T \ {x})
           Bad == {T \in SUBSET S : ~Fine(T)}
<1> SUFFICES ASSUME Bad # {} PROVE FALSE
  OBVIOUS
<1>0. /\ Bad \subseteq SUBSET S
      /\ \A T \in SUBSET S : T \notin Bad => Fine(T)
      /\ \A T \in Bad : ~Fine(T)
  OBVIOUS
<1> HIDE DEF Bad, Fine
<1>1. PICK T \in Bad : \A U \in Bad : U \subseteq T => U = T
  BY <1>0, MinimalSubset
<1>2. T \subseteq S /\ IsFiniteSet(T)
  BY <1>0, FS_Subset
<1>3. \A U \in SUBSET T : U # T => Fine(U)
  BY <1>0, <1>1, <1>2
<1>4. CASE T = {}
  <2>1. Sum(f, T) = 0
    BY <1>2, <1>4, SumRec
  <2> QED BY <1>0, <1>4, <2>1 DEF Fine
<1>5. CASE T # {}
  <2> DEFINE p == Pick(T)
  <2>1. p \in T /\ Sum(f, T) = f[p] + Sum(f, T \ {p})
    BY Zenon, <1>2, <1>5, PickIn, SumRec
  <2> HIDE DEF p
  <2>2. T \ {p} \in SUBSET T /\ T \ {p} # T /\ p \in S
    BY <1>2, <2>1
  <2>3. Fine(T \ {p})
    BY <1>3, <2>2
  <2>4. Sum(f, T) \in Int
    BY <2>1, <2>2, <2>3 DEF Fine
  <2>5. ASSUME NEW x \in T PROVE Sum(f, T) = f[x] + Sum(f, T \ {x})
    <3>1. CASE x = p
      BY <2>1, <3>1
    <3>2. CASE x # p
      <4>1. /\ T \ {x} \in SUBSET T /\ T \ {x} # T /\ x \in S
            /\ p \in T \ {x} /\ x \in T \ {p}
            /\ (T \ {x}) \ {p} = (T \ {p}) \ {x}
            /\ (T \ {p}) \ {x} \in SUBSET T /\ (T \ {p}) \ {x} # T
        BY <1>2, <2>1, <3>2
      <4>2. Fine(T \ {x}) /\ Fine((T \ {p}) \ {x})
        BY <1>3, <4>1
      <4>3. Sum(f, T \ {p}) = f[x] + Sum(f, (T \ {p}) \ {x})
        BY <2>3, <4>1 DEF Fine
      <4>4. Sum(f, T \ {x}) = f[p] + Sum(f, (T \ {p}) \ {x})
        BY <4>1, <4>2 DEF Fine
      <4>5. f[x] \in Int /\ f[p] \in Int /\ Sum(f, (T \ {p}) \ {x}) \in Int
        BY <2>2, <4>1, <4>2 DEF Fine
      <4> QED BY <2>1, <4>3, <4>4, <4>5
    <3> QED BY <3>1, <3>2
  <2> QED BY <1>0, <2>4, <2>5 DEF Fine
<1> QED BY <1>4, <1>5

(* Functions that agree on the set have the same sum.                      *)
LEMMA SumSame ==
  ASSUME NEW S, IsFiniteSet(S), NEW f, NEW g, \A x \in S : f[x] = g[x]
  PROVE  Sum(f, S) = Sum(g, S)
<1>1. IsSum(Solution(g, S), f, S)
  <2>1. \A T \in SUBSET S : T # {} => f[Pick(T)] = g[Pick(T)]
    BY PickIn
  <2>2. IsSum(Solution(g, S), g, S)
    BY SumExists
  <2> QED BY Zenon, <2>1, <2>2 DEF IsSum
<1>2. IsSum(Solution(f, S), f, S)
  BY SumExists
<1> QED BY <1>1, <1>2, SumUnique DEF Sum

(* A change of one term.                                                   *)
LEMMA SumChange ==
  ASSUME NEW S, IsFiniteSet(S), NEW f, NEW g, NEW x \in S,
         \A y \in S : f[y] \in Int /\ g[y] \in Int,
         \A y \in S \ {x} : f[y] = g[y]
  PROVE  Sum(g, S) = Sum(f, S) - f[x] + g[x]
<1>1. IsFiniteSet(S \ {x})
  BY FS_Subset
<1>2. Sum(f, S \ {x}) = Sum(g, S \ {x}) /\ Sum(f, S \ {x}) \in Int
  BY <1>1, SumSame, SumTake
<1>3. Sum(f, S) = f[x] + Sum(f, S \ {x}) /\ Sum(g, S) = g[x] + Sum(g, S \ {x})
  BY SumTake
<1> QED BY <1>2, <1>3

(* Larger terms have a larger sum.                                         *)
LEMMA SumMonotone ==
  ASSUME NEW S, IsFiniteSet(S), NEW f, NEW g,
         \A x \in S : f[x] \in Int /\ g[x] \in Int /\ f[x] <= g[x]
  PROVE  Sum(f, S) <= Sum(g, S)
<1> DEFINE Bad == {T \in SUBSET S : ~(Sum(f, T) <= Sum(g, T))}
<1> SUFFICES ASSUME Bad # {} PROVE FALSE
  OBVIOUS
<1>0. /\ Bad \subseteq SUBSET S
      /\ \A T \in SUBSET S : T \notin Bad => Sum(f, T) <= Sum(g, T)
      /\ \A T \in Bad : ~(Sum(f, T) <= Sum(g, T))
  OBVIOUS
<1> HIDE DEF Bad
<1>1. PICK T \in Bad : \A U \in Bad : U \subseteq T => U = T
  BY <1>0, MinimalSubset
<1>2. T \subseteq S /\ IsFiniteSet(T)
  BY <1>0, FS_Subset
<1>3. CASE T = {}
  <2>1. Sum(f, T) = 0 /\ Sum(g, T) = 0
    BY Zenon, <1>2, <1>3, SumRec
  <2> QED BY <1>0, <2>1
<1>4. CASE T # {}
  <2>1. PICK x \in T : TRUE
    BY <1>4
  <2>2. /\ Sum(f, T) = f[x] + Sum(f, T \ {x}) /\ Sum(g, T) = g[x] + Sum(g, T \ {x})
    BY <1>2, <2>1, SumTake
  <2>3. T \ {x} \in SUBSET S /\ T \ {x} \notin Bad /\ IsFiniteSet(T \ {x})
    BY <1>1, <1>2, <2>1, FS_Subset
  <2>4. Sum(f, T \ {x}) <= Sum(g, T \ {x})
    BY <1>0, <2>3
  <2>5. Sum(f, T \ {x}) \in Int /\ Sum(g, T \ {x}) \in Int
    BY <1>2, <2>3, SumTake
  <2>6. f[x] \in Int /\ g[x] \in Int /\ f[x] <= g[x]
    BY <1>2, <2>1
  <2> QED BY <1>0, <1>1, <2>2, <2>4, <2>5, <2>6
<1> QED BY <1>3, <1>4

(* The sum of FiniteSetsExt is this one.                                   *)
LEMMA MapThenSumSetIsSum ==
  \A f, S : MapThenSumSet(LAMBDA x : f[x], S) = Sum(f, S)
BY DEF MapThenSumSet, MapThenFoldSet, Sum, Solution, IsSum, Pick

(* One more term.                                                          *)
LEMMA SumInsert ==
  ASSUME NEW S, IsFiniteSet(S), NEW f, NEW g, NEW x, x \notin S,
         \A y \in S : f[y] \in Int /\ g[y] = f[y], g[x] \in Int
  PROVE  Sum(g, S \cup {x}) = Sum(f, S) + g[x]
<1> DEFINE T == S \cup {x}
<1>1. IsFiniteSet(T) /\ T \ {x} = S /\ x \in T
  BY FS_AddElement
<1>2. \A y \in T : g[y] \in Int
  OBVIOUS
<1> HIDE DEF T
<1>3. Sum(g, T) = g[x] + Sum(g, S)
  BY <1>1, <1>2, SumTake
<1>4. Sum(g, S) = Sum(f, S)
  BY SumSame
<1>5. Sum(f, S) \in Int
  BY SumTake
<1> QED BY <1>3, <1>4, <1>5 DEF T

(* One term less.                                                          *)
LEMMA SumRemove ==
  ASSUME NEW S, IsFiniteSet(S), NEW f, NEW g, NEW x \in S,
         \A y \in S : f[y] \in Int, \A y \in S \ {x} : g[y] = f[y]
  PROVE  Sum(g, S \ {x}) = Sum(f, S) - f[x]
<1> DEFINE T == S \ {x}
<1>1. IsFiniteSet(T)
  BY FS_Subset
<1>2. Sum(f, S) = f[x] + Sum(f, T)
  BY SumTake
<1>3. \A y \in T : f[y] \in Int /\ g[y] = f[y]
  OBVIOUS
<1> HIDE DEF T
<1>4. Sum(g, T) = Sum(f, T) /\ Sum(f, T) \in Int
  BY <1>1, <1>3, SumSame, SumTake
<1> QED BY <1>2, <1>4 DEF T

(* A sum of zeros is zero.                                                 *)
LEMMA SumZero ==
  ASSUME NEW S, IsFiniteSet(S)
  PROVE  Sum([x \in S |-> 0], S) = 0
<1> DEFINE f == [x \in S |-> 0]
           Bad == {T \in SUBSET S : Sum(f, T) # 0}
<1> SUFFICES ASSUME Bad # {} PROVE FALSE
  OBVIOUS
<1>1. /\ Bad \subseteq SUBSET S
      /\ \A T \in SUBSET S : T \notin Bad => Sum(f, T) = 0
      /\ \A T \in Bad : Sum(f, T) # 0
  OBVIOUS
<1>2. \A x \in S : f[x] = 0
  OBVIOUS
<1> HIDE DEF Bad, f
<1>3. PICK T \in Bad : \A U \in Bad : U \subseteq T => U = T
  BY <1>1, MinimalSubset
<1>4. T \subseteq S /\ IsFiniteSet(T)
  BY <1>1, <1>3, FS_Subset
<1>5. T # {}
  BY Zenon, <1>1, <1>3, <1>4, SumRec
<1>6. Pick(T) \in T /\ f[Pick(T)] = 0
  BY <1>2, <1>4, <1>5, PickIn
<1>7. T \ {Pick(T)} \notin Bad
  BY <1>3, <1>6
<1>8. Sum(f, T \ {Pick(T)}) = 0
  BY <1>1, <1>4, <1>7
<1>9. Sum(f, T) = f[Pick(T)] + Sum(f, T \ {Pick(T)})
  BY <1>4, <1>5, SumRec
<1> QED BY <1>1, <1>3, <1>6, <1>8, <1>9

(* A sum of natural numbers is one, and no term exceeds it.                *)
LEMMA SumOfNats ==
  ASSUME NEW S, IsFiniteSet(S), NEW f, \A x \in S : f[x] \in Nat
  PROVE  /\ Sum(f, S) \in Nat
         /\ \A x \in S : f[x] <= Sum(f, S)
<1>1. ASSUME NEW T, IsFiniteSet(T), \A x \in T : f[x] \in Nat
      PROVE  Sum(f, T) \in Nat
  <2> DEFINE z == [x \in T |-> 0]
  <2>1. \A x \in T : z[x] \in Int /\ f[x] \in Int /\ z[x] <= f[x]
    BY <1>1
  <2>2. Sum(z, T) = 0
    BY <1>1, SumZero
  <2> HIDE DEF z
  <2>3. Sum(z, T) <= Sum(f, T) /\ Sum(f, T) \in Int
    BY <1>1, <2>1, SumMonotone, SumTake
  <2> QED BY <2>2, <2>3
<1>2. ASSUME NEW x \in S PROVE f[x] <= Sum(f, S)
  <2>1. IsFiniteSet(S \ {x}) /\ \A y \in S \ {x} : f[y] \in Nat
    BY FS_Subset
  <2>2. Sum(f, S \ {x}) \in Nat
    BY <1>1, <2>1
  <2>3. Sum(f, S) = f[x] + Sum(f, S \ {x})
    BY SumTake
  <2> QED BY <2>2, <2>3
<1> QED BY <1>1, <1>2

(* A nonempty set of naturals has a least element, ...                     *)
LEMMA Smallest ==
  ASSUME NEW S, S \subseteq Nat, S # {}
  PROVE  \E n \in S : \A m \in S : n <= m
<1>1. PICK n \in S : \A m \in S : ~ (<<m, n>> \in OpToRel(<, Nat))
  BY Zenon, NatLessThanWellFounded, WFMin
<1>2. ASSUME NEW m \in S, m < n PROVE FALSE
  <2>1. <<m, n>> \in Nat \X Nat /\ <<m, n>>[1] < <<m, n>>[2]
    BY <1>2
  <2>2. <<m, n>> \in OpToRel(<, Nat)
    BY Zenon, <2>1 DEF OpToRel
  <2> QED BY Zenon, <1>1, <2>2
<1>3. \A m \in S : n \in Nat /\ m \in Nat /\ ~ (m < n)
  BY <1>2
<1> QED BY <1>3

(* ... and, when it is bounded, a greatest one.                            *)
LEMMA Largest ==
  ASSUME NEW S, NEW n \in Nat, S \subseteq 0..n, S # {}
  PROVE  Max(S) \in S /\ \A m \in S : m <= Max(S)
<1> DEFINE Above == {k \in Nat : \A m \in S : m <= k}
<1>1. n \in Above /\ Above \subseteq Nat
  OBVIOUS
<1>2. PICK k \in Above : \A j \in Above : k <= j
  BY <1>1, Smallest, Zenon
<1>3. k \in S
  <2> SUFFICES ASSUME k \notin S PROVE FALSE
    OBVIOUS
  <2>1. PICK m \in S : TRUE
    BY Zenon
  <2>2. k \in Nat /\ (\A x \in S : x \in Nat /\ x <= k /\ x # k) /\ m \in Nat
    BY <1>2
  <2>3. k - 1 \in Nat /\ \A x \in S : x <= k - 1
    BY <2>2
  <2>4. k - 1 \in Above
    BY <2>3
  <2> QED BY <1>2, <2>2, <2>4
<1>4. k \in S /\ \A m \in S : k >= m /\ k \in Nat /\ m \in Nat
  BY <1>2, <1>3
<1>5. Max(S) \in S /\ \A m \in S : Max(S) >= m
  BY <1>4, Zenon DEF Max
<1> QED BY <1>4, <1>5

-----------------------------------------------------------------------------

(* The fields of a transaction are in their ranges.                        *)
LEMMA TxFields ==
  \A tx \in Txs :
    /\ tx.from \in Addrs /\ tx.to \in Addrs \cup {NoAddr}
    /\ tx.nonce \in Nonces /\ tx.value \in Amounts /\ tx.gas_price \in Amounts
    /\ tx.hash \in Nat /\ tx.gas_limit \in Nat
BY TxsAssumption DEF Transaction

(* A fee is a natural number: it is at least zero and finite, so that      *)
(* debiting it never adds to a balance.                                    *)
LEMMA FeeType == \A tx \in Txs : Fee(tx) \in Nat
<1> SUFFICES ASSUME NEW tx \in Txs PROVE tx.gas_price * tx.gas_limit \in Nat
  BY DEF Fee
<1>1. tx.gas_price \in Nat /\ tx.gas_limit \in Nat
  BY TxFields, BoundsAssumption DEF Amounts
<1> QED BY <1>1

(* Once the checks have passed, no later step of apply_transaction fails   *)
(* except the receiver's overflow check, which precedes every write: the   *)
(* fee can always be paid.                                                 *)
LEMMA FeeIsCovered ==
  ASSUME NEW s \in [Addrs -> Account], NEW tx \in Txs, Executable(s, tx),
         ApplyTransfer(s, tx.from, tx.to, tx.value).ok
  PROVE  LET moved == ApplyTransfer(s, tx.from, tx.to, tx.value).accounts
         IN  /\ moved \in [Addrs -> Account]
             /\ moved[tx.from].balance >= Fee(tx)
             /\ \A a \in Addrs : moved[a].nonce = s[a].nonce
<1>1. /\ tx.from \in Addrs /\ tx.to \in Addrs
      /\ tx.value \in Nat /\ Fee(tx) \in Nat /\ MaxAmount \in Nat
  BY TxFields, BoundsAssumption, FeeType DEF Executable, Amounts
<1>2. s[tx.from].balance >= tx.value + Fee(tx)
  BY DEF Executable, EnsureBalance, TotalCost
<1>3. CASE tx.from = tx.to
  BY <1>1, <1>2, <1>3 DEF ApplyTransfer, Account, Amounts
<1>4. CASE tx.from # tx.to
  <2> DEFINE moved == [s EXCEPT ![tx.from].balance = @ - tx.value,
                                ![tx.to].balance = @ + tx.value]
  <2>1. ApplyTransfer(s, tx.from, tx.to, tx.value).accounts = moved
    BY <1>4 DEF ApplyTransfer
  <2>2. s[tx.to].balance + tx.value <= MaxAmount
    BY <1>1, <1>4 DEF ApplyTransfer, Account, Amounts
  <2>3. moved[tx.from] = [s[tx.from] EXCEPT !.balance = @ - tx.value]
    BY <1>1, <1>4
  <2>4. moved[tx.to] = [s[tx.to] EXCEPT !.balance = @ + tx.value]
    BY <1>1, <1>4
  <2>5. \A a \in Addrs \ {tx.from, tx.to} : moved[a] = s[a]
    OBVIOUS
  <2>6. /\ moved[tx.from] \in Account /\ moved[tx.to] \in Account
        /\ moved[tx.from].balance >= Fee(tx)
        /\ moved[tx.from].nonce = s[tx.from].nonce
        /\ moved[tx.to].nonce = s[tx.to].nonce
    BY <1>1, <1>2, <2>2, <2>3, <2>4 DEF Account, Amounts
  <2> HIDE DEF moved
  <2>7. DOMAIN moved = Addrs /\ moved = [a \in Addrs |-> moved[a]]
    BY Zenon DEF moved
  <2> QED BY <2>1, <2>5, <2>6, <2>7
<1> QED BY <1>3, <1>4

(* "leaves the state untouched on any error": whichever check refuses the  *)
(* transaction, the accounts are those of before the call.                 *)
THEOREM ErrorLeavesStateUntouched ==
  ASSUME NEW s \in [Addrs -> Account], NEW tx \in Txs,
         ~ApplyTransaction(s, tx).ok
  PROVE  ApplyTransaction(s, tx).accounts = s
<1> DEFINE moved == ApplyTransfer(s, tx.from, tx.to, tx.value)
<1>1. CASE ~Executable(s, tx)
  BY <1>1 DEF ApplyTransaction
<1>2. CASE Executable(s, tx) /\ ~moved.ok
  BY Zenon, <1>2 DEF ApplyTransaction, ApplyTransfer
<1>3. CASE Executable(s, tx) /\ moved.ok
  <2>1. moved.accounts[tx.from].balance >= Fee(tx)
    BY <1>3, FeeIsCovered
  <2>2. moved.accounts[tx.from].balance \in Nat /\ Fee(tx) \in Nat
    BY <1>3, FeeIsCovered, FeeType, TxFields, BoundsAssumption
       DEF Account, Amounts
  <2>3. Debit(moved.accounts, tx.from, Fee(tx)).ok
    BY <2>1, <2>2 DEF Debit
  <2> QED BY <1>3, <2>3 DEF ApplyTransaction
<1> QED BY <1>1, <1>2, <1>3

(* The last two writes of apply_transaction: the fee and the nonce.        *)
PaidAndBumped(s, a, fee, n) ==
  [[s EXCEPT ![a].balance = @ - fee] EXCEPT ![a].nonce = n]

(* They keep every account in range and touch the sender alone.            *)
LEMMA PayAndBump ==
  ASSUME NEW s \in [Addrs -> Account], NEW a \in Addrs, NEW fee \in Nat,
         NEW n \in Nonces, s[a].balance >= fee
  PROVE  /\ PaidAndBumped(s, a, fee, n) \in [Addrs -> Account]
         /\ PaidAndBumped(s, a, fee, n)[a].nonce = n
         /\ \A b \in Addrs \ {a} : PaidAndBumped(s, a, fee, n)[b] = s[b]
<1> DEFINE paid == [s EXCEPT ![a].balance = @ - fee]
           after == [paid EXCEPT ![a].nonce = n]
<1>1. paid[a] = [nonce |-> s[a].nonce, balance |-> s[a].balance - fee]
  BY DEF Account
<1>2. paid[a] \in Account
  BY <1>1, BoundsAssumption DEF Account, Amounts, Nonces
<1>3. paid \in [Addrs -> Account] /\ \A b \in Addrs \ {a} : paid[b] = s[b]
  BY <1>2
<1> HIDE DEF paid
<1>4. after[a] = [nonce |-> n, balance |-> paid[a].balance]
  BY <1>3 DEF Account
<1>5. after[a] \in Account /\ after[a].nonce = n
  BY <1>3, <1>4 DEF Account
<1>6. after \in [Addrs -> Account] /\ \A b \in Addrs \ {a} : after[b] = s[b]
  BY <1>3, <1>5
<1> QED BY <1>5, <1>6 DEF paid, PaidAndBumped

(* An executed transaction spends exactly its own nonce: the sender's      *)
(* nonce was the transaction's and is now one more, no other nonce moves,  *)
(* and every balance and nonce still fits its integer.                     *)
THEOREM ExecutionSpendsOneNonce ==
  ASSUME NEW s \in [Addrs -> Account], NEW tx \in Txs,
         ApplyTransaction(s, tx).ok
  PROVE  LET after == ApplyTransaction(s, tx).accounts
         IN  /\ after \in [Addrs -> Account]
             /\ tx.nonce = s[tx.from].nonce
             /\ after[tx.from].nonce = tx.nonce + 1
             /\ \A a \in Addrs \ {tx.from} : after[a].nonce = s[a].nonce
             /\ tx.chain_id = ChainId
<1> DEFINE moved == ApplyTransfer(s, tx.from, tx.to, tx.value)
           paid == Debit(moved.accounts, tx.from, Fee(tx))
           m == moved.accounts
           after == PaidAndBumped(m, tx.from, Fee(tx), tx.nonce + 1)
<1>1. Executable(s, tx) /\ moved.ok /\ paid.ok
  BY DEF ApplyTransaction
<1>2. ApplyTransaction(s, tx).accounts = after
  BY Zenon, <1>1 DEF ApplyTransaction, Debit, PaidAndBumped
<1>3. /\ m \in [Addrs -> Account]
      /\ m[tx.from].balance >= Fee(tx)
      /\ \A a \in Addrs : m[a].nonce = s[a].nonce
  BY <1>1, FeeIsCovered
<1>4. /\ tx.from \in Addrs /\ tx.nonce \in Nat /\ Fee(tx) \in Nat
      /\ tx.nonce + 1 \in Nonces /\ tx.nonce = s[tx.from].nonce
      /\ tx.chain_id = ChainId
  BY <1>1, TxFields, BoundsAssumption, FeeType DEF Executable, Nonces
<1> HIDE DEF m
<1>5. /\ after \in [Addrs -> Account]
      /\ after[tx.from].nonce = tx.nonce + 1
      /\ \A a \in Addrs \ {tx.from} : after[a] = m[a]
  BY <1>3, <1>4, PayAndBump
<1> HIDE DEF after
<1> QED BY <1>2, <1>3, <1>4, <1>5

(* set_balance, credit and apply_transfer write balances only, and only    *)
(* balances that fit.                                                      *)
LEMMA SetBalanceType ==
  ASSUME NEW s \in [Addrs -> Account], NEW a \in Addrs, NEW v \in Amounts
  PROVE  /\ SetBalance(s, a, v) \in [Addrs -> Account]
         /\ \A b \in Addrs : SetBalance(s, a, v)[b].nonce = s[b].nonce
<1> DEFINE after == [s EXCEPT ![a].balance = v]
<1>1. after[a] = [nonce |-> s[a].nonce, balance |-> v]
  BY DEF Account
<1>2. after[a] \in Account /\ after[a].nonce = s[a].nonce
  BY <1>1 DEF Account
<1> QED BY <1>2 DEF SetBalance

(* A credit, refused or not, keeps every account in range.                 *)
LEMMA CreditType ==
  ASSUME NEW s \in [Addrs -> Account], NEW a \in Addrs, NEW v \in Amounts
  PROVE  /\ Credit(s, a, v).accounts \in [Addrs -> Account]
         /\ \A b \in Addrs : Credit(s, a, v).accounts[b].nonce = s[b].nonce
<1>1. CASE s[a].balance + v > MaxAmount
  BY <1>1 DEF Credit
<1>2. CASE ~(s[a].balance + v > MaxAmount)
  <2>1. s[a].balance + v \in Amounts
    BY <1>2, BoundsAssumption DEF Account, Amounts
  <2>2. Credit(s, a, v).accounts = SetBalance(s, a, s[a].balance + v)
    BY <1>2 DEF Credit, SetBalance
  <2> QED BY <2>1, <2>2, SetBalanceType
<1> QED BY <1>1, <1>2

(* So does a transfer, to oneself and to others.                           *)
LEMMA ApplyTransferType ==
  ASSUME NEW s \in [Addrs -> Account], NEW from \in Addrs, NEW to \in Addrs,
         NEW v \in Amounts
  PROVE  LET after == ApplyTransfer(s, from, to, v).accounts
         IN  /\ after \in [Addrs -> Account]
             /\ \A b \in Addrs : after[b].nonce = s[b].nonce
<1>1. CASE from = to \/ ~ApplyTransfer(s, from, to, v).ok
  BY <1>1 DEF ApplyTransfer
<1>2. CASE from # to /\ ApplyTransfer(s, from, to, v).ok
  <2> DEFINE mid == SetBalance(s, from, s[from].balance - v)
  <2>1. /\ s[from].balance - v \in Amounts
        /\ s[to].balance + v \in Amounts
    BY <1>2, BoundsAssumption DEF ApplyTransfer, Account, Amounts
  <2>2. /\ mid \in [Addrs -> Account]
        /\ \A b \in Addrs : mid[b].nonce = s[b].nonce
    BY <2>1, SetBalanceType
  <2>3. ApplyTransfer(s, from, to, v).accounts
          = SetBalance(mid, to, s[to].balance + v)
    BY <1>2 DEF ApplyTransfer, SetBalance
  <2> HIDE DEF mid
  <2> QED BY <2>1, <2>2, <2>3, SetBalanceType
<1> QED BY <1>1, <1>2

-----------------------------------------------------------------------------
(* What the accounts hold together.                                        *)

Balances(s) == [a \in Addrs |-> s[a].balance]

(* Supply is the sum of the balances.                                      *)
LEMMA SupplyIsSum ==
  ASSUME NEW s
  PROVE  Supply(s) = Sum(Balances(s), Addrs)
<1> DEFINE f == [a \in Addrs |-> s[a].balance]
           F(g) == [T \in SUBSET Addrs |->
              IF T = {} THEN 0 ELSE s[Pick(T)].balance + g[T \ {Pick(T)}]]
           h == CHOOSE g : g = F(g)
<1>1. Supply(s) = h[Addrs]
  BY DEF Supply, MapThenSumSet, MapThenFoldSet, Pick
<1>2. \A T \in SUBSET Addrs : T # {} => f[Pick(T)] = s[Pick(T)].balance
  BY PickIn
<1> HIDE DEF f
<1>3. \A g : g = F(g) <=> IsSum(g, f, Addrs)
  BY <1>2 DEF IsSum
<1>4. \E g : IsSum(g, f, Addrs)
  BY SumExists, AddrsAssumption
<1>5. IsSum(h, f, Addrs)
  BY Zenon, <1>3, <1>4
<1> HIDE DEF h
<1>6. Balances(s) = f
  BY DEF Balances, f
<1>7. h[Addrs] = Sum(f, Addrs)
  BY <1>5, SumExists, SumUnique, AddrsAssumption DEF Sum
<1> QED BY <1>1, <1>6, <1>7

(* Writing one balance changes the supply by what it changes.              *)
LEMMA SupplyChange ==
  ASSUME NEW s \in [Addrs -> Account], NEW t \in [Addrs -> Account], NEW a \in Addrs,
         \A b \in Addrs \ {a} : t[b].balance = s[b].balance
  PROVE  /\ Supply(s) \in Int
         /\ Supply(t) = Supply(s) - s[a].balance + t[a].balance
<1> DEFINE f == Balances(s)
           g == Balances(t)
<1>1. \A b \in Addrs : /\ f[b] = s[b].balance /\ f[b] \in Int
                       /\ g[b] = t[b].balance /\ g[b] \in Int
  BY BoundsAssumption DEF Balances, Account, Amounts
<1>2. Supply(s) = Sum(f, Addrs) /\ Supply(t) = Sum(g, Addrs)
  BY SupplyIsSum
<1> HIDE DEF f, g
<1>3. /\ \A b \in Addrs : f[b] \in Int /\ g[b] \in Int
      /\ \A b \in Addrs \ {a} : f[b] = g[b]
  BY <1>1
<1>4. Sum(g, Addrs) = Sum(f, Addrs) - f[a] + g[a]
  BY <1>3, SumChange, AddrsAssumption
<1>5. Sum(f, Addrs) \in Int
  BY <1>1, SumTake, AddrsAssumption
<1> QED BY <1>1, <1>2, <1>4, <1>5

(* The balances that set_balance leaves.                                   *)
LEMMA SetBalanceSupply ==
  ASSUME NEW s \in [Addrs -> Account], NEW a \in Addrs, NEW v \in Amounts
  PROVE  /\ SetBalance(s, a, v) \in [Addrs -> Account]
         /\ Supply(s) \in Int
         /\ Supply(SetBalance(s, a, v)) = Supply(s) - s[a].balance + v
<1> DEFINE t == SetBalance(s, a, v)
<1>1. t \in [Addrs -> Account]
  BY SetBalanceType
<1>2. t[a].balance = v /\ \A b \in Addrs \ {a} : t[b].balance = s[b].balance
  BY DEF SetBalance, Account
<1> HIDE DEF t
<1>3. Supply(s) \in Int /\ Supply(t) = Supply(s) - s[a].balance + t[a].balance
  BY <1>1, <1>2, SupplyChange
<1> QED BY <1>1, <1>2, <1>3 DEF t

(* A transfer, refused, to oneself or to others, moves value and makes     *)
(* none.                                                                   *)
LEMMA TransferSupply ==
  ASSUME NEW s \in [Addrs -> Account], NEW from \in Addrs, NEW to \in Addrs,
         NEW v \in Amounts
  PROVE  /\ Supply(s) \in Int
         /\ Supply(ApplyTransfer(s, from, to, v).accounts) = Supply(s)
<1>0. Supply(s) \in Int
  BY SupplyChange
<1>1. CASE from = to \/ ~ApplyTransfer(s, from, to, v).ok
  <2>1. ApplyTransfer(s, from, to, v).accounts = s
    BY <1>1 DEF ApplyTransfer
  <2> QED BY <1>0, <2>1
<1>2. CASE from # to /\ ApplyTransfer(s, from, to, v).ok
  <2> DEFINE x == s[from].balance - v
             y == s[to].balance + v
             mid == SetBalance(s, from, x)
  <2>1. /\ x \in Amounts /\ y \in Amounts /\ v \in Int
        /\ s[from].balance \in Int /\ s[to].balance \in Int
    BY <1>2, BoundsAssumption DEF ApplyTransfer, Account, Amounts
  <2>2. ApplyTransfer(s, from, to, v).accounts = SetBalance(mid, to, y)
    BY <1>2 DEF ApplyTransfer, SetBalance
  <2>3. mid[to].balance = s[to].balance
    BY <1>2 DEF SetBalance, Account
  <2> HIDE DEF x, y, mid
  <2>4. mid \in [Addrs -> Account] /\ Supply(mid) = Supply(s) - s[from].balance + x
    BY <2>1, SetBalanceSupply DEF mid
  <2>5. Supply(SetBalance(mid, to, y)) = Supply(mid) - mid[to].balance + y
    BY <2>1, <2>4, SetBalanceSupply
  <2> QED BY <1>0, <2>1, <2>2, <2>3, <2>4, <2>5 DEF x, y
<1> QED BY <1>1, <1>2

(* An executed transaction takes its fee out of the supply and nothing     *)
(* else.                                                                   *)
LEMMA ExecutionBurnsTheFee ==
  ASSUME NEW s \in [Addrs -> Account], NEW tx \in Txs,
         ApplyTransaction(s, tx).ok
  PROVE  /\ Supply(s) \in Int
         /\ Supply(ApplyTransaction(s, tx).accounts) = Supply(s) - Fee(tx)
<1> DEFINE moved == ApplyTransfer(s, tx.from, tx.to, tx.value)
           paid == Debit(moved.accounts, tx.from, Fee(tx))
           m == moved.accounts
           after == PaidAndBumped(m, tx.from, Fee(tx), tx.nonce + 1)
<1>1. Executable(s, tx) /\ moved.ok /\ paid.ok
  BY DEF ApplyTransaction
<1>2. ApplyTransaction(s, tx).accounts = after
  BY Zenon, <1>1 DEF ApplyTransaction, Debit, PaidAndBumped
<1>3. /\ m \in [Addrs -> Account]
      /\ m[tx.from].balance >= Fee(tx)
  BY <1>1, FeeIsCovered
<1>4. /\ tx.from \in Addrs /\ Fee(tx) \in Nat /\ tx.nonce + 1 \in Nonces
      /\ tx.to \in Addrs /\ tx.value \in Amounts
  BY <1>1, TxFields, BoundsAssumption, FeeType DEF Executable, Nonces
<1>5. Supply(s) \in Int /\ Supply(m) = Supply(s)
  BY <1>4, TransferSupply
<1> HIDE DEF m
<1>6. after \in [Addrs -> Account] /\ \A a \in Addrs \ {tx.from} : after[a] = m[a]
  BY <1>3, <1>4, PayAndBump
<1>7. after[tx.from].balance = m[tx.from].balance - Fee(tx)
  BY <1>3, <1>4 DEF PaidAndBumped, Account
<1>8. m[tx.from].balance \in Int
  BY <1>3, <1>4, BoundsAssumption DEF Account, Amounts
<1> HIDE DEF after
<1>9. Supply(after) = Supply(m) - m[tx.from].balance + after[tx.from].balance
  BY <1>3, <1>4, <1>6, SupplyChange
<1> QED BY <1>2, <1>4, <1>5, <1>7, <1>8, <1>9

-----------------------------------------------------------------------------

(* Every pending transaction owns its slot and every occupied slot names a *)
(* pending transaction.                                                    *)
Indexed(p) ==
  /\ \A tx \in p.txs : Slot(p, tx.from, tx.nonce) = tx
  /\ \A a \in Addrs, n \in Nonces :
       Slot(p, a, n) # NoTx =>
         /\ Slot(p, a, n) \in p.txs
         /\ Slot(p, a, n).from = a
         /\ Slot(p, a, n).nonce = n

(* A new pool is empty in both maps.                                       *)
LEMMA EmptyPoolFacts ==
  /\ EmptyPool \in PoolType
  /\ EmptyPool.txs = {}
  /\ \A a \in Addrs, n \in Nonces : Slot(EmptyPool, a, n) = NoTx
  /\ Indexed(EmptyPool)
BY DEF EmptyPool, PoolType, Slot, Indexed

(* A transaction names a slot of the pool.                                 *)
LEMMA TxKeys == \A tx \in Txs : tx.from \in Addrs /\ tx.nonce \in Nonces
BY TxsAssumption DEF Transaction

(* remove takes a transaction out of both maps.                            *)
LEMMA RemoveFacts ==
  ASSUME NEW p \in PoolType, NEW tx \in Txs, Indexed(p)
  PROVE  /\ PoolRemove(p, tx) \in PoolType
         /\ Indexed(PoolRemove(p, tx))
         /\ PoolRemove(p, tx).txs = p.txs \ {tx}
         /\ \A a \in Addrs, n \in Nonces :
              Slot(PoolRemove(p, tx), a, n) =
                IF tx \in p.txs /\ a = tx.from /\ n = tx.nonce
                  THEN NoTx ELSE Slot(p, a, n)
<1>1. CASE tx \notin p.txs
  BY <1>1 DEF PoolRemove
<1>2. CASE tx \in p.txs
  <2> DEFINE q == [txs |-> p.txs \ {tx},
                   by_sender |-> [p.by_sender EXCEPT ![tx.from][tx.nonce] = NoTx]]
  <2>1. PoolRemove(p, tx) = q
    BY <1>2 DEF PoolRemove
  <2>2. q \in PoolType
    BY TxKeys DEF PoolType
  <2>3. \A a \in Addrs, n \in Nonces :
          q.by_sender[a][n] = IF a = tx.from /\ n = tx.nonce
                                THEN NoTx ELSE p.by_sender[a][n]
    BY TxKeys DEF PoolType
  <2>4. q.txs = p.txs \ {tx}
    OBVIOUS
  <2> HIDE DEF q
  <2>5. \A a \in Addrs, n \in Nonces :
          Slot(q, a, n) = IF a = tx.from /\ n = tx.nonce
                            THEN NoTx ELSE Slot(p, a, n)
    BY <2>3 DEF Slot
  <2>6. p.txs \subseteq Txs
    BY DEF PoolType
  <2>7. Indexed(q)
    BY <1>2, <2>4, <2>5, <2>6, TxKeys, PoolAssumption DEF Indexed
  <2> QED BY <1>2, <2>1, <2>2, <2>4, <2>5, <2>7
<1> QED BY <1>1, <1>2

(* An insertion into a free slot adds to both maps.                        *)
LEMMA InsertFacts ==
  ASSUME NEW p \in PoolType, NEW tx \in Txs, Indexed(p),
         Slot(p, tx.from, tx.nonce) = NoTx
  PROVE  /\ PoolInsert(p, tx) \in PoolType
         /\ Indexed(PoolInsert(p, tx))
         /\ PoolInsert(p, tx).txs = p.txs \cup {tx}
         /\ \A a \in Addrs, n \in Nonces :
              Slot(PoolInsert(p, tx), a, n) =
                IF a = tx.from /\ n = tx.nonce THEN tx ELSE Slot(p, a, n)
<1> DEFINE q == [txs |-> p.txs \cup {tx},
                 by_sender |-> [p.by_sender EXCEPT ![tx.from][tx.nonce] = tx]]
<1>1. PoolInsert(p, tx) = q
  BY DEF PoolInsert
<1>2. q \in PoolType
  BY TxKeys DEF PoolType
<1>3. \A a \in Addrs, n \in Nonces :
        q.by_sender[a][n] = IF a = tx.from /\ n = tx.nonce
                              THEN tx ELSE p.by_sender[a][n]
  BY TxKeys DEF PoolType
<1>4. q.txs = p.txs \cup {tx}
  OBVIOUS
<1> HIDE DEF q
<1>5. \A a \in Addrs, n \in Nonces :
        Slot(q, a, n) = IF a = tx.from /\ n = tx.nonce THEN tx ELSE Slot(p, a, n)
  BY <1>3 DEF Slot
<1>6. p.txs \subseteq Txs
  BY DEF PoolType
<1>7. Indexed(q)
  BY <1>4, <1>5, <1>6, TxKeys, PoolAssumption DEF Indexed
<1> QED BY <1>1, <1>2, <1>4, <1>5, <1>7

(* A pool is determined by its two maps.                                   *)
LEMMA PoolEquality ==
  ASSUME NEW p \in PoolType, NEW q \in PoolType, p.txs = q.txs,
         \A a \in Addrs, n \in Nonces : Slot(p, a, n) = Slot(q, a, n)
  PROVE  p = q
<1>1. \A a \in Addrs : p.by_sender[a] = q.by_sender[a]
  BY DEF PoolType, Slot
<1>2. p.by_sender = q.by_sender
  BY <1>1 DEF PoolType
<1> QED BY <1>2 DEF PoolType

(* The empty pool counts nothing: Cardinality unfolded once, so that the   *)
(* theory of finite sets need not be loaded.                               *)
LEMMA EmptyCardinality == Cardinality({}) = 0
<1> DEFINE Counts(f) == f = [T \in SUBSET {} |->
             IF T = {} THEN 0 ELSE 1 + f[T \ {CHOOSE x : x \in T}]]
           count == CHOOSE f : Counts(f)
<1>1. \A T \in SUBSET {} : T = {}
  OBVIOUS
<1>2. Counts([T \in SUBSET {} |-> 0])
  BY <1>1
<1>3. Counts(count)
  BY <1>2
<1>4. Cardinality({}) = count[{}]
  BY DEF Cardinality
<1> HIDE DEF count
<1>5. count[{}] = 0
  BY <1>1, <1>3
<1> QED BY <1>4, <1>5

(* What an accepted admission to an empty pool does: nothing is displaced. *)
LEMMA AdmitToEmpty ==
  ASSUME NEW tx \in Txs, Admit(EmptyPool, tx).outcome = "accepted"
  PROVE  /\ Admit(EmptyPool, tx).pool = PoolInsert(EmptyPool, tx)
         /\ Admit(EmptyPool, tx).displaced = NoTx
         /\ Slot(EmptyPool, tx.from, tx.nonce) = NoTx
<1>1. Slot(EmptyPool, tx.from, tx.nonce) = NoTx
  BY EmptyPoolFacts, TxKeys
<1>2. Cardinality(EmptyPool.txs) = 0
  BY EmptyPoolFacts, EmptyCardinality
<1>3. /\ Enter(EmptyPool, tx).pool = PoolInsert(EmptyPool, tx)
      /\ Enter(EmptyPool, tx).displaced = NoTx
  BY <1>1, <1>2, PoolAssumption DEF Enter
<1>4. tx \notin EmptyPool.txs
  BY EmptyPoolFacts
<1>5. Admit(EmptyPool, tx) = Enter(EmptyPool, tx)
  BY <1>4 DEF Admit
<1> QED BY <1>1, <1>3, <1>5

(* Removing the one pending transaction leaves the pool empty.             *)
LEMMA RemoveFromSingleton ==
  ASSUME NEW tx \in Txs
  PROVE  /\ PoolRemove(PoolInsert(EmptyPool, tx), tx) = EmptyPool
         /\ RestorePool(PoolInsert(EmptyPool, tx), tx, NoTx, NoTx) = EmptyPool
<1> DEFINE p == PoolInsert(EmptyPool, tx)
<1>1. /\ p \in PoolType /\ Indexed(p) /\ p.txs = {tx}
      /\ \A a \in Addrs, n \in Nonces :
           Slot(p, a, n) = IF a = tx.from /\ n = tx.nonce
                             THEN tx ELSE Slot(EmptyPool, a, n)
  BY EmptyPoolFacts, TxKeys, InsertFacts
<1> HIDE DEF p
<1>2. /\ PoolRemove(p, tx) \in PoolType
      /\ PoolRemove(p, tx).txs = {}
      /\ \A a \in Addrs, n \in Nonces : Slot(PoolRemove(p, tx), a, n) = NoTx
  BY <1>1, RemoveFacts, EmptyPoolFacts
<1>3. PoolRemove(p, tx) = EmptyPool
  <2>1. EmptyPool \in PoolType /\ PoolRemove(p, tx).txs = EmptyPool.txs
    BY <1>2, EmptyPoolFacts
  <2>2. \A a \in Addrs, n \in Nonces :
          Slot(PoolRemove(p, tx), a, n) = Slot(EmptyPool, a, n)
    BY <1>2, EmptyPoolFacts
  <2> QED BY Zenon, <1>2, <2>1, <2>2, PoolEquality
<1>4. RestorePool(p, tx, NoTx, NoTx) = PoolRemove(p, tx)
  BY DEF RestorePool, Add
<1> QED BY <1>3, <1>4 DEF p

=============================================================================
