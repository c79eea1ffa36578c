----------------------------- MODULE CycleProofs -----------------------------
(***************************************************************************)
(* Proofs about Cycle, for every number of accounts, set of amounts and    *)
(* bound: a cycle is the fold of the history it was given, whatever the    *)
(* batches, and the ledger never overdraws an account or creates money.    *)
(***************************************************************************)
EXTENDS Cycle, TLAPS

(***************************************************************************)
(* Only the facts about numbers and finite sequences are used of it.       *)
(***************************************************************************)
Numbers == INSTANCE RecordFileProofs WITH Events <- {}, Invalid <- 0

-----------------------------------------------------------------------------
(***************************************************************************)
(* Sums.  A recursive function exists because every initial part of it     *)
(* does.                                                                   *)
(***************************************************************************)
Sums(s, d, n) ==
    s = [i \in 0 .. n |-> IF i = 0 THEN 0 ELSE s[i - 1] + d[i]]

LEMMA SumsExist ==
    ASSUME NEW d, NEW n \in Nat
    PROVE  \E s : Sums(s, d, n)
<1> DEFINE S == {k \in Nat : \E s : Sums(s, d, k)}
<1>1. 0 \in S
  <2>1. Sums([i \in 0 .. 0 |-> 0], d, 0)
    BY DEF Sums
  <2> QED BY <2>1
<1>2. ASSUME NEW k \in 0 .. n - 1, k \in S PROVE k + 1 \in S
  <2>1. PICK s : Sums(s, d, k)
    BY <1>2
  <2> DEFINE t == [i \in 0 .. k + 1 |-> IF i = k + 1 THEN s[k] + d[k + 1] ELSE s[i]]
  <2>2. ASSUME NEW i \in 0 .. k + 1
        PROVE  t[i] = IF i = 0 THEN 0 ELSE t[i - 1] + d[i]
    <3>1. CASE i = k + 1
      <4>1. t[i] = s[k] + d[k + 1] /\ t[k] = s[k] /\ i - 1 = k /\ i # 0
        BY <3>1
      <4> QED BY <3>1, <4>1
    <3>2. CASE i # k + 1
      <4>1. i \in 0 .. k /\ t[i] = s[i] /\ (i # 0 => i - 1 \in 0 .. k /\ t[i - 1] = s[i - 1])
        BY <3>2
      <4>2. s[i] = IF i = 0 THEN 0 ELSE s[i - 1] + d[i]
        BY <2>1, <4>1 DEF Sums
      <4> QED BY <4>1, <4>2
    <3> QED BY <3>1, <3>2
  <2>3. t = [i \in 0 .. k + 1 |-> IF i = 0 THEN 0 ELSE t[i - 1] + d[i]]
    BY <2>2
  <2>4. Sums(t, d, k + 1)
    BY <2>3 DEF Sums
  <2>5. \E u : Sums(u, d, k + 1)
    BY <2>4
  <2> QED BY <2>5
<1> HIDE DEF S
<1>3. \A k \in 0 .. n : k \in S
  BY <1>1, <1>2, Numbers!HoldsAll
<1>4. n \in S
  BY <1>3
<1> QED BY <1>4 DEF S

(***************************************************************************)
(* Sums of terms that agree agree.                                         *)
(***************************************************************************)
LEMMA SumsAgree ==
    ASSUME NEW d, NEW e, NEW m \in Nat, NEW n \in Nat, NEW k \in Nat, k <= m, k <= n,
           \A i \in 1 .. k : d[i] = e[i]
    PROVE  \A s, t : Sums(s, d, m) /\ Sums(t, e, n) => s[k] = t[k]
<1> SUFFICES ASSUME NEW s, NEW t, Sums(s, d, m), Sums(t, e, n)
             PROVE  s[k] = t[k]
  OBVIOUS
<1> DEFINE S == {i \in 0 .. k : s[i] = t[i]}
<1>1. 0 \in S
  BY DEF Sums
<1>2. ASSUME NEW i \in 0 .. k - 1, i \in S PROVE i + 1 \in S
  <2>1. i + 1 \in 1 .. k /\ i + 1 \in 0 .. m /\ i + 1 \in 0 .. n /\ (i + 1) - 1 = i /\ i + 1 # 0
    OBVIOUS
  <2>2. s[i + 1] = s[i] + d[i + 1]
    BY <2>1 DEF Sums
  <2>3. t[i + 1] = t[i] + e[i + 1]
    BY <2>1 DEF Sums
  <2>4. d[i + 1] = e[i + 1] /\ s[i] = t[i]
    BY <1>2, <2>1
  <2> QED BY <2>1, <2>2, <2>3, <2>4
<1> HIDE DEF S
<1>3. \A i \in 0 .. k : i \in S
  BY <1>1, <1>2, Numbers!HoldsAll
<1>4. k \in S
  BY <1>3
<1> QED BY <1>4 DEF S

LEMMA TotalIs ==
    ASSUME NEW d, NEW n \in Nat
    PROVE  \E s : Sums(s, d, n) /\ Total(d, n) = s[n]
<1> DEFINE s == CHOOSE s : Sums(s, d, n)
<1>1. Sums(s, d, n)
  BY SumsExist
<1>2. Total(d, n) = s[n]
  BY DEF Total, Sums
<1> HIDE DEF s
<1> QED BY <1>1, <1>2

LEMMA TotalAgrees ==
    ASSUME NEW d, NEW e, NEW n \in Nat, \A i \in 1 .. n : d[i] = e[i]
    PROVE  Total(d, n) = Total(e, n)
<1>1. PICK s : Sums(s, d, n) /\ Total(d, n) = s[n]
  BY TotalIs
<1>2. PICK t : Sums(t, e, n) /\ Total(e, n) = t[n]
  BY TotalIs
<1>3. n <= n
  OBVIOUS
<1>4. s[n] = t[n]
  BY <1>1, <1>2, <1>3, SumsAgree
<1> QED BY <1>1, <1>2, <1>4

LEMMA TotalZero ==
    ASSUME NEW d
    PROVE  Total(d, 0) = 0
<1>1. PICK s : Sums(s, d, 0) /\ Total(d, 0) = s[0]
  BY TotalIs
<1> QED BY <1>1 DEF Sums

LEMMA TotalNext ==
    ASSUME NEW d, NEW n \in Nat
    PROVE  Total(d, n + 1) = Total(d, n) + d[n + 1]
<1>1. PICK s : Sums(s, d, n) /\ Total(d, n) = s[n]
  BY TotalIs
<1>2. PICK t : Sums(t, d, n + 1) /\ Total(d, n + 1) = t[n + 1]
  BY TotalIs
<1>3. s[n] = t[n]
  <2>1. n + 1 \in Nat /\ n <= n /\ n <= n + 1
    OBVIOUS
  <2> DEFINE m == n + 1  e == d
  <2>2. \A i \in 1 .. n : d[i] = e[i]
    OBVIOUS
  <2>3. m \in Nat /\ n <= m /\ Sums(t, e, m)
    BY <1>2, <2>1
  <2> HIDE DEF m, e
  <2>4. \A u, v : Sums(u, d, n) /\ Sums(v, e, m) => u[n] = v[n]
    BY <2>1, <2>2, <2>3, SumsAgree
  <2> QED BY <1>1, <2>3, <2>4
<1>4. t[n + 1] = t[n] + d[n + 1]
  <2>1. n + 1 \in 0 .. n + 1 /\ n + 1 # 0 /\ (n + 1) - 1 = n
    OBVIOUS
  <2> QED BY <1>2, <2>1 DEF Sums
<1> QED BY <1>1, <1>2, <1>3, <1>4

LEMMA TotalType ==
    ASSUME NEW d, NEW n \in Nat, \A i \in 1 .. n : d[i] \in Int
    PROVE  Total(d, n) \in Int
<1> DEFINE S == {i \in 0 .. n : Total(d, i) \in Int}
<1>1. 0 \in S
  BY TotalZero
<1>2. ASSUME NEW i \in 0 .. n - 1, i \in S PROVE i + 1 \in S
  <2>1. i \in Nat /\ i + 1 \in 1 .. n /\ i + 1 \in 0 .. n
    OBVIOUS
  <2>2. Total(d, i + 1) = Total(d, i) + d[i + 1]
    BY <2>1, TotalNext
  <2> QED BY <1>2, <2>1, <2>2
<1> HIDE DEF S
<1>3. \A i \in 0 .. n : i \in S
  BY <1>1, <1>2, Numbers!HoldsAll
<1>4. n \in S
  BY <1>3
<1> QED BY <1>4 DEF S

(***************************************************************************)
(* Changing one term changes the sum by as much.                           *)
(***************************************************************************)
LEMMA TotalUpdated ==
    ASSUME NEW n \in Nat, NEW d, NEW e, NEW k \in 1 .. n, NEW x \in Int,
           \A i \in 1 .. n : d[i] \in Int,
           \A i \in 1 .. n : e[i] = IF i = k THEN d[i] + x ELSE d[i]
    PROVE  Total(e, n) = Total(d, n) + x
<1> DEFINE S == {i \in 0 .. n : Total(e, i) = Total(d, i) + (IF i < k THEN 0 ELSE x)}
<1>1. 0 \in S
  BY TotalZero
<1>2. ASSUME NEW i \in 0 .. n - 1, i \in S PROVE i + 1 \in S
  <2>1. i \in Nat /\ i + 1 \in 1 .. n /\ i + 1 \in 0 .. n
    OBVIOUS
  <2>2. Total(d, i + 1) = Total(d, i) + d[i + 1] /\ Total(e, i + 1) = Total(e, i) + e[i + 1]
    BY <2>1, TotalNext
  <2>3. Total(d, i) \in Int
    BY <2>1, TotalType
  <2>4. d[i + 1] \in Int /\ e[i + 1] = IF i + 1 = k THEN d[i + 1] + x ELSE d[i + 1]
    BY <2>1
  <2>5. Total(e, i) = Total(d, i) + (IF i < k THEN 0 ELSE x)
    BY <1>2
  <2>6. Total(e, i + 1) = Total(d, i + 1) + (IF i + 1 < k THEN 0 ELSE x)
    BY <2>1, <2>2, <2>3, <2>4, <2>5
  <2> QED BY <2>1, <2>6
<1> HIDE DEF S
<1>3. \A i \in 0 .. n : i \in S
  BY <1>1, <1>2, Numbers!HoldsAll
<1>4. n \in S
  BY <1>3
<1>5. ~(n < k)
  OBVIOUS
<1> QED BY <1>4, <1>5 DEF S
(***************************************************************************)
(* What the events of a history add to an account, to all the accounts,    *)
(* and to the sum that the commands of one name asked to move.             *)
(***************************************************************************)
Net(h, n) == Total([i \in 1 .. n |-> Moves(h[i])], n)

LEMMA BalanceNext ==
    ASSUME NEW h, NEW a, NEW n \in Nat
    PROVE  /\ Balance(h, a, 0) = 0
           /\ Balance(h, a, n + 1) =
                Balance(h, a, n) + (IF h[n + 1].idx = a THEN Moves(h[n + 1]) ELSE 0)
<1> DEFINE d(k) == [i \in 1 .. k |-> IF h[i].idx = a THEN Moves(h[i]) ELSE 0]
<1>1. Balance(h, a, 0) = 0
  BY TotalZero DEF Balance
<1>2. n + 1 \in 1 .. n + 1 /\ \A i \in 1 .. n : i \in 1 .. n + 1
  OBVIOUS
<1>3. d(n + 1)[n + 1] = IF h[n + 1].idx = a THEN Moves(h[n + 1]) ELSE 0
  BY <1>2
<1>4. \A i \in 1 .. n : d(n + 1)[i] = d(n)[i]
  BY <1>2
<1>5. Balance(h, a, n + 1) = Total(d(n + 1), n + 1) /\ Balance(h, a, n) = Total(d(n), n)
  BY DEF Balance
<1> HIDE DEF d
<1>6. Total(d(n + 1), n) = Total(d(n), n)
  BY <1>4, TotalAgrees
<1>7. Total(d(n + 1), n + 1) = Total(d(n + 1), n) + d(n + 1)[n + 1]
  BY TotalNext
<1> QED BY <1>1, <1>3, <1>5, <1>6, <1>7

LEMMA BalanceAgrees ==
    ASSUME NEW h, NEW g, NEW a, NEW n \in Nat, \A i \in 1 .. n : h[i] = g[i]
    PROVE  Balance(h, a, n) = Balance(g, a, n)
<1> DEFINE d == [i \in 1 .. n |-> IF h[i].idx = a THEN Moves(h[i]) ELSE 0]
           e == [i \in 1 .. n |-> IF g[i].idx = a THEN Moves(g[i]) ELSE 0]
<1>1. \A i \in 1 .. n : d[i] = e[i]
  OBVIOUS
<1>2. Balance(h, a, n) = Total(d, n) /\ Balance(g, a, n) = Total(e, n)
  BY DEF Balance
<1> HIDE DEF d, e
<1> QED BY <1>1, <1>2, TotalAgrees

LEMMA BalanceType ==
    ASSUME NEW h \in Seq(Events), NEW a
    PROVE  Balance(h, a, Len(h)) \in Int
<1> DEFINE n == Len(h)
           d == [i \in 1 .. n |-> IF h[i].idx = a THEN Moves(h[i]) ELSE 0]
<1>1. n \in Nat /\ \A i \in 1 .. n : h[i] \in Events
  OBVIOUS
<1> HIDE DEF n
<1>2. \A i \in 1 .. n : d[i] \in Int
  <2>1. \A x \in Amounts : x \in Nat
    BY AmountsAssumption, Zenon
  <2>2. \A i \in 1 .. n : h[i].amount \in Int
    BY <1>1, <2>1 DEF Events
  <2> QED BY <2>2 DEF Moves
<1>3. Balance(h, a, n) = Total(d, n)
  BY DEF Balance
<1> HIDE DEF d
<1> QED BY <1>1, <1>2, <1>3, TotalType DEF n

LEMMA NetNext ==
    ASSUME NEW h, NEW n \in Nat
    PROVE  Net(h, 0) = 0 /\ Net(h, n + 1) = Net(h, n) + Moves(h[n + 1])
<1> DEFINE d(k) == [i \in 1 .. k |-> Moves(h[i])]
<1>1. Net(h, 0) = 0
  BY TotalZero DEF Net
<1>2. n + 1 \in 1 .. n + 1 /\ \A i \in 1 .. n : i \in 1 .. n + 1
  OBVIOUS
<1>3. d(n + 1)[n + 1] = Moves(h[n + 1])
  BY <1>2
<1>4. \A i \in 1 .. n : d(n + 1)[i] = d(n)[i]
  BY <1>2
<1>5. Net(h, n + 1) = Total(d(n + 1), n + 1) /\ Net(h, n) = Total(d(n), n)
  BY DEF Net
<1> HIDE DEF d
<1>6. Total(d(n + 1), n) = Total(d(n), n)
  BY <1>4, TotalAgrees
<1>7. Total(d(n + 1), n + 1) = Total(d(n + 1), n) + d(n + 1)[n + 1]
  BY TotalNext
<1> QED BY <1>1, <1>3, <1>5, <1>6, <1>7

LEMMA NetAgrees ==
    ASSUME NEW h, NEW g, NEW n \in Nat, \A i \in 1 .. n : h[i] = g[i]
    PROVE  Net(h, n) = Net(g, n)
<1> DEFINE d == [i \in 1 .. n |-> Moves(h[i])]
           e == [i \in 1 .. n |-> Moves(g[i])]
<1>1. \A i \in 1 .. n : d[i] = e[i]
  OBVIOUS
<1>2. Net(h, n) = Total(d, n) /\ Net(g, n) = Total(e, n)
  BY DEF Net
<1> HIDE DEF d, e
<1> QED BY <1>1, <1>2, TotalAgrees

AskedOf(e, name) == IF e.time > 0 /\ accepted[e.time] = name THEN e.amount ELSE 0

LEMMA AskedNext ==
    ASSUME NEW h, NEW name, NEW n \in Nat
    PROVE  /\ Asked(h, name, 0) = 0
           /\ Asked(h, name, n + 1) = Asked(h, name, n) + AskedOf(h[n + 1], name)
<1> DEFINE d(k) == [i \in 1 .. k |-> AskedOf(h[i], name)]
<1>1. Asked(h, name, 0) = 0
  BY TotalZero DEF Asked
<1>2. n + 1 \in 1 .. n + 1 /\ \A i \in 1 .. n : i \in 1 .. n + 1
  OBVIOUS
<1>3. d(n + 1)[n + 1] = AskedOf(h[n + 1], name)
  BY <1>2
<1>4. \A i \in 1 .. n : d(n + 1)[i] = d(n)[i]
  BY <1>2
<1>5. Asked(h, name, n + 1) = Total(d(n + 1), n + 1) /\ Asked(h, name, n) = Total(d(n), n)
  BY DEF Asked, AskedOf
<1> HIDE DEF d
<1>6. Total(d(n + 1), n) = Total(d(n), n)
  BY <1>4, TotalAgrees
<1>7. Total(d(n + 1), n + 1) = Total(d(n + 1), n) + d(n + 1)[n + 1]
  BY TotalNext
<1> QED BY <1>1, <1>3, <1>5, <1>6, <1>7

LEMMA HoldingsUpdated ==
    ASSUME NEW b \in [Indices -> Int], NEW j \in Indices, NEW x \in Int
    PROVE  Holdings([b EXCEPT ![j] = @ + x]) = Holdings(b) + x
<1> DEFINE c == [b EXCEPT ![j] = @ + x]
           d == [i \in 1 .. Accounts |-> b[i - 1]]
           e == [i \in 1 .. Accounts |-> c[i - 1]]
<1>1. /\ Accounts \in Nat /\ j + 1 \in 1 .. Accounts
      /\ \A i \in 1 .. Accounts : i - 1 \in Indices /\ (i - 1 = j <=> i = j + 1)
  BY AccountsAssumption DEF Indices
<1>2. c \in [Indices -> Int] /\ c[j] = b[j] + x /\ \A i \in Indices : i # j => c[i] = b[i]
  OBVIOUS
<1> HIDE DEF c
<1>3. ASSUME NEW i \in 1 .. Accounts
      PROVE  d[i] \in Int /\ e[i] = IF i = j + 1 THEN d[i] + x ELSE d[i]
  BY <1>1, <1>2
<1>4. Holdings(c) = Total(e, Accounts) /\ Holdings(b) = Total(d, Accounts)
  BY DEF Holdings
<1> HIDE DEF d, e
<1> DEFINE k == j + 1  n == Accounts
<1>5. /\ n \in Nat /\ k \in 1 .. n
      /\ \A i \in 1 .. n : d[i] \in Int
      /\ \A i \in 1 .. n : e[i] = IF i = k THEN d[i] + x ELSE d[i]
  BY <1>1, <1>3
<1> HIDE DEF k, n
<1>6. Total(e, n) = Total(d, n) + x
  BY <1>5, TotalUpdated
<1> QED BY <1>4, <1>6 DEF c, n

LEMMA HoldingsZero == Holdings([i \in Indices |-> 0]) = 0
<1> DEFINE d == [i \in 1 .. Accounts |-> [j \in Indices |-> 0][i - 1]]
           S == {i \in 0 .. Accounts : Total(d, i) = 0}
<1>0. Accounts \in Nat
  BY AccountsAssumption
<1>1. 0 \in S
  BY <1>0, TotalZero
<1>2. ASSUME NEW i \in 0 .. Accounts - 1, i \in S PROVE i + 1 \in S
  <2>1. i \in Nat /\ i + 1 \in 1 .. Accounts /\ i + 1 \in 0 .. Accounts /\ (i + 1) - 1 \in Indices
    BY <1>0 DEF Indices
  <2>2. d[i + 1] = 0
    BY <2>1
  <2> HIDE DEF d
  <2>3. Total(d, i + 1) = Total(d, i) + d[i + 1]
    BY <2>1, TotalNext
  <2> QED BY <1>2, <2>1, <2>2, <2>3
<1>3. Holdings([i \in Indices |-> 0]) = Total(d, Accounts)
  BY DEF Holdings
<1> HIDE DEF S, d
<1>4. \A i \in 0 .. Accounts : i \in S
  BY <1>0, <1>1, <1>2, Numbers!HoldsAll
<1>5. Accounts \in S
  BY <1>0, <1>4
<1> QED BY <1>3, <1>5 DEF S

-----------------------------------------------------------------------------
(***************************************************************************)
(* Cycle.apply of a batch, event by event.                                 *)
(***************************************************************************)
Applied(f, c, events, n) ==
    f = [i \in 0 .. n |-> IF i = 0 THEN c ELSE ApplyNext(f[i - 1], events[i])]

LEMMA AppliedExists ==
    ASSUME NEW c, NEW events, NEW n \in Nat
    PROVE  \E f : Applied(f, c, events, n)
<1> DEFINE S == {k \in Nat : \E f : Applied(f, c, events, k)}
<1>1. 0 \in S
  <2>1. Applied([i \in 0 .. 0 |-> c], c, events, 0)
    BY DEF Applied
  <2> QED BY <2>1
<1>2. ASSUME NEW k \in 0 .. n - 1, k \in S PROVE k + 1 \in S
  <2>1. PICK f : Applied(f, c, events, k)
    BY <1>2
  <2> DEFINE g == [i \in 0 .. k + 1 |->
                      IF i = k + 1 THEN ApplyNext(f[k], events[k + 1]) ELSE f[i]]
  <2>2. ASSUME NEW i \in 0 .. k + 1
        PROVE  g[i] = IF i = 0 THEN c ELSE ApplyNext(g[i - 1], events[i])
    <3>1. CASE i = k + 1
      <4>1. g[i] = ApplyNext(f[k], events[k + 1]) /\ g[k] = f[k] /\ i - 1 = k /\ i # 0
        BY <3>1
      <4> QED BY <3>1, <4>1
    <3>2. CASE i # k + 1
      <4>1. i \in 0 .. k /\ g[i] = f[i] /\ (i # 0 => i - 1 \in 0 .. k /\ g[i - 1] = f[i - 1])
        BY <3>2
      <4>2. f[i] = IF i = 0 THEN c ELSE ApplyNext(f[i - 1], events[i])
        BY <2>1, <4>1 DEF Applied
      <4> QED BY <4>1, <4>2
    <3> QED BY <3>1, <3>2
  <2>3. g = [i \in 0 .. k + 1 |-> IF i = 0 THEN c ELSE ApplyNext(g[i - 1], events[i])]
    BY <2>2
  <2>4. Applied(g, c, events, k + 1)
    BY <2>3 DEF Applied
  <2>5. \E h : Applied(h, c, events, k + 1)
    BY <2>4
  <2> QED BY <2>5
<1> HIDE DEF S
<1>3. \A k \in 0 .. n : k \in S
  BY <1>1, <1>2, Numbers!HoldsAll
<1>4. n \in S
  BY <1>3
<1> QED BY <1>4 DEF S

LEMMA ApplyAllIs ==
    ASSUME NEW c, NEW events, Len(events) \in Nat
    PROVE  \E f : Applied(f, c, events, Len(events)) /\ ApplyAll(c, events) = f[Len(events)]
<1> DEFINE f == CHOOSE f : Applied(f, c, events, Len(events))
<1>1. Applied(f, c, events, Len(events))
  BY AppliedExists
<1>2. ApplyAll(c, events) = f[Len(events)]
  BY DEF ApplyAll, Applied
<1> HIDE DEF f
<1> QED BY <1>1, <1>2

(***************************************************************************)
(* A cycle that is the fold of the first events of a history: the types of *)
(* its parts; its chain, that lists those events and ends with the digest  *)
(* of its projection; its balances; and, when it is poisoned, the event    *)
(* that it refused.                                                        *)
(***************************************************************************)
Projections == [Indices -> Int]
Digests == Projections \X Nat
Chains ==
    [digest : Seq(Events \X Digests), steps : Nat, lastChange : Nat,
     last : Digests \cup {<<>>}]
Cycles == [balances : Projections, applied : Nat, poison : BOOLEAN, chain : Chains]

Chained(c, h) ==
    LET n == c.chain.steps IN
    /\ n = Len(c.chain.digest) /\ n <= Len(h) /\ c.applied = n
    /\ c.chain.lastChange = n
    /\ c.chain.last = IF n = 0 THEN <<>> ELSE Digest(c)
    /\ n > 0 => c.chain.digest[n][2] = Digest(c)
    /\ \A i \in 1 .. n : c.chain.digest[i][1] = h[i] /\ ~Refuses(h[i])
    /\ \A i \in 2 .. n :
        h[i].amount # 0 => c.chain.digest[i][2][1] # c.chain.digest[i - 1][2][1]

Projected(c, h) ==
    LET n == c.chain.steps IN
    /\ \A a \in Indices : c.balances[a] = Balance(h, a, n)
    /\ Holdings(c.balances) = Net(h, n)

Describes(c, h) ==
    /\ c \in Cycles
    /\ Chained(c, h) /\ Projected(c, h)
    /\ c.poison => c.chain.steps < Len(h) /\ Refuses(h[c.chain.steps + 1])

LEMMA NewCycleDescribes ==
    ASSUME NEW h \in Seq(Events)
    PROVE  Describes(NewCycle, h) /\ ~NewCycle.poison /\ NewCycle.chain.steps = 0
<1> DEFINE b == [i \in Indices |-> 0]
<1>0. /\ NewCycle.balances = b /\ NewCycle.applied = 0 /\ NewCycle.poison = FALSE
      /\ NewCycle.chain = [digest |-> <<>>, steps |-> 0, lastChange |-> 0, last |-> <<>>]
      /\ b \in Projections
  BY DEF NewCycle, Projections
<1>1. NewCycle \in Cycles
  <2>1. <<>> \in Seq(Events \X Digests)
    OBVIOUS
  <2> HIDE DEF b
  <2>2. NewCycle.chain \in Chains
    BY <1>0, <2>1 DEF Chains
  <2> QED BY <1>0, <2>2 DEF Cycles, NewCycle
<1>2. Chained(NewCycle, h)
  <2>1. Len(h) \in Nat /\ Len(<<>>) = 0
    OBVIOUS
  <2> QED BY <1>0, <2>1 DEF Chained
<1>3. Projected(NewCycle, h)
  <2>1. \A a \in Indices : b[a] = 0
    OBVIOUS
  <2>2. Holdings(b) = 0
    BY HoldingsZero
  <2>3. \A a \in Indices : Balance(h, a, 0) = 0
    <3>1. 0 \in Nat
      OBVIOUS
    <3> QED BY <3>1, BalanceNext
  <2>4. Net(h, 0) = 0
    <3>1. 0 \in Nat
      OBVIOUS
    <3> QED BY <3>1, NetNext
  <2> HIDE DEF b
  <2> QED BY <1>0, <2>1, <2>2, <2>3, <2>4 DEF Projected
<1> QED BY <1>0, <1>1, <1>2, <1>3 DEF Describes

(***************************************************************************)
(* It describes every history that begins alike.                           *)
(***************************************************************************)
LEMMA DescribesLonger ==
    ASSUME NEW g \in Seq(Events), NEW h \in Seq(Events), NEW c, Describes(c, g),
           Len(g) <= Len(h), \A i \in 1 .. Len(g) : g[i] = h[i]
    PROVE  Describes(c, h)
<1> DEFINE n == c.chain.steps
<1>1. n \in Nat /\ n <= Len(g) /\ Len(g) \in Nat /\ Len(h) \in Nat
  BY DEF Describes, Cycles, Chains, Chained
<1>2. \A i \in 1 .. n : g[i] = h[i]
  BY <1>1
<1>3. Projected(c, h)
  <2>1. \A a \in Indices : Balance(g, a, n) = Balance(h, a, n)
    BY <1>1, <1>2, BalanceAgrees
  <2>2. Net(g, n) = Net(h, n)
    BY <1>1, <1>2, NetAgrees
  <2> QED BY <2>1, <2>2 DEF Describes, Projected
<1>4. Chained(c, h)
  <2>1. Chained(c, g) /\ n <= Len(h)
    BY <1>1 DEF Describes
  <2>2. \A i \in 2 .. n : g[i] = h[i]
    BY <1>1, <1>2
  <2> QED BY <1>1, <1>2, <2>1, <2>2 DEF Chained
<1>5. c.poison => n < Len(h) /\ Refuses(h[n + 1])
  <2>1. c.poison => n < Len(g) /\ Refuses(g[n + 1])
    BY DEF Describes
  <2>2. n < Len(g) => n < Len(h) /\ g[n + 1] = h[n + 1]
    BY <1>1
  <2> QED BY <2>1, <2>2
<1> QED BY <1>3, <1>4, <1>5 DEF Describes

(***************************************************************************)
(* The projection after one event that the ledger does not refuse.         *)
(***************************************************************************)
LEMMA ApplyFacts ==
    ASSUME NEW c \in Cycles, NEW e \in Events, ~Refuses(e)
    PROVE  /\ Apply(c, e) \in Cycles
           /\ Apply(c, e).balances = [c.balances EXCEPT ![e.idx] = @ + Moves(e)]
           /\ Apply(c, e).applied = c.applied + 1
           /\ Apply(c, e).chain = c.chain /\ Apply(c, e).poison = c.poison
           /\ Moves(e) \in Int /\ e.idx \in Indices /\ c.balances \in [Indices -> Int]
           /\ e.amount # 0 => Moves(e) # 0
<1>1. e.idx \in Indices /\ e.op \in {"credit", "debit"} /\ e.amount \in Nat
  <2>1. e.amount \in Amounts \cup {0}
    BY DEF Events
  <2>2. e.amount \in Nat
    <3>1. \A x \in Amounts : x \in Nat
      BY AmountsAssumption, Zenon
    <3> QED BY <2>1, <3>1
  <2>3. e.idx \in Indices /\ e.op \in {"credit", "debit"}
    BY DEF Refuses
  <2> QED BY <2>2, <2>3
<1>2. /\ Moves(e) = IF e.op = "credit" THEN e.amount ELSE -e.amount
      /\ Moves(e) \in Int /\ (e.amount # 0 => Moves(e) # 0)
  BY <1>1 DEF Moves
<1>3. c.balances \in [Indices -> Int] /\ c.applied \in Nat
  BY DEF Cycles, Projections
<1> DEFINE b == [c.balances EXCEPT ![e.idx] =
                    IF e.op = "credit" THEN @ + e.amount ELSE @ - e.amount]
<1>4. b = [c.balances EXCEPT ![e.idx] = @ + Moves(e)] /\ b \in Projections
  <2>1. c.balances[e.idx] \in Int
    BY <1>1, <1>3
  <2>2. (IF e.op = "credit" THEN c.balances[e.idx] + e.amount ELSE c.balances[e.idx] - e.amount)
          = c.balances[e.idx] + Moves(e)
    BY <1>1, <1>2, <2>1
  <2>3. c.balances[e.idx] + Moves(e) \in Int
    BY <1>2, <2>1
  <2> QED BY <1>1, <1>3, <2>2, <2>3 DEF Projections
<1>5. Apply(c, e) = [c EXCEPT !.balances = b, !.applied = @ + 1]
  BY DEF Apply
<1> HIDE DEF b
<1>6. /\ Apply(c, e) \in Cycles
      /\ Apply(c, e).balances = b /\ Apply(c, e).applied = c.applied + 1
      /\ Apply(c, e).chain = c.chain /\ Apply(c, e).poison = c.poison
  <2>1. c.chain \in Chains /\ c.poison \in BOOLEAN /\ c.applied + 1 \in Nat
    BY <1>3 DEF Cycles
  <2>2. c = [balances |-> c.balances, applied |-> c.applied, poison |-> c.poison,
             chain |-> c.chain]
    BY DEF Cycles
  <2>3. Apply(c, e) = [balances |-> b, applied |-> c.applied + 1, poison |-> c.poison,
                       chain |-> c.chain]
    BY <1>5, <2>2
  <2> QED BY <1>4, <2>1, <2>3 DEF Cycles
<1> QED BY <1>1, <1>2, <1>3, <1>4, <1>6

(***************************************************************************)
(* The chain after one event.  The digest counts the events, so it differs *)
(* from the last one, and the balances differ when the event moves some.   *)
(***************************************************************************)
LEMMA AdvanceFacts ==
    ASSUME NEW c \in Cycles, NEW e \in Events, ~Refuses(e),
           NEW r, r = [Apply(c, e) EXCEPT !.chain = Advance(@, e, Digest(Apply(c, e)))]
    PROVE  /\ r \in Cycles /\ r.balances = [c.balances EXCEPT ![e.idx] = @ + Moves(e)]
           /\ r.applied = c.applied + 1 /\ r.poison = c.poison
           /\ r.chain.digest = Append(c.chain.digest, <<e, Digest(r)>>)
           /\ r.chain.steps = c.chain.steps + 1
           /\ r.chain.lastChange =
                IF Digest(r) # c.chain.last THEN c.chain.steps + 1 ELSE c.chain.lastChange
           /\ r.chain.last = Digest(r)
           /\ Digest(r) \in Digests
<1> DEFINE d == Apply(c, e)  ch == Advance(c.chain, e, Digest(d))
<1>1. /\ d \in Cycles /\ d.balances = [c.balances EXCEPT ![e.idx] = @ + Moves(e)]
      /\ d.applied = c.applied + 1 /\ d.chain = c.chain /\ d.poison = c.poison
  BY ApplyFacts
<1>2. Digest(d) \in Digests
  <2>1. d.balances \in Projections /\ d.applied \in Nat
    BY <1>1 DEF Cycles
  <2> QED BY <2>1 DEF Digest, Digests
<1>3. r = [d EXCEPT !.chain = ch]
  BY <1>1
<1>4. /\ ch.digest = Append(c.chain.digest, <<e, Digest(d)>>)
      /\ ch.steps = c.chain.steps + 1 /\ ch.last = Digest(d)
      /\ ch.lastChange = IF Digest(d) # c.chain.last THEN c.chain.steps + 1 ELSE c.chain.lastChange
  BY DEF Advance
<1>5. ch \in Chains
  <2>1. c.chain \in Chains
    BY DEF Cycles
  <2>2. c.chain.digest \in Seq(Events \X Digests) /\ c.chain.steps \in Nat /\ c.chain.lastChange \in Nat
    BY <2>1 DEF Chains
  <2>3. <<e, Digest(d)>> \in Events \X Digests
    BY <1>2
  <2>4. Append(c.chain.digest, <<e, Digest(d)>>) \in Seq(Events \X Digests)
    BY <2>2, <2>3
  <2>5. ch = [digest |-> Append(c.chain.digest, <<e, Digest(d)>>), steps |-> c.chain.steps + 1,
              lastChange |-> ch.lastChange, last |-> Digest(d)]
    BY DEF Advance
  <2>6. ch.lastChange \in Nat /\ c.chain.steps + 1 \in Nat
    BY <1>4, <2>2
  <2> DEFINE D == Append(c.chain.digest, <<e, Digest(d)>>)
             k == c.chain.steps + 1  l == ch.lastChange  x == Digest(d)
  <2>7. D \in Seq(Events \X Digests) /\ k \in Nat /\ l \in Nat /\ x \in Digests \cup {<<>>}
    BY <1>2, <2>4, <2>6
  <2>8. ch = [digest |-> D, steps |-> k, lastChange |-> l, last |-> x]
    BY <2>5
  <2> HIDE DEF d, ch, D, k, l, x
  <2> QED BY <2>7, <2>8 DEF Chains
<1> HIDE DEF d, ch
<1>6. /\ r \in Cycles /\ r.balances = d.balances /\ r.applied = d.applied /\ r.poison = d.poison
      /\ r.chain = ch
  BY <1>1, <1>3, <1>5 DEF Cycles
<1>7. Digest(r) = Digest(d)
  BY <1>6 DEF Digest
<1> QED BY <1>1, <1>2, <1>4, <1>6, <1>7

LEMMA ApplyNextFacts ==
    ASSUME NEW h \in Seq(Events), NEW c, Describes(c, h), ~c.poison,
           c.chain.steps < Len(h),
           NEW r, r = ApplyNext(c, h[c.chain.steps + 1])
    PROVE  /\ Describes(r, h)
           /\ r.poison => r.chain.steps = c.chain.steps
           /\ ~r.poison => r.chain.steps = c.chain.steps + 1
<1> DEFINE n == c.chain.steps  e == h[n + 1]
<1>1. /\ c \in Cycles /\ n \in Nat /\ Len(h) \in Nat /\ n + 1 \in 1 .. Len(h)
      /\ e \in Events /\ c.chain.digest \in Seq(Events \X Digests)
      /\ n = Len(c.chain.digest) /\ c.applied = n
  <2>1. c \in Cycles /\ c.chain \in Chains
    BY DEF Describes, Cycles
  <2>2. n \in Nat /\ Len(h) \in Nat /\ c.chain.digest \in Seq(Events \X Digests)
    BY <2>1 DEF Chains
  <2>3. n = Len(c.chain.digest) /\ c.applied = n
    BY DEF Describes, Chained
  <2>4. n + 1 \in 1 .. Len(h)
    BY <2>2
  <2> QED BY <2>1, <2>2, <2>3, <2>4
<1>0. n = c.chain.steps /\ e = h[n + 1] /\ r = ApplyNext(c, e)
  OBVIOUS
<1> HIDE DEF n, e
<1>2. CASE Refuses(e)
  <2>1. r = [c EXCEPT !.poison = TRUE]
    BY <1>0, <1>2 DEF ApplyNext
  <2>2. /\ r \in Cycles /\ r.poison /\ r.chain = c.chain /\ r.balances = c.balances
        /\ r.applied = c.applied
    BY <1>1, <2>1 DEF Cycles
  <2>3. Chained(r, h)
    <3>1. Digest(r) = Digest(c)
      BY <2>2 DEF Digest
    <3>2. Chained(c, h)
      BY DEF Describes
    <3> QED BY <2>2, <3>1, <3>2 DEF Chained
  <2>4. Projected(r, h)
    <3>1. Projected(c, h)
      BY DEF Describes
    <3> QED BY <2>2, <3>1 DEF Projected
  <2> QED BY <1>0, <1>2, <2>2, <2>3, <2>4 DEF Describes
<1>3. CASE ~Refuses(e)
  <2> DEFINE D == c.chain.digest
  <2>1. r = [Apply(c, e) EXCEPT !.chain = Advance(@, e, Digest(Apply(c, e)))]
    BY <1>0, <1>3 DEF ApplyNext
  <2>2. /\ r \in Cycles /\ r.balances = [c.balances EXCEPT ![e.idx] = @ + Moves(e)]
        /\ r.applied = n + 1 /\ r.poison = c.poison
        /\ r.chain.digest = Append(D, <<e, Digest(r)>>)
        /\ r.chain.steps = n + 1
        /\ r.chain.lastChange = IF Digest(r) # c.chain.last THEN n + 1 ELSE c.chain.lastChange
        /\ r.chain.last = Digest(r)
        /\ Digest(r) \in Digests
    <3>1. /\ r \in Cycles /\ r.balances = [c.balances EXCEPT ![e.idx] = @ + Moves(e)]
          /\ r.applied = c.applied + 1 /\ r.poison = c.poison
          /\ r.chain.digest = Append(c.chain.digest, <<e, Digest(r)>>)
          /\ r.chain.steps = c.chain.steps + 1
          /\ r.chain.lastChange =
               IF Digest(r) # c.chain.last THEN c.chain.steps + 1 ELSE c.chain.lastChange
          /\ r.chain.last = Digest(r)
          /\ Digest(r) \in Digests
      BY <1>1, <1>3, <2>1, AdvanceFacts
    <3> QED BY <1>0, <1>1, <3>1
  <2>3. /\ Moves(e) \in Int /\ e.idx \in Indices /\ c.balances \in [Indices -> Int]
        /\ e.amount # 0 => Moves(e) # 0
    BY <1>1, <1>3, ApplyFacts
  <2>4. /\ Len(r.chain.digest) = n + 1
        /\ \A i \in 1 .. n : r.chain.digest[i] = D[i]
        /\ r.chain.digest[n + 1][1] = e /\ r.chain.digest[n + 1][2] = Digest(r)
    <3> DEFINE x == <<e, Digest(r)>>
    <3>0. x[1] = e /\ x[2] = Digest(r)
      OBVIOUS
    <3>1. x \in Events \X Digests
      BY <1>1, <2>2
    <3> HIDE DEF x
    <3>2. /\ Len(Append(D, x)) = n + 1
          /\ \A i \in 1 .. n : Append(D, x)[i] = D[i]
          /\ Append(D, x)[n + 1] = x
      BY <1>1, <3>1
    <3>3. r.chain.digest = Append(D, x)
      BY <2>2 DEF x
    <3> QED BY <3>0, <3>2, <3>3
  <2>5. c.chain.last = IF n = 0 THEN <<>> ELSE Digest(c)
    BY <1>0 DEF Describes, Chained
  <2>6. Digest(r) # c.chain.last
    <3>1. Digest(r)[2] = n + 1 /\ Digest(c)[2] = n
      BY <1>1, <2>2 DEF Digest
    <3>2. <<>> # Digest(r)
      BY <2>2 DEF Digest
    <3> QED BY <1>1, <2>5, <3>1, <3>2
  <2>7. r.chain.lastChange = n + 1
    BY <2>2, <2>6
  <2>8. \A i \in 1 .. n + 1 : r.chain.digest[i][1] = h[i] /\ ~Refuses(h[i])
    <3>1. \A i \in 1 .. n : D[i][1] = h[i] /\ ~Refuses(h[i])
      BY <1>0 DEF Describes, Chained
    <3>2. \A i \in 1 .. n + 1 : i \in 1 .. n \/ i = n + 1
      BY <1>1
    <3>3. r.chain.digest[n + 1][1] = h[n + 1]
      BY <1>0, <2>4
    <3> QED BY <1>0, <1>3, <2>4, <3>1, <3>2, <3>3
  <2>9. ASSUME NEW i \in 2 .. n + 1, h[i].amount # 0
        PROVE  r.chain.digest[i][2][1] # r.chain.digest[i - 1][2][1]
    <3>1. CASE i \in 2 .. n
      <4>1. D[i][2][1] # D[i - 1][2][1]
        BY <1>0, <2>9, <3>1 DEF Describes, Chained
      <4>2. i \in 1 .. n /\ i - 1 \in 1 .. n
        BY <1>1, <3>1
      <4> QED BY <2>4, <4>1, <4>2
    <3>2. CASE i = n + 1
      <4>1. n > 0 /\ n \in 1 .. n /\ i - 1 = n
        BY <1>1, <3>2
      <4>2. D[n][2] = Digest(c)
        BY <1>0, <4>1 DEF Describes, Chained
      <4>3. r.chain.digest[i][2][1] = r.balances /\ r.chain.digest[i - 1][2][1] = c.balances
        <5>1. r.chain.digest[i][2] = Digest(r)
          BY <2>4, <3>2
        <5>2. r.chain.digest[i - 1][2] = Digest(c)
          BY <2>4, <4>1, <4>2
        <5>3. Digest(r)[1] = r.balances /\ Digest(c)[1] = c.balances
          BY DEF Digest
        <5> QED BY <5>1, <5>2, <5>3
      <4>4. r.balances[e.idx] = c.balances[e.idx] + Moves(e) /\ c.balances[e.idx] \in Int
        BY <2>2, <2>3
      <4>5. Moves(e) # 0
        BY <1>0, <2>3, <2>9, <3>2
      <4>6. r.balances[e.idx] # c.balances[e.idx]
        BY <2>3, <4>4, <4>5
      <4> QED BY <4>3, <4>6
    <3>3. i \in 2 .. n \/ i = n + 1
      BY <1>1
    <3> QED BY <3>1, <3>2, <3>3
  <2>10. Chained(r, h)
    <3>1. n + 1 <= Len(h) /\ n + 1 # 0
      BY <1>1
    <3>2. r.chain.digest[n + 1][2] = Digest(r)
      BY <2>4
    <3> HIDE DEF D
    <3> QED BY <2>2, <2>4, <2>7, <2>8, <2>9, <3>1, <3>2 DEF Chained
  <2>11. Projected(r, h)
    <3>1. ASSUME NEW a \in Indices
          PROVE  r.balances[a] = Balance(h, a, n + 1)
      <4>1. Balance(h, a, n + 1) = Balance(h, a, n) + (IF e.idx = a THEN Moves(e) ELSE 0)
        <5>1. /\ Balance(h, a, n + 1) = Balance(h, a, n)
                    + (IF h[n + 1].idx = a THEN Moves(h[n + 1]) ELSE 0)
          BY <1>1, BalanceNext
        <5> QED BY <1>0, <5>1
      <4>2. c.balances[a] = Balance(h, a, n) /\ c.balances[a] \in Int
        BY <1>0, <2>3 DEF Describes, Projected
      <4>3. r.balances[a] = IF e.idx = a THEN c.balances[a] + Moves(e) ELSE c.balances[a]
        BY <2>2, <2>3
      <4> QED BY <2>3, <4>1, <4>2, <4>3
    <3>2. Holdings(r.balances) = Holdings(c.balances) + Moves(e)
      <4> DEFINE b == c.balances  j == e.idx  x == Moves(e)
      <4>1. b \in [Indices -> Int] /\ j \in Indices /\ x \in Int
        BY <2>3
      <4>2. r.balances = [b EXCEPT ![j] = @ + x]
        BY <2>2
      <4> HIDE DEF b, j, x
      <4>3. Holdings([b EXCEPT ![j] = @ + x]) = Holdings(b) + x
        BY <4>1, HoldingsUpdated
      <4>4. Holdings(r.balances) = Holdings(b) + x
        BY <4>2, <4>3
      <4> QED BY <4>4 DEF b, x
    <3>3. Net(h, n + 1) = Net(h, n) + Moves(e)
      <4>1. Net(h, n + 1) = Net(h, n) + Moves(h[n + 1])
        BY <1>1, NetNext
      <4> QED BY <1>0, <4>1
    <3>4. Holdings(c.balances) = Net(h, n)
      BY <1>0 DEF Describes, Projected
    <3> QED BY <2>2, <3>1, <3>2, <3>3, <3>4 DEF Projected
  <2>12. ~r.poison
    BY <2>2
  <2> QED BY <1>0, <2>2, <2>10, <2>11, <2>12 DEF Describes
<1> QED BY <1>2, <1>3

(***************************************************************************)
(* The cycle after a batch of the next events of the history.              *)
(***************************************************************************)
LEMMA ApplyAllFacts ==
    ASSUME NEW h \in Seq(Events), NEW batch \in Seq(Events), NEW c, Describes(c, h), ~c.poison,
           c.chain.steps + Len(batch) <= Len(h),
           \A i \in 1 .. Len(batch) : batch[i] = h[c.chain.steps + i],
           NEW r, r = ApplyAll(c, batch)
    PROVE  /\ Describes(r, h)
           /\ r.poison => r.chain.steps \in c.chain.steps .. Len(h)
           /\ ~r.poison => r.chain.steps = c.chain.steps + Len(batch)
<1> DEFINE n == c.chain.steps  m == Len(batch)
<1>1. n \in Nat /\ m \in Nat /\ Len(h) \in Nat /\ n + m <= Len(h)
  BY DEF Describes, Cycles, Chains
<1>2. PICK f : Applied(f, c, batch, m) /\ r = f[m]
  BY <1>1, ApplyAllIs
<1>0. n = c.chain.steps /\ m = Len(batch) /\ \A i \in 1 .. m : batch[i] = h[n + i]
  OBVIOUS
<1> HIDE DEF n, m
<1> DEFINE P(i) == /\ Describes(f[i], h)
                   /\ f[i].poison => f[i].chain.steps \in n .. n + i
                   /\ ~f[i].poison => f[i].chain.steps = n + i
           S == {i \in 0 .. m : P(i)}
<1>3. 0 \in S
  <2>1. f[0] = c
    BY <1>1, <1>2 DEF Applied
  <2> QED BY <1>0, <1>1, <2>1
<1>4. ASSUME NEW i \in 0 .. m - 1, i \in S PROVE i + 1 \in S
  <2>1. /\ i \in Nat /\ i + 1 \in 0 .. m /\ i + 1 \in 1 .. m /\ i + 1 # 0 /\ (i + 1) - 1 = i
        /\ n + (i + 1) <= Len(h) /\ n + (i + 1) = (n + i) + 1 /\ n + i < Len(h)
    BY <1>1
  <2>2. f[i + 1] = ApplyNext(f[i], batch[i + 1])
    BY <1>2, <2>1 DEF Applied
  <2>3. P(i)
    BY <1>4
  <2>4. CASE f[i].poison
    <3>1. f[i + 1] = f[i]
      BY <2>2, <2>4 DEF ApplyNext
    <3>2. n .. n + i \subseteq n .. n + (i + 1)
      BY <1>1, <2>1
    <3>3. P(i + 1)
      BY <2>3, <2>4, <3>1, <3>2
    <3> QED BY <2>1, <3>3
  <2>5. CASE ~f[i].poison
    <3>1. f[i].chain.steps = n + i /\ batch[i + 1] = h[n + (i + 1)]
      BY <1>0, <2>1, <2>3, <2>5
    <3>2. batch[i + 1] = h[f[i].chain.steps + 1] /\ f[i].chain.steps < Len(h)
      BY <2>1, <3>1
    <3>3. f[i + 1] = ApplyNext(f[i], h[f[i].chain.steps + 1])
      BY <2>2, <3>2
    <3> DEFINE g == f[i]  q == f[i + 1]
    <3>4. Describes(g, h) /\ ~g.poison /\ g.chain.steps < Len(h)
          /\ q = ApplyNext(g, h[g.chain.steps + 1])
      BY <2>3, <2>5, <3>2, <3>3
    <3> HIDE DEF g, q
    <3>5. /\ Describes(q, h)
          /\ q.poison => q.chain.steps = g.chain.steps
          /\ ~q.poison => q.chain.steps = g.chain.steps + 1
      BY <3>4, ApplyNextFacts
    <3>6. P(i + 1)
      <4>1. /\ Describes(f[i + 1], h)
            /\ f[i + 1].poison => f[i + 1].chain.steps = n + i
            /\ ~f[i + 1].poison => f[i + 1].chain.steps = (n + i) + 1
        BY <3>1, <3>5 DEF g, q
      <4>2. n + i \in n .. n + (i + 1)
        BY <1>1, <2>1
      <4> QED BY <2>1, <4>1, <4>2
    <3> QED BY <2>1, <3>6
  <2> QED BY <2>4, <2>5
<1> HIDE DEF S
<1>5. \A i \in 0 .. m : i \in S
  BY <1>1, <1>3, <1>4, Numbers!HoldsAll
<1>6. m \in S
  BY <1>1, <1>5
<1>7. P(m)
  BY <1>6 DEF S
<1>8. n .. n + m \subseteq n .. Len(h)
  BY <1>1
<1> QED BY <1>0, <1>2, <1>7, <1>8

-----------------------------------------------------------------------------
(***************************************************************************)
(* The inductive invariant.  The cycle is the fold of its history; and the *)
(* history itself is one that the decider and crashes can leave: events of *)
(* accepted commands or foreign ones, the credit of a transfer right       *)
(* behind its debit, and no prefix that overdraws an account.  A crash may *)
(* cut it anywhere, so each of these must hold of every prefix.            *)
(***************************************************************************)
FromCommand(e, acc, now) ==
    /\ e.op \in {"credit", "debit"} /\ e.idx \in Indices /\ e.amount \in Amounts
    /\ e.time \in 1 .. now /\ acc[e.time] \in {e.op, "transfer"}

Formed(h, acc, now) ==
    \A i \in 1 .. Len(h) : h[i] = Foreign \/ FromCommand(h[i], acc, now)

PairedAt(h, acc, i) ==
    h[i].op = "credit" /\ acc[h[i].time] = "transfer" =>
        /\ i > 1 /\ h[i - 1].op = "debit"
        /\ h[i - 1].time = h[i].time /\ h[i - 1].amount = h[i].amount

Paired(h, acc) == \A i \in 1 .. Len(h) : PairedAt(h, acc, i)

Positive(h) == \A n \in 0 .. Len(h) : \A a \in Indices : Balance(h, a, n) >= 0

Sound(h, acc, now) == Formed(h, acc, now) /\ Paired(h, acc) /\ Positive(h)

InvTypes ==
    /\ log \in Seq(Events) /\ pending \in Seq(Events)
    /\ pos \in 0 .. Len(log) /\ safe \in 0 .. Len(log)
    /\ clock \in 0 .. MaxCommands /\ restarts \in 0 .. MaxRestarts
    /\ accepted \in [1 .. MaxCommands -> CommandNames \cup {"none"}]

InvPlace ==
    /\ ~cycle.poison => cycle.chain.steps = pos + Len(pending)
    /\ pending # <<>> => pos = Len(log) /\ ~cycle.poison

Inv ==
    /\ InvTypes /\ InvPlace
    /\ Describes(cycle, History) /\ Sound(History, accepted, clock)

LEMMA ConcatFacts ==
    ASSUME NEW s \in Seq(Events), NEW t \in Seq(Events)
    PROVE  /\ s \o t \in Seq(Events)
           /\ Len(s \o t) = Len(s) + Len(t) /\ Len(s) \in Nat /\ Len(t) \in Nat
           /\ \A j \in 1 .. Len(s) : (s \o t)[j] = s[j]
           /\ \A j \in Len(s) + 1 .. Len(s) + Len(t) : (s \o t)[j] = t[j - Len(s)]
           /\ \A j \in 1 .. Len(t) : (s \o t)[Len(s) + j] = t[j]
<1>1. Len(s) \in Nat /\ Len(t) \in Nat
  OBVIOUS
<1> QED BY <1>1

(***************************************************************************)
(* A sequence with nothing behind it is itself.                            *)
(***************************************************************************)
LEMMA ConcatEmpty ==
    ASSUME NEW s \in Seq(Events)
    PROVE  s \o <<>> = s /\ <<>> \in Seq(Events)
OBVIOUS

LEMMA BatchFacts ==
    ASSUME NEW s \in Seq(Events), NEW p \in Nat, NEW n \in Nat, p + n <= Len(s)
    PROVE  LET b == SubSeq(s, p + 1, p + n) IN
           b \in Seq(Events) /\ Len(b) = n /\ \A i \in 1 .. n : b[i] = s[p + i]
<1>1. /\ Len(s) \in Nat /\ p + 1 \in Nat /\ p + n \in Nat /\ (p + n) - (p + 1) + 1 = n
      /\ \A i \in 1 .. n : p + i \in 1 .. Len(s) /\ (p + 1) + i - 1 = p + i
  OBVIOUS
<1> DEFINE b == SubSeq(s, p + 1, p + n)
<1>2. b = [i \in 1 .. n |-> s[p + i]]
  BY <1>1
<1> HIDE DEF b
<1> QED BY <1>1, <1>2 DEF b

(***************************************************************************)
(* One or two events at the end.                                           *)
(***************************************************************************)
LEMMA ConcatOne ==
    ASSUME NEW s \in Seq(Events), NEW t \in Seq(Events), Len(t) = 1
    PROVE  s \o t = Append(s, t[1])
<1> DEFINE g == Append(s, t[1])
<1>1. t[1] \in Events /\ Len(s) \in Nat
  <2>1. 1 \in 1 .. Len(t) /\ Len(s) \in Nat
    OBVIOUS
  <2> QED BY <2>1, Numbers!ElementOfSeq
<1>2. /\ g \in Seq(Events) /\ Len(g) = Len(s) + 1 /\ g[Len(s) + 1] = t[1]
      /\ \A i \in 1 .. Len(s) : g[i] = s[i]
  BY <1>1
<1>3. /\ s \o t \in Seq(Events) /\ Len(s \o t) = Len(s) + 1 /\ (s \o t)[Len(s) + 1] = t[1]
      /\ \A i \in 1 .. Len(s) : (s \o t)[i] = s[i]
  <2>1. 1 \in 1 .. Len(t)
    OBVIOUS
  <2> QED BY <2>1, ConcatFacts
<1> DEFINE f == s \o t
<1> HIDE DEF f, g
<1>4. Len(f) = Len(g) /\ \A i \in 1 .. Len(f) : f[i] = g[i]
  <2>1. \A i \in 1 .. Len(s) + 1 : i \in 1 .. Len(s) \/ i = Len(s) + 1
    BY <1>1
  <2> QED BY <1>2, <1>3, <2>1 DEF f
<1>5. f = g
  BY <1>2, <1>3, <1>4, Numbers!SeqEqual DEF f
<1> QED BY <1>5 DEF f, g

LEMMA ConcatTwo ==
    ASSUME NEW s \in Seq(Events), NEW t \in Seq(Events), Len(t) = 2
    PROVE  s \o t = Append(Append(s, t[1]), t[2])
<1> DEFINE g == Append(Append(s, t[1]), t[2])
<1>1. t[1] \in Events /\ t[2] \in Events /\ Len(s) \in Nat
  <2>1. 1 \in 1 .. Len(t) /\ 2 \in 1 .. Len(t) /\ Len(s) \in Nat
    OBVIOUS
  <2> QED BY <2>1, Numbers!ElementOfSeq
<1>2. /\ g \in Seq(Events) /\ Len(g) = Len(s) + 2 /\ g[Len(s) + 1] = t[1] /\ g[Len(s) + 2] = t[2]
      /\ \A i \in 1 .. Len(s) : g[i] = s[i]
  <2> DEFINE a == Append(s, t[1])
  <2>1. /\ a \in Seq(Events) /\ Len(a) = Len(s) + 1 /\ a[Len(s) + 1] = t[1]
        /\ \A i \in 1 .. Len(s) : a[i] = s[i]
    BY <1>1
  <2> HIDE DEF a
  <2>2. /\ Append(a, t[2]) \in Seq(Events) /\ Len(Append(a, t[2])) = Len(a) + 1
        /\ Append(a, t[2])[Len(a) + 1] = t[2]
        /\ \A i \in 1 .. Len(a) : Append(a, t[2])[i] = a[i]
    BY <1>1, <2>1
  <2>3. (Len(s) + 1) + 1 = Len(s) + 2 /\ Len(s) + 1 \in 1 .. Len(s) + 1
        /\ \A i \in 1 .. Len(s) : i \in 1 .. Len(s) + 1
    BY <1>1
  <2>4. g = Append(a, t[2])
    BY DEF a
  <2> HIDE DEF g
  <2> QED BY <2>1, <2>2, <2>3, <2>4
<1>3. /\ s \o t \in Seq(Events) /\ Len(s \o t) = Len(s) + 2
      /\ (s \o t)[Len(s) + 1] = t[1] /\ (s \o t)[Len(s) + 2] = t[2]
      /\ \A i \in 1 .. Len(s) : (s \o t)[i] = s[i]
  <2>1. 1 \in 1 .. Len(t) /\ 2 \in 1 .. Len(t)
    OBVIOUS
  <2> QED BY <2>1, ConcatFacts
<1> DEFINE f == s \o t
<1> HIDE DEF f, g
<1>4. Len(f) = Len(g) /\ \A i \in 1 .. Len(f) : f[i] = g[i]
  <2>1. \A i \in 1 .. Len(s) + 2 : i \in 1 .. Len(s) \/ i = Len(s) + 1 \/ i = Len(s) + 2
    BY <1>1
  <2> QED BY <1>2, <1>3, <2>1 DEF f
<1>5. f = g
  BY <1>2, <1>3, <1>4, Numbers!SeqEqual DEF f
<1> QED BY <1>5 DEF f, g

LEMMA ForeignFacts == Foreign \in Events /\ Refuses(Foreign) /\ Moves(Foreign) = 0
<1>1. 0 \in Indices /\ 0 \in 0 .. MaxCommands
  BY AccountsAssumption, CycleBoundsAssumption DEF Indices
<1> QED BY <1>1 DEF Foreign, Events, Refuses, Moves

LEMMA CommandNotRefused ==
    ASSUME NEW e, NEW acc, NEW now, FromCommand(e, acc, now)
    PROVE  ~Refuses(e) /\ e # Foreign
BY DEF FromCommand, Refuses, Foreign

(***************************************************************************)
(* A history stays sound when time goes on, when a crash cuts it, and when *)
(* an event joins it that no account is overdrawn by.                      *)
(***************************************************************************)
LEMMA SoundLater ==
    ASSUME NEW h \in Seq(Events), NEW acc, NEW now \in Nat, Sound(h, acc, now)
    PROVE  Sound(h, acc, now + 1)
<1>1. 1 .. now \subseteq 1 .. now + 1
  OBVIOUS
<1>2. Formed(h, acc, now + 1)
  BY <1>1 DEF Sound, Formed, FromCommand
<1> QED BY <1>2 DEF Sound

LEMMA SoundPrefix ==
    ASSUME NEW h \in Seq(Events), NEW acc, NEW now, Sound(h, acc, now),
           NEW n \in 0 .. Len(h)
    PROVE  Sound(SubSeq(h, 1, n), acc, now)
<1> DEFINE g == SubSeq(h, 1, n)
<1>1. /\ g \in Seq(Events) /\ Len(g) = n /\ \A i \in 1 .. n : g[i] = h[i]
      /\ Len(h) \in Nat /\ n \in Nat /\ n <= Len(h)
  OBVIOUS
<1> HIDE DEF g
<1>2. Formed(g, acc, now)
  <2>1. \A i \in 1 .. n : i \in 1 .. Len(h)
    BY <1>1
  <2> QED BY <1>1, <2>1 DEF Sound, Formed
<1>3. Paired(g, acc)
  <2> SUFFICES ASSUME NEW i \in 1 .. n PROVE PairedAt(g, acc, i)
    BY <1>1 DEF Paired
  <2>1. i \in 1 .. Len(h) /\ g[i] = h[i] /\ (i > 1 => g[i - 1] = h[i - 1])
    BY <1>1
  <2>2. PairedAt(h, acc, i)
    BY <2>1 DEF Sound, Paired
  <2> QED BY <2>1, <2>2 DEF PairedAt
<1>4. Positive(g)
  <2> SUFFICES ASSUME NEW k \in 0 .. n, NEW a \in Indices PROVE Balance(g, a, k) >= 0
    BY <1>1 DEF Positive
  <2>1. k \in Nat /\ k \in 0 .. Len(h) /\ \A i \in 1 .. k : g[i] = h[i]
    BY <1>1
  <2>2. Balance(g, a, k) = Balance(h, a, k)
    BY <2>1, BalanceAgrees
  <2>3. Balance(h, a, k) >= 0
    BY <2>1 DEF Sound, Positive
  <2> QED BY <2>2, <2>3
<1> QED BY <1>2, <1>3, <1>4 DEF Sound, g

LEMMA SoundNext ==
    ASSUME NEW h \in Seq(Events), NEW e \in Events, NEW acc, NEW now \in Nat,
           Sound(h, acc, now),
           NEW bcc, NEW later \in Nat, now <= later, \A t \in 1 .. now : bcc[t] = acc[t],
           e = Foreign \/ FromCommand(e, bcc, later),
           e.op = "credit" /\ bcc[e.time] = "transfer" =>
                /\ Len(h) > 0 /\ h[Len(h)].op = "debit"
                /\ h[Len(h)].time = e.time /\ h[Len(h)].amount = e.amount,
           \A a \in Indices : Balance(h, a, Len(h)) + (IF e.idx = a THEN Moves(e) ELSE 0) >= 0
    PROVE  Sound(Append(h, e), bcc, later)
<1> DEFINE g == Append(h, e)  n == Len(h)
<1>1. /\ g \in Seq(Events) /\ n \in Nat /\ Len(g) = n + 1
      /\ \A i \in 1 .. n : g[i] = h[i]
      /\ g[n + 1] = e
  OBVIOUS
<1>0. /\ n = Len(h)
      /\ e.op = "credit" /\ bcc[e.time] = "transfer" =>
            /\ n > 0 /\ h[n].op = "debit" /\ h[n].time = e.time /\ h[n].amount = e.amount
      /\ \A a \in Indices : Balance(h, a, n) + (IF e.idx = a THEN Moves(e) ELSE 0) >= 0
  OBVIOUS
<1> HIDE DEF g, n
<1>2. ASSUME NEW i \in 1 .. n, h[i] # Foreign
      PROVE  FromCommand(h[i], acc, now) /\ FromCommand(h[i], bcc, later)
             /\ bcc[h[i].time] = acc[h[i].time]
  <2>1. FromCommand(h[i], acc, now)
    BY <1>0, <1>2 DEF Sound, Formed
  <2>2. h[i].time \in 1 .. now /\ 1 .. now \subseteq 1 .. later
    BY <2>1 DEF FromCommand
  <2>3. bcc[h[i].time] = acc[h[i].time]
    BY <2>2
  <2> QED BY <2>1, <2>2, <2>3 DEF FromCommand
<1>3. \A i \in 1 .. n + 1 : i \in 1 .. n \/ i = n + 1
  BY <1>1
<1>4. Formed(g, bcc, later)
  <2> SUFFICES ASSUME NEW i \in 1 .. n + 1
               PROVE  g[i] = Foreign \/ FromCommand(g[i], bcc, later)
    BY <1>1 DEF Formed
  <2> QED BY <1>1, <1>2, <1>3
<1>5. Paired(g, bcc)
  <2> SUFFICES ASSUME NEW i \in 1 .. n + 1 PROVE PairedAt(g, bcc, i)
    BY <1>1 DEF Paired
  <2>1. CASE i \in 1 .. n
    <3>1. g[i] = h[i] /\ (i > 1 => g[i - 1] = h[i - 1])
      BY <1>1, <2>1
    <3>2. PairedAt(h, acc, i)
      BY <1>0, <2>1 DEF Sound, Paired
    <3>3. h[i].op = "credit" => h[i] # Foreign
      BY DEF Foreign
    <3>4. h[i].op = "credit" => bcc[h[i].time] = acc[h[i].time]
      BY <1>2, <2>1, <3>3
    <3> QED BY <3>1, <3>2, <3>4 DEF PairedAt
  <2>2. CASE i = n + 1
    <3>1. g[i] = e /\ (n > 0 => i > 1 /\ i - 1 = n /\ g[i - 1] = h[n])
      BY <1>1, <2>2
    <3> QED BY <1>0, <3>1 DEF PairedAt
  <2> QED BY <1>3, <2>1, <2>2
<1>6. Positive(g)
  <2> SUFFICES ASSUME NEW k \in 0 .. n + 1, NEW a \in Indices PROVE Balance(g, a, k) >= 0
    BY <1>1 DEF Positive
  <2>1. CASE k \in 0 .. n
    <3>1. k \in Nat /\ \A i \in 1 .. k : g[i] = h[i]
      BY <1>1, <2>1
    <3>2. Balance(g, a, k) = Balance(h, a, k)
      BY <3>1, BalanceAgrees
    <3>3. Balance(h, a, k) >= 0
      BY <1>0, <2>1 DEF Sound, Positive
    <3> QED BY <3>2, <3>3
  <2>2. CASE k = n + 1
    <3>1. Balance(g, a, n + 1) =
            Balance(g, a, n) + (IF g[n + 1].idx = a THEN Moves(g[n + 1]) ELSE 0)
      <4>1. n \in Nat
        BY <1>1
      <4> QED BY ONLY <4>1, BalanceNext
    <3>2. Balance(g, a, n) = Balance(h, a, n)
      BY <1>1, BalanceAgrees
    <3> QED BY <1>0, <1>1, <2>2, <3>1, <3>2
  <2>3. k \in 0 .. n \/ k = n + 1
    BY <1>1
  <2> QED BY <2>1, <2>2, <2>3
<1> QED BY <1>4, <1>5, <1>6 DEF Sound, g

-----------------------------------------------------------------------------
(***************************************************************************)
(* What an accepted command comes to: one event, or for a transfer a debit *)
(* and the credit behind it, on accounts the ledger has.                   *)
(***************************************************************************)
Part(op, i, x, now) ==
    [op |-> op, key |-> i, idx |-> i, amount |-> x, time |-> now]

Stamped(e, k, now) ==
    [e EXCEPT !.time = now, !.key = IF @ = NoKey THEN k ELSE @]

LEMMA PartFacts ==
    ASSUME NEW op \in {"credit", "debit"}, NEW i \in Indices, NEW x \in Amounts,
           NEW now \in 1 .. MaxCommands, NEW k
    PROVE  /\ Stamped(Event(op, i, i, x), k, now) = Part(op, i, x, now)
           /\ Part(op, i, x, now) \in Events
<1>1. i \in Nat /\ i < IndexSpace /\ IndexSpace \in Nat /\ i # NoKey
  BY AccountsAssumption, IndexAssumption DEF Indices, NoKey
<1>2. i % IndexSpace = i
  BY <1>1
<1>3. Event(op, i, i, x) = [op |-> op, key |-> i, idx |-> i, amount |-> x, time |-> 0]
  BY <1>2 DEF Event
<1>4. now \in 0 .. MaxCommands
  BY CycleBoundsAssumption
<1>5. Stamped(Event(op, i, i, x), k, now) = Part(op, i, x, now)
  <2> DEFINE e == Event(op, i, i, x)
  <2>1. [e EXCEPT !.time = now] = Part(op, i, x, now)
    BY <1>3 DEF Part
  <2>2. Stamped(e, k, now) =
          [[e EXCEPT !.time = now] EXCEPT !.key = IF @ = NoKey THEN k ELSE @]
    BY DEF Stamped
  <2> HIDE DEF e
  <2>3. Stamped(e, k, now) = [Part(op, i, x, now) EXCEPT !.key = IF @ = NoKey THEN k ELSE @]
    BY <2>1, <2>2
  <2> QED BY <1>1, <2>3 DEF Part, e
<1>6. Part(op, i, x, now) \in Events
  BY <1>4 DEF Part, Events
<1> QED BY <1>5, <1>6

LEMMA DecideFacts ==
    ASSUME NEW cmd \in Commands, cmd.idx \in Indices, cmd.name \in CommandNames,
           NEW now \in 1 .. MaxCommands, NEW s, s = Stamp(Decide(cmd), cmd, now)
    PROVE  /\ s \in Seq(Events)
           /\ cmd.name # "transfer" =>
                /\ Len(s) = 1 /\ cmd.name \in {"credit", "debit"}
                /\ s[1] = Part(cmd.name, cmd.idx, cmd.amount, now)
           /\ cmd.name = "transfer" =>
                /\ Len(s) = 2 /\ s[1] = Part("debit", cmd.idx, cmd.amount, now)
                /\ \E dst \in Indices : s[2] = Part("credit", dst, cmd.amount, now)
<1> DEFINE dst == (cmd.idx + 1) % Accounts
<1>1. cmd.amount \in Amounts /\ dst \in Indices
  <2>1. cmd.idx \in Nat /\ Accounts \in Nat /\ Accounts > 0
    BY AccountsAssumption DEF Indices
  <2> QED BY <2>1 DEF Commands, Indices
<1>2. CASE cmd.name # "transfer"
  <2> DEFINE e == Event(cmd.name, cmd.idx, cmd.idx, cmd.amount)
  <2>1. cmd.name \in {"credit", "debit"}
    BY <1>2 DEF CommandNames
  <2>2. Stamped(e, cmd.idx, now) = Part(cmd.name, cmd.idx, cmd.amount, now) /\ Stamped(e, cmd.idx, now) \in Events
    BY <1>1, <2>1, PartFacts
  <2>3. Decide(cmd) = <<e>>
    BY <1>2 DEF Decide
  <2>4. s = [k \in 1 .. 1 |-> Stamped(<<e>>[k], cmd.idx, now)]
    BY <2>3 DEF Stamp, Stamped
  <2> HIDE DEF e
  <2>5. s = [k \in 1 .. 1 |-> Stamped(e, cmd.idx, now)]
    BY <2>4
  <2>6. s \in Seq(Events) /\ Len(s) = 1 /\ s[1] = Stamped(e, cmd.idx, now)
    BY <2>2, <2>5
  <2> QED BY <1>2, <2>1, <2>2, <2>6
<1>3. CASE cmd.name = "transfer"
  <2> DEFINE e == Event("debit", cmd.idx, cmd.idx, cmd.amount)
             f == Event("credit", dst, dst, cmd.amount)
             p == Part("debit", cmd.idx, cmd.amount, now)
             q == Part("credit", dst, cmd.amount, now)
  <2>1. Stamped(e, cmd.idx, now) = p /\ p \in Events
    BY <1>1, PartFacts
  <2>2. Stamped(f, cmd.idx, now) = q /\ q \in Events
    <3> HIDE DEF dst
    <3> QED BY <1>1, PartFacts
  <2>3. Decide(cmd) = <<e, f>>
    BY <1>3 DEF Decide
  <2>4. s = [k \in 1 .. 2 |-> Stamped(<<e, f>>[k], cmd.idx, now)]
    BY <2>3 DEF Stamp, Stamped
  <2> HIDE DEF e, f, p, q
  <2>5. s = [k \in 1 .. 2 |-> IF k = 1 THEN Stamped(e, cmd.idx, now) ELSE Stamped(f, cmd.idx, now)]
    BY <2>4
  <2>6. s \in Seq(Events) /\ Len(s) = 2 /\ s[1] = Stamped(e, cmd.idx, now) /\ s[2] = Stamped(f, cmd.idx, now)
    BY <2>1, <2>2, <2>5
  <2>7. s[1] = Part("debit", cmd.idx, cmd.amount, now) /\ s[2] = Part("credit", dst, cmd.amount, now)
    BY <2>1, <2>2, <2>6 DEF p, q
  <2> QED BY <1>1, <1>3, <2>6, <2>7
<1> QED BY <1>2, <1>3

-----------------------------------------------------------------------------
(***************************************************************************)
(* The steps.  An accepted command: each of its events joins a sound       *)
(* history, so none is refused and the cycle is not poisoned by it.        *)
(***************************************************************************)
LEMMA SubmitSound ==
    ASSUME Inv, NEW cmd \in Commands, Idle, ~cycle.poison, ~Rejects(cycle, cmd),
           clock < MaxCommands, NEW s, s = Stamp(Decide(cmd), cmd, clock + 1),
           NEW acc, acc = [accepted EXCEPT ![clock + 1] = cmd.name]
    PROVE  /\ s \in Seq(Events) /\ Sound(log \o s, acc, clock + 1)
           /\ \A i \in 1 .. Len(s) : ~Refuses(s[i])
           /\ Len(s) > 0
<1> DEFINE now == clock + 1  n == Len(log)
<1>1. /\ clock \in Nat /\ now \in Nat /\ now \in 1 .. MaxCommands /\ clock <= now
      /\ log \in Seq(Events) /\ n \in Nat /\ log \o pending = log
      /\ cmd.idx \in Indices /\ cmd.name \in CommandNames /\ cmd.amount \in Amounts
  <2>1. pending = <<>> /\ log \in Seq(Events) /\ clock \in 0 .. MaxCommands
    BY DEF Idle, Inv, InvTypes
  <2>2. cmd.idx \in Indices /\ cmd.name \in CommandNames /\ cmd.amount \in Amounts
    BY DEF Rejects, Commands
  <2>3. log \o pending = log
    BY <2>1, ConcatEmpty
  <2>4. clock \in Nat /\ now \in Nat /\ now \in 1 .. MaxCommands /\ clock <= now
    BY <2>1, CycleBoundsAssumption
  <2> QED BY <2>1, <2>2, <2>3, <2>4
<1>2. /\ acc[now] = cmd.name /\ \A t \in 1 .. clock : acc[t] = accepted[t]
  <2>1. accepted \in [1 .. MaxCommands -> CommandNames \cup {"none"}]
    BY DEF Inv, InvTypes
  <2>2. \A t \in 1 .. clock : t # now /\ t \in 1 .. MaxCommands
    BY <1>1, CycleBoundsAssumption
  <2> QED BY <1>1, <2>1, <2>2
<1>3. /\ Sound(log, accepted, clock)
      /\ \A a \in Indices : cycle.balances[a] = Balance(log, a, n) /\ cycle.balances[a] \in Int
                            /\ cycle.balances[a] >= 0
      /\ cmd.name \in {"debit", "transfer"} => cycle.balances[cmd.idx] >= cmd.amount
  <2>1. Sound(log, accepted, clock) /\ Describes(cycle, log)
    BY <1>1 DEF Inv, History
  <2>2. cycle.chain.steps = n
    <3>1. cycle.chain.steps = pos + Len(pending) /\ pos = n /\ Len(pending) = 0
      BY DEF Inv, InvPlace, Idle
    <3> QED BY <1>1, <3>1
  <2>3. \A a \in Indices : cycle.balances[a] = Balance(log, a, n)
    BY <2>1, <2>2 DEF Describes, Projected
  <2>4. \A a \in Indices : cycle.balances[a] \in Int
    BY <2>1 DEF Describes, Cycles, Projections
  <2>5. n \in 0 .. Len(log)
    BY <1>1
  <2>6. \A a \in Indices : Balance(log, a, n) >= 0
    BY <2>1, <2>5 DEF Sound, Positive
  <2> QED BY <2>1, <2>3, <2>4, <2>6 DEF Rejects
<1>0. now = clock + 1 /\ n = Len(log) /\ s = Stamp(Decide(cmd), cmd, now)
  OBVIOUS
<1> HIDE DEF now, n
<1>4. /\ s \in Seq(Events)
      /\ cmd.name # "transfer" =>
           /\ Len(s) = 1 /\ cmd.name \in {"credit", "debit"}
           /\ s[1] = Part(cmd.name, cmd.idx, cmd.amount, now)
      /\ cmd.name = "transfer" =>
           /\ Len(s) = 2 /\ s[1] = Part("debit", cmd.idx, cmd.amount, now)
           /\ \E dst \in Indices : s[2] = Part("credit", dst, cmd.amount, now)
  BY <1>0, <1>1, DecideFacts
<1>5. \A x \in Amounts : x \in Nat
  BY AmountsAssumption, Zenon
<1>6. ASSUME NEW op \in {"credit", "debit"}, NEW i \in Indices,
             cmd.name \in {op, "transfer"}
      PROVE  LET e == Part(op, i, cmd.amount, now) IN
             /\ e \in Events /\ FromCommand(e, acc, now)
             /\ e.op = op /\ e.idx = i /\ e.time = now /\ e.amount = cmd.amount
             /\ acc[e.time] = cmd.name
             /\ Moves(e) = IF op = "credit" THEN cmd.amount ELSE -cmd.amount
  <2> DEFINE e == Part(op, i, cmd.amount, now)
  <2>1. e \in Events
    BY <1>1, PartFacts
  <2>2. e.op = op /\ e.idx = i /\ e.time = now /\ e.amount = cmd.amount
    BY DEF Part
  <2> HIDE DEF e
  <2>3. FromCommand(e, acc, now)
    <3>1. now \in 1 .. now
      BY <1>0, <1>1
    <3> QED BY <1>1, <1>2, <1>6, <2>2, <3>1 DEF FromCommand
  <2>4. Moves(e) = IF op = "credit" THEN cmd.amount ELSE -cmd.amount
    BY <2>2 DEF Moves
  <2> QED BY <1>2, <2>1, <2>2, <2>3, <2>4 DEF e
<1>7. CASE cmd.name # "transfer"
  <2> DEFINE e == Part(cmd.name, cmd.idx, cmd.amount, now)
  <2>1. /\ e \in Events /\ FromCommand(e, acc, now) /\ e.op = cmd.name /\ e.idx = cmd.idx
        /\ acc[e.time] = cmd.name
        /\ Moves(e) = IF cmd.name = "credit" THEN cmd.amount ELSE -cmd.amount
    <3>1. cmd.name \in {"credit", "debit"} /\ cmd.name \in {cmd.name, "transfer"}
      BY <1>4, <1>7
    <3> QED BY ONLY <1>1, <1>6, <3>1
  <2>2. Len(s) = 1 /\ s[1] = e /\ cmd.name \in {"credit", "debit"}
    BY <1>4, <1>7
  <2> HIDE DEF e
  <2>3. log \o s = Append(log, e)
    BY <1>1, <1>4, <2>2, ConcatOne
  <2>4. \A a \in Indices : Balance(log, a, Len(log)) + (IF e.idx = a THEN Moves(e) ELSE 0) >= 0
    <3>1. cmd.amount \in Nat
      BY <1>1, <1>5
    <3> SUFFICES ASSUME NEW a \in Indices
                 PROVE  Balance(log, a, n) + (IF e.idx = a THEN Moves(e) ELSE 0) >= 0
      BY <1>0
    <3> DEFINE b == Balance(log, a, n)
    <3>2. b \in Int /\ b >= 0 /\ (cmd.name = "debit" /\ cmd.idx = a => b >= cmd.amount)
      BY <1>3
    <3> HIDE DEF b
    <3>3. CASE cmd.name = "credit"
      BY <2>1, <3>1, <3>2, <3>3 DEF b
    <3>4. CASE cmd.name = "debit"
      BY <2>1, <3>1, <3>2, <3>4 DEF b
    <3> QED BY <2>2, <3>3, <3>4
  <2>5. Sound(Append(log, e), acc, now)
    BY <1>1, <1>2, <1>3, <1>7, <2>1, <2>4, SoundNext
  <2>6. ~Refuses(e)
    BY <2>1, CommandNotRefused
  <2>7. \A i \in 1 .. 1 : i = 1
    OBVIOUS
  <2>8. Sound(log \o s, acc, now)
    BY <2>3, <2>5
  <2>9. Len(s) > 0 /\ \A i \in 1 .. Len(s) : ~Refuses(s[i])
    BY <2>2, <2>6, <2>7
  <2> QED BY <1>0, <1>4, <2>8, <2>9
<1>8. CASE cmd.name = "transfer"
  <2>1. PICK dst \in Indices : s[2] = Part("credit", dst, cmd.amount, now)
    BY <1>4, <1>8
  <2> DEFINE e == Part("debit", cmd.idx, cmd.amount, now)
             f == Part("credit", dst, cmd.amount, now)
  <2>2. /\ e \in Events /\ FromCommand(e, acc, now) /\ e.op = "debit" /\ e.idx = cmd.idx
        /\ e.time = now /\ e.amount = cmd.amount /\ Moves(e) = -cmd.amount
    BY <1>1, <1>6, <1>8
  <2>3. /\ f \in Events /\ FromCommand(f, acc, now) /\ f.op = "credit"
        /\ f.time = now /\ f.amount = cmd.amount /\ Moves(f) = cmd.amount
    BY <1>6, <1>8
  <2>4. Len(s) = 2 /\ s[1] = e /\ s[2] = f
    BY <1>4, <1>8, <2>1
  <2> HIDE DEF e, f
  <2> DEFINE g == Append(log, e)
  <2>5. cmd.amount \in Nat
    BY <1>1, <1>5
  <2>6. /\ g \in Seq(Events) /\ Len(g) = n + 1 /\ Len(g) > 0 /\ g[Len(g)] = e
    BY <1>0, <1>1, <2>2
  <2>7. log \o s = Append(g, f)
    <3>1. log \o s = Append(Append(log, s[1]), s[2])
      BY <1>1, <1>4, <2>4, ConcatTwo
    <3> QED BY <2>4, <3>1 DEF g
  <2>8. Sound(g, acc, now)
    <3>1. \A a \in Indices : Balance(log, a, Len(log)) + (IF e.idx = a THEN Moves(e) ELSE 0) >= 0
      BY <1>0, <1>1, <1>3, <1>8, <2>2, <2>5
    <3> QED BY <1>1, <1>2, <1>3, <2>2, <3>1, SoundNext
  <2> HIDE DEF g
  <2>9. Sound(Append(g, f), acc, now)
    <3>1. \A a \in Indices : Balance(g, a, Len(g)) >= 0
      <4>1. Len(g) \in 0 .. Len(g)
        BY <2>6
      <4> QED BY <2>8, <4>1 DEF Sound, Positive
    <3>2. \A a \in Indices : Balance(g, a, Len(g)) \in Int
      BY <2>6, BalanceType
    <3>3. \A a \in Indices : Balance(g, a, Len(g)) + (IF f.idx = a THEN Moves(f) ELSE 0) >= 0
      BY <2>3, <2>5, <3>1, <3>2
    <3>4. now <= now /\ \A t \in 1 .. now : acc[t] = acc[t]
      BY <1>1
    <3> QED BY <1>1, <2>2, <2>3, <2>6, <2>8, <3>3, <3>4, SoundNext
  <2>10. ~Refuses(e) /\ ~Refuses(f)
    BY <2>2, <2>3, CommandNotRefused
  <2>11. \A i \in 1 .. 2 : i = 1 \/ i = 2
    OBVIOUS
  <2>12. Sound(log \o s, acc, now)
    BY <2>7, <2>9
  <2>13. Len(s) > 0 /\ \A i \in 1 .. Len(s) : ~Refuses(s[i])
    BY <2>4, <2>10, <2>11
  <2> QED BY <1>0, <1>4, <2>12, <2>13
<1> QED BY <1>7, <1>8

LEMMA SubmitInv ==
    ASSUME Inv, NEW cmd \in Commands, Submit(cmd)
    PROVE  Inv'
<1> DEFINE s == Stamp(Decide(cmd), cmd, clock + 1)  h == log \o s
           acc == [accepted EXCEPT ![clock + 1] = cmd.name]
<1>1. /\ Idle /\ ~cycle.poison /\ clock < MaxCommands /\ ~Rejects(cycle, cmd)
      /\ cycle' = ApplyAll(cycle, s)
      /\ pending' = IF cycle'.poison THEN <<>> ELSE s
      /\ clock' = clock + 1 /\ accepted' = acc
      /\ pos' = pos /\ log' = log /\ safe' = safe /\ restarts' = restarts
  BY DEF Submit
<1>2. /\ s \in Seq(Events) /\ Sound(h, acc, clock + 1) /\ Len(s) > 0
      /\ \A i \in 1 .. Len(s) : ~Refuses(s[i])
  BY <1>1, SubmitSound
<1>3. cmd.name \in CommandNames
  BY <1>1 DEF Rejects
<1> HIDE DEF s, acc
<1>4. /\ log \in Seq(Events) /\ pending = <<>> /\ log \o pending = log /\ pos = Len(log)
      /\ Len(log) \in Nat /\ Len(s) \in Nat
      /\ cycle.chain.steps = Len(log) /\ Describes(cycle, log)
  <2>1. log \in Seq(Events) /\ pending = <<>> /\ pos = Len(log) /\ Len(log) \in Nat
    BY <1>1 DEF Idle, Inv, InvTypes
  <2>2. log \o pending = log
    BY <2>1, ConcatEmpty
  <2>3. cycle.chain.steps = Len(log)
    <3>1. cycle.chain.steps = pos + Len(pending) /\ Len(pending) = 0
      BY <1>1, <2>1 DEF Inv, InvPlace
    <3> QED BY <2>1, <3>1
  <2>4. Describes(cycle, log)
    BY <2>2 DEF Inv, History
  <2> QED BY <1>2, <2>1, <2>2, <2>3, <2>4
<1>5. /\ h \in Seq(Events) /\ Len(h) = Len(log) + Len(s)
      /\ \A i \in 1 .. Len(log) : h[i] = log[i]
      /\ \A i \in 1 .. Len(s) : h[Len(log) + i] = s[i]
  BY <1>2, <1>4, ConcatFacts
<1> HIDE DEF h
<1>6. Describes(cycle, h)
  BY <1>4, <1>5, DescribesLonger
<1>7. /\ Describes(cycle', h)
      /\ cycle'.poison => cycle'.chain.steps \in Len(log) .. Len(h)
      /\ ~cycle'.poison => cycle'.chain.steps = Len(log) + Len(s)
  <2> DEFINE c == cycle  r == cycle'
  <2>1. /\ h \in Seq(Events) /\ s \in Seq(Events)
        /\ Describes(c, h) /\ ~c.poison /\ c.chain.steps = Len(log)
        /\ c.chain.steps + Len(s) <= Len(h)
        /\ \A i \in 1 .. Len(s) : s[i] = h[c.chain.steps + i]
        /\ r = ApplyAll(c, s)
    BY <1>1, <1>2, <1>4, <1>5, <1>6
  <2> HIDE DEF c, r
  <2>2. /\ Describes(r, h)
        /\ r.poison => r.chain.steps \in c.chain.steps .. Len(h)
        /\ ~r.poison => r.chain.steps = c.chain.steps + Len(s)
    BY ONLY <2>1, ApplyAllFacts
  <2> QED BY <2>1, <2>2 DEF r
<1>8. ~cycle'.poison
  <2> SUFFICES ASSUME cycle'.poison PROVE FALSE
    OBVIOUS
  <2> DEFINE k == cycle'.chain.steps
  <2>1. k \in Len(log) .. Len(h) /\ k < Len(h) /\ Refuses(h[k + 1])
    BY <1>7 DEF Describes
  <2> HIDE DEF k
  <2>2. k + 1 - Len(log) \in 1 .. Len(s) /\ Len(log) + (k + 1 - Len(log)) = k + 1
    BY <1>4, <1>5, <2>1
  <2>3. h[k + 1] = s[k + 1 - Len(log)]
    BY <1>5, <2>2
  <2> QED BY <1>2, <2>1, <2>2, <2>3
<1>9. pending' = s /\ History' = h /\ accepted' = acc /\ clock' = clock + 1
  BY <1>1, <1>8 DEF History, h
<1>10. InvTypes'
  <2>1. accepted' \in [1 .. MaxCommands -> CommandNames \cup {"none"}]
    BY <1>3, <1>9 DEF Inv, InvTypes, acc
  <2>2. clock' \in 0 .. MaxCommands
    BY <1>1, CycleBoundsAssumption DEF Inv, InvTypes
  <2> QED BY <1>1, <1>2, <1>9, <2>1, <2>2 DEF Inv, InvTypes
<1>11. InvPlace'
  BY <1>1, <1>4, <1>7, <1>8, <1>9 DEF InvPlace
<1>12. Describes(cycle, History)' /\ Sound(History, accepted, clock)'
  BY <1>2, <1>7, <1>9
<1> QED BY <1>10, <1>11, <1>12 DEF Inv

(***************************************************************************)
(* A rejected command: only the time has moved.                            *)
(***************************************************************************)
LEMMA HistoryType ==
    ASSUME InvTypes
    PROVE  History \in Seq(Events) /\ clock \in Nat /\ MaxCommands \in Nat
BY ConcatFacts, CycleBoundsAssumption DEF InvTypes, History

LEMMA SubmitFailsInv ==
    ASSUME Inv, NEW cmd \in Commands, SubmitFails(cmd)
    PROVE  Inv'
<1>1. /\ clock < MaxCommands /\ clock' = clock + 1
      /\ UNCHANGED <<cycle, pos, pending, log, safe, restarts, accepted>>
  BY DEF SubmitFails
<1>2. History' = History
  BY <1>1 DEF History
<1>3. Sound(History, accepted, clock + 1)
  BY HistoryType, SoundLater DEF Inv
<1>4. InvTypes' /\ InvPlace'
  BY <1>1, HistoryType DEF Inv, InvTypes, InvPlace
<1>5. Describes(cycle, History)' /\ Sound(History, accepted, clock)'
  BY <1>1, <1>2, <1>3 DEF Inv
<1> QED BY <1>4, <1>5 DEF Inv

(***************************************************************************)
(* The caller's append turns what was pending into log: the same history.  *)
(***************************************************************************)
LEMMA PersistInv ==
    ASSUME Inv, Persist
    PROVE  Inv'
<1>1. /\ pending # <<>> /\ log' = log \o pending /\ pos' = Len(log') /\ pending' = <<>>
      /\ UNCHANGED <<cycle, safe, clock, restarts, accepted>>
  BY DEF Persist
<1>2. /\ log \in Seq(Events) /\ pending \in Seq(Events) /\ pos = Len(log) /\ ~cycle.poison
      /\ cycle.chain.steps = pos + Len(pending) /\ safe \in 0 .. Len(log)
  BY <1>1 DEF Inv, InvTypes, InvPlace
<1>3. /\ log' \in Seq(Events) /\ Len(log') = Len(log) + Len(pending)
      /\ Len(log) \in Nat /\ Len(pending) \in Nat
  BY <1>1, <1>2, ConcatFacts
<1>4. History' = History
  BY <1>1, <1>3, ConcatEmpty DEF History
<1>5. InvTypes'
  <2>1. <<>> \in Seq(Events) /\ pos' \in 0 .. Len(log') /\ safe' \in 0 .. Len(log')
    BY <1>1, <1>2, <1>3
  <2> QED BY <1>1, <1>3, <2>1 DEF Inv, InvTypes
<1>6. InvPlace'
  <2>1. Len(pending') = 0 /\ cycle.chain.steps = pos' + 0
    BY <1>1, <1>2, <1>3
  <2>2. cycle'.chain.steps = pos' + Len(pending')
    BY <1>1, <2>1
  <2> QED BY <1>1, <2>2 DEF InvPlace
<1>7. Describes(cycle, History)' /\ Sound(History, accepted, clock)'
  BY <1>1, <1>4 DEF Inv
<1> QED BY <1>5, <1>6, <1>7 DEF Inv

LEMMA SyncInv ==
    ASSUME Inv, Sync
    PROVE  Inv'
<1>1. safe' = Len(log) /\ UNCHANGED <<cycle, pos, pending, log, clock, restarts, accepted>>
  BY DEF Sync
<1>2. Len(log) \in 0 .. Len(log)
  BY DEF Inv, InvTypes
<1>3. History' = History
  BY <1>1 DEF History
<1> QED BY <1>1, <1>2, <1>3 DEF Inv, InvTypes, InvPlace

(***************************************************************************)
(* Another writer's event moves no balance, so the history stays sound.    *)
(***************************************************************************)
LEMMA IntrudeInv ==
    ASSUME Inv, Intrude
    PROVE  Inv'
<1> DEFINE h == Append(log, Foreign)
<1>1. /\ pos = Len(log) /\ pending = <<>> /\ log' = h
      /\ UNCHANGED <<cycle, pos, pending, safe, clock, restarts, accepted>>
  BY DEF Intrude, Idle
<1>2. /\ log \in Seq(Events) /\ log \o pending = log /\ clock \in Nat /\ Len(log) \in Nat
      /\ safe \in 0 .. Len(log)
  <2>1. log \in Seq(Events) /\ safe \in 0 .. Len(log)
    BY DEF Inv, InvTypes
  <2>2. log \o pending = log
    BY <1>1, <2>1, ConcatEmpty
  <2>3. clock \in Nat
    BY HistoryType DEF Inv
  <2> QED BY <2>1, <2>2, <2>3
<1>3. /\ h \in Seq(Events) /\ Len(h) = Len(log) + 1 /\ \A i \in 1 .. Len(log) : h[i] = log[i]
  BY <1>2, ForeignFacts
<1>4. Sound(log, accepted, clock) /\ Describes(cycle, log)
  BY <1>2 DEF Inv, History
<1>5. Sound(h, accepted, clock)
  <2>1. \A a \in Indices : Balance(log, a, Len(log)) >= 0
    <3>1. Len(log) \in 0 .. Len(log)
      BY <1>2
    <3> QED BY <1>4, <3>1 DEF Sound, Positive
  <2>2. \A a \in Indices : Balance(log, a, Len(log)) \in Int
    BY <1>2, BalanceType
  <2>3. \A a \in Indices :
          Balance(log, a, Len(log)) + (IF Foreign.idx = a THEN Moves(Foreign) ELSE 0) >= 0
    BY <2>1, <2>2, ForeignFacts
  <2>4. Foreign.op # "credit"
    BY DEF Foreign
  <2>5. clock <= clock /\ \A t \in 1 .. clock : accepted[t] = accepted[t]
    BY <1>2
  <2> QED BY <1>2, <1>4, <2>3, <2>4, <2>5, ForeignFacts, SoundNext
<1> HIDE DEF h
<1>6. Describes(cycle, h)
  BY <1>2, <1>3, <1>4, DescribesLonger
<1>7. History' = h
  BY <1>1, <1>3, ConcatEmpty DEF History
<1>8. InvTypes'
  <2>1. pos \in 0 .. Len(h) /\ safe \in 0 .. Len(h)
    BY <1>1, <1>2, <1>3
  <2> QED BY <1>1, <1>3, <2>1 DEF Inv, InvTypes
<1>9. InvPlace'
  BY <1>1 DEF Inv, InvPlace
<1>10. Describes(cycle, History)' /\ Sound(History, accepted, clock)'
  BY <1>1, <1>5, <1>6, <1>7
<1> QED BY <1>8, <1>9, <1>10 DEF Inv

(***************************************************************************)
(* A batch of a replay: the next events of the log.                        *)
(***************************************************************************)
LEMMA FoldInv ==
    ASSUME Inv, NEW n \in 1 .. 2 * MaxCommands + MaxForeign, Fold(n)
    PROVE  Inv'
<1> DEFINE batch == SubSeq(log, pos + 1, pos + n)
<1>1. /\ ~cycle.poison /\ n <= Len(log) - pos /\ cycle' = ApplyAll(cycle, batch)
      /\ pos' = IF cycle'.poison THEN pos ELSE pos + n
      /\ UNCHANGED <<pending, log, safe, clock, restarts, accepted>>
  BY DEF Fold
<1>2. /\ n \in Nat /\ n > 0 /\ log \in Seq(Events) /\ Len(log) \in Nat
      /\ pos \in 0 .. Len(log) /\ pos \in Nat
  <2>1. log \in Seq(Events) /\ pos \in 0 .. Len(log) /\ Len(log) \in Nat
    BY DEF Inv, InvTypes
  <2>2. n \in Nat /\ n > 0
    BY CycleBoundsAssumption
  <2> QED BY <2>1, <2>2
<1>3. pending = <<>>
  BY <1>1, <1>2 DEF Inv, InvPlace
<1>4. log \o pending = log /\ Describes(cycle, log) /\ Sound(log, accepted, clock)
  <2>1. log \o pending = log
    BY <1>2, <1>3, ConcatEmpty
  <2> QED BY <2>1 DEF Inv, History
<1>5. cycle.chain.steps = pos
  <2>1. cycle.chain.steps = pos + Len(pending) /\ Len(pending) = 0
    BY <1>1, <1>3 DEF Inv, InvPlace
  <2> QED BY <1>2, <2>1
<1>6. /\ batch \in Seq(Events) /\ Len(batch) = n
      /\ \A i \in 1 .. n : batch[i] = log[pos + i]
  BY <1>1, <1>2, BatchFacts
<1> HIDE DEF batch
<1>7. /\ Describes(cycle', log)
      /\ ~cycle'.poison => cycle'.chain.steps = pos + n
  <2> DEFINE c == cycle  r == cycle'
  <2>1. /\ Describes(c, log) /\ ~c.poison /\ c.chain.steps = pos
        /\ c.chain.steps + Len(batch) <= Len(log)
        /\ \A i \in 1 .. Len(batch) : batch[i] = log[c.chain.steps + i]
        /\ r = ApplyAll(c, batch)
    BY <1>1, <1>2, <1>4, <1>5, <1>6
  <2> HIDE DEF c, r
  <2>2. /\ Describes(r, log)
        /\ ~r.poison => r.chain.steps = c.chain.steps + Len(batch)
    BY ONLY <1>2, <1>6, <2>1, ApplyAllFacts
  <2> QED BY <1>6, <2>1, <2>2 DEF r
<1>8. History' = log
  BY <1>1, <1>4 DEF History
<1>9. InvTypes'
  <2>1. pos + n \in 0 .. Len(log)
    BY <1>1, <1>2
  <2>2. pos' \in 0 .. Len(log)
    BY <1>1, <1>2, <2>1
  <2> QED BY <1>1, <2>2 DEF Inv, InvTypes
<1>10. InvPlace'
  <2>1. Len(pending') = 0 /\ pending' = <<>>
    BY <1>1, <1>3
  <2>2. ~cycle'.poison => cycle'.chain.steps = pos' + Len(pending')
    BY <1>1, <1>2, <1>7, <2>1
  <2> QED BY <2>1, <2>2 DEF InvPlace
<1>11. Describes(cycle, History)' /\ Sound(History, accepted, clock)'
  BY <1>1, <1>4, <1>7, <1>8
<1> QED BY <1>9, <1>10, <1>11 DEF Inv

(***************************************************************************)
(* A crash cuts the history anywhere behind what is safe, and the process  *)
(* that starts again has folded none of it.                                *)
(***************************************************************************)
LEMMA CrashInv ==
    ASSUME Inv, Crash
    PROVE  Inv'
<1>1. /\ restarts < MaxRestarts /\ restarts' = restarts + 1
      /\ cycle' = NewCycle /\ pos' = 0 /\ pending' = <<>>
      /\ UNCHANGED <<safe, clock, accepted>>
  BY DEF Crash
<1>2. PICK n \in safe .. Len(History) : log' = SubSeq(History, 1, n)
  BY DEF Crash, History
<1>3. History \in Seq(Events) /\ Len(History) \in Nat /\ safe \in Nat
  BY HistoryType DEF Inv, InvTypes
<1>4. n \in 0 .. Len(History) /\ n \in Nat /\ safe <= n
  BY <1>3
<1>5. log' \in Seq(Events) /\ Len(log') = n
  BY <1>2, <1>3, <1>4
<1>6. History' = log'
  BY <1>1, <1>5, ConcatEmpty DEF History
<1>7. Sound(log', accepted, clock)
  BY <1>2, <1>3, <1>4, SoundPrefix DEF Inv
<1>8. Describes(NewCycle, log') /\ ~NewCycle.poison /\ NewCycle.chain.steps = 0
  BY <1>5, NewCycleDescribes
<1>9. InvTypes'
  <2>1. <<>> \in Seq(Events) /\ 0 \in 0 .. Len(log') /\ safe \in 0 .. Len(log')
    BY <1>3, <1>4, <1>5
  <2>2. restarts' \in 0 .. MaxRestarts
    BY <1>1, CycleBoundsAssumption DEF Inv, InvTypes
  <2> QED BY <1>1, <1>5, <2>1, <2>2 DEF Inv, InvTypes
<1>10. InvPlace'
  <2>1. Len(pending') = 0
    BY <1>1
  <2> QED BY <1>1, <1>8, <2>1 DEF InvPlace
<1>11. Describes(cycle, History)' /\ Sound(History, accepted, clock)'
  BY <1>1, <1>6, <1>7, <1>8
<1> QED BY <1>9, <1>10, <1>11 DEF Inv

LEMMA InitInv == Init => Inv
<1> SUFFICES ASSUME Init PROVE Inv
  OBVIOUS
<1>1. /\ cycle = NewCycle /\ pos = 0 /\ pending = <<>> /\ log = <<>> /\ safe = 0
      /\ clock = 0 /\ restarts = 0 /\ accepted = [t \in 1 .. MaxCommands |-> "none"]
  BY DEF Init
<1>2. <<>> \in Seq(Events) /\ Len(<<>>) = 0 /\ History = <<>>
  BY <1>1 DEF History
<1>3. InvTypes
  BY <1>1, <1>2, CycleBoundsAssumption DEF InvTypes
<1>4. Describes(cycle, History) /\ ~cycle.poison /\ cycle.chain.steps = 0
  BY <1>1, <1>2, NewCycleDescribes
<1>5. InvPlace
  BY <1>1, <1>2, <1>4 DEF InvPlace
<1>6. Sound(History, accepted, clock)
  <2>1. \A i \in 1 .. 0 : FALSE
    OBVIOUS
  <2>2. Formed(History, accepted, clock) /\ Paired(History, accepted)
    BY <1>2, <2>1 DEF Formed, Paired
  <2>3. \A n \in 0 .. 0 : n = 0 /\ n \in Nat
    OBVIOUS
  <2>4. Positive(History)
    BY <1>2, <2>3, BalanceNext DEF Positive
  <2> QED BY <2>2, <2>4 DEF Sound
<1> QED BY <1>3, <1>4, <1>5, <1>6 DEF Inv

LEMMA NextInv == Inv /\ [Next]_vars => Inv'
<1> SUFFICES ASSUME Inv, [Next]_vars PROVE Inv'
  OBVIOUS
<1>1. ASSUME NEW cmd \in Commands, Submit(cmd) PROVE Inv'
  BY <1>1, SubmitInv
<1>2. ASSUME NEW cmd \in Commands, SubmitFails(cmd) PROVE Inv'
  BY <1>2, SubmitFailsInv
<1>3. CASE Persist
  BY <1>3, PersistInv
<1>4. CASE Sync
  BY <1>4, SyncInv
<1>5. CASE Intrude
  BY <1>5, IntrudeInv
<1>6. CASE Crash
  BY <1>6, CrashInv
<1>7. ASSUME NEW n \in 1 .. 2 * MaxCommands + MaxForeign, Fold(n) PROVE Inv'
  BY <1>7, FoldInv
<1>8. CASE UNCHANGED vars
  BY <1>8 DEF vars, Inv, InvTypes, InvPlace, History
<1> QED BY <1>1, <1>2, <1>3, <1>4, <1>5, <1>6, <1>7, <1>8 DEF Next

-----------------------------------------------------------------------------
(***************************************************************************)
(* Money.  Between the two events of a transfer its amount is missing from *)
(* the accounts, so the bound is kept by more than that amount: the credit *)
(* that follows uses it up.                                                *)
(***************************************************************************)
Covered(h, n) ==
    LET asked == Asked(h, "credit", n) - Asked(h, "debit", n) IN
    /\ Net(h, n) \in Int /\ Asked(h, "credit", n) \in Int /\ Asked(h, "debit", n) \in Int
    /\ Net(h, n) <= asked
    /\ n > 0 /\ h[n].op = "debit" /\ accepted[h[n].time] = "transfer" =>
            Net(h, n) + h[n].amount <= asked

LEMMA CoveredNext ==
    ASSUME NEW h \in Seq(Events), NEW now \in Nat, Sound(h, accepted, now),
           NEW n \in Nat, n < Len(h), Covered(h, n)
    PROVE  Covered(h, n + 1)
<1> DEFINE e == h[n + 1]  name == accepted[e.time]
<1>1. /\ Net(h, n + 1) = Net(h, n) + Moves(e)
      /\ Asked(h, "credit", n + 1) = Asked(h, "credit", n) + AskedOf(e, "credit")
      /\ Asked(h, "debit", n + 1) = Asked(h, "debit", n) + AskedOf(e, "debit")
  BY NetNext, AskedNext
<1>2. /\ n + 1 \in 1 .. Len(h) /\ n + 1 > 0 /\ (n + 1) - 1 = n /\ (n + 1 > 1 => n > 0)
  OBVIOUS
<1>3. /\ e = Foreign \/ FromCommand(e, accepted, now)
      /\ e.op = "credit" /\ name = "transfer" =>
            /\ n > 0 /\ h[n].op = "debit" /\ accepted[h[n].time] = "transfer"
            /\ h[n].amount = e.amount
  <2>1. e = Foreign \/ FromCommand(e, accepted, now)
    BY <1>2 DEF Sound, Formed
  <2>2. PairedAt(h, accepted, n + 1)
    BY <1>2 DEF Sound, Paired
  <2> QED BY <1>2, <2>1, <2>2 DEF PairedAt
<1>4. /\ Net(h, n) \in Int /\ Asked(h, "credit", n) \in Int /\ Asked(h, "debit", n) \in Int
      /\ Net(h, n) <= Asked(h, "credit", n) - Asked(h, "debit", n)
      /\ n > 0 /\ h[n].op = "debit" /\ accepted[h[n].time] = "transfer" =>
            Net(h, n) + h[n].amount <= Asked(h, "credit", n) - Asked(h, "debit", n)
  BY DEF Covered
<1>5. e = h[n + 1]
  OBVIOUS
<1> HIDE DEF e
<1>6. SUFFICES /\ Moves(e) \in Int /\ AskedOf(e, "credit") \in Int /\ AskedOf(e, "debit") \in Int
               /\ Net(h, n) + Moves(e) <= (Asked(h, "credit", n) + AskedOf(e, "credit"))
                                            - (Asked(h, "debit", n) + AskedOf(e, "debit"))
               /\ e.op = "debit" /\ name = "transfer" =>
                    Net(h, n) + Moves(e) + e.amount
                        <= (Asked(h, "credit", n) + AskedOf(e, "credit"))
                             - (Asked(h, "debit", n) + AskedOf(e, "debit"))
  <2>1. /\ Net(h, n + 1) \in Int /\ Asked(h, "credit", n + 1) \in Int
        /\ Asked(h, "debit", n + 1) \in Int
    <3>1. Moves(e) \in Int /\ AskedOf(e, "credit") \in Int /\ AskedOf(e, "debit") \in Int
      BY ONLY <1>6
    <3>2. Net(h, n) \in Int /\ Asked(h, "credit", n) \in Int /\ Asked(h, "debit", n) \in Int
      BY ONLY <1>4
    <3> QED BY ONLY <1>1, <3>1, <3>2
  <2>2. Net(h, n + 1) <= Asked(h, "credit", n + 1) - Asked(h, "debit", n + 1)
    BY <1>1, <1>6
  <2>3. h[n + 1].op = "debit" /\ accepted[h[n + 1].time] = "transfer" =>
            Net(h, n + 1) + h[n + 1].amount <= Asked(h, "credit", n + 1) - Asked(h, "debit", n + 1)
    BY <1>1, <1>5, <1>6
  <2> QED BY <2>1, <2>2, <2>3 DEF Covered
<1>7. CASE e = Foreign
  <2>1. Moves(e) = 0 /\ AskedOf(e, "credit") = 0 /\ AskedOf(e, "debit") = 0 /\ e.op # "debit"
    BY <1>7 DEF Foreign, Moves, AskedOf
  <2> QED BY <1>4, <2>1
<1>8. CASE FromCommand(e, accepted, now)
  <2>1. /\ e.op \in {"credit", "debit"} /\ e.amount \in Amounts /\ e.time > 0
        /\ name \in {e.op, "transfer"}
    BY <1>8 DEF FromCommand
  <2>2. e.amount \in Nat
    <3>1. \A x \in Amounts : x \in Nat
      BY AmountsAssumption, Zenon
    <3> QED BY <2>1, <3>1
  <2>3. Moves(e) = IF e.op = "credit" THEN e.amount ELSE -e.amount
    BY <2>1 DEF Moves
  <2>4. /\ AskedOf(e, "credit") = IF name = "credit" THEN e.amount ELSE 0
        /\ AskedOf(e, "debit") = IF name = "debit" THEN e.amount ELSE 0
    BY <2>1 DEF AskedOf
  <2> HIDE DEF name
  <2>5. CASE e.op = "credit" /\ name = "credit"
    BY <1>4, <2>2, <2>3, <2>4, <2>5
  <2>6. CASE e.op = "credit" /\ name = "transfer"
    BY <1>3, <1>4, <2>2, <2>3, <2>4, <2>6
  <2>7. CASE e.op = "debit" /\ name = "debit"
    BY <1>4, <2>2, <2>3, <2>4, <2>7
  <2>8. CASE e.op = "debit" /\ name = "transfer"
    BY <1>4, <2>2, <2>3, <2>4, <2>8
  <2> QED BY <2>1, <2>5, <2>6, <2>7, <2>8
<1> QED BY <1>3, <1>7, <1>8

LEMMA EveryPrefixCovered ==
    ASSUME NEW h \in Seq(Events), NEW now \in Nat, Sound(h, accepted, now),
           NEW n \in 0 .. Len(h)
    PROVE  Covered(h, n)
<1> DEFINE S == {k \in 0 .. Len(h) : Covered(h, k)}
<1>1. Len(h) \in Nat
  OBVIOUS
<1>2. 0 \in S
  <2>1. 0 \in Nat /\ 0 \in 0 .. Len(h)
    BY <1>1
  <2>2. Net(h, 0) = 0 /\ Asked(h, "credit", 0) = 0 /\ Asked(h, "debit", 0) = 0
    BY <2>1, NetNext, AskedNext
  <2>3. Covered(h, 0)
    BY <2>2 DEF Covered
  <2> QED BY <2>1, <2>3
<1>3. ASSUME NEW k \in 0 .. Len(h) - 1, k \in S PROVE k + 1 \in S
  <2>1. k \in Nat /\ k < Len(h) /\ k + 1 \in 0 .. Len(h)
    BY <1>1
  <2>2. Covered(h, k + 1)
    BY <1>3, <2>1, CoveredNext
  <2> QED BY <2>1, <2>2
<1> HIDE DEF S
<1>4. \A k \in 0 .. Len(h) : k \in S
  BY <1>1, <1>2, <1>3, Numbers!HoldsAll
<1> QED BY <1>4 DEF S

-----------------------------------------------------------------------------
(***************************************************************************)
(* The invariant holds of the ledger run through the command cycle: of     *)
(* Submit, Fold and the caller's appends (cycle.go), whatever a crash      *)
(* keeps of the log.                                                       *)
(***************************************************************************)
THEOREM CycleInvariant == Spec => []Inv
<1>1. Init => Inv
  BY InitInv
<1>2. Inv /\ [Next]_vars => Inv'
  BY NextInv
<1> QED BY <1>1, <1>2, PTL DEF Spec

LEMMA InvFacts ==
    ASSUME Inv
    PROVE  /\ cycle \in Cycles /\ cycle.chain \in Chains
           /\ Chained(cycle, History) /\ Projected(cycle, History)
           /\ History \in Seq(Events) /\ Len(History) \in Nat
           /\ cycle.chain.steps \in 0 .. Len(History)
<1>1. Describes(cycle, History) /\ History \in Seq(Events)
  BY HistoryType DEF Inv
<1>2. cycle \in Cycles /\ Chained(cycle, History) /\ Projected(cycle, History)
  BY <1>1 DEF Describes
<1>3. cycle.chain \in Chains
  BY <1>2 DEF Cycles
<1>4. cycle.chain.steps \in Nat /\ cycle.chain.steps <= Len(History)
  BY <1>2, <1>3 DEF Chains, Chained
<1> QED BY <1>1, <1>2, <1>3, <1>4

(***************************************************************************)
(* Every variable keeps its type: the cycle's projection and chain         *)
(* (cycle.go, Cycle; chain.go, Chain), the log and the caller's counters.  *)
(***************************************************************************)
THEOREM TypeCorrect == Spec => []TypeOK
<1>1. Inv => TypeOK
  BY InvFacts DEF Inv, InvTypes, TypeOK, Cycles, Projections, Chained
<1> QED BY <1>1, CycleInvariant, PTL

(***************************************************************************)
(* The projection is the fold of the history, for every interleaving of    *)
(* commands, batches and restarts (cycle.go, Projection).                  *)
(***************************************************************************)
THEOREM ProjectionIsFold == Spec => []FoldOfHistory
<1>1. Inv => FoldOfHistory
  <2> SUFFICES ASSUME Inv PROVE FoldOfHistory
    OBVIOUS
  <2>1. ~cycle.poison => cycle.chain.steps = pos + Len(pending)
    BY DEF Inv, InvPlace
  <2> QED BY <2>1, InvFacts DEF FoldOfHistory, Chained, Projected
<1> QED BY <1>1, CycleInvariant, PTL

(***************************************************************************)
(* A command that was accepted applies: a cycle is poisoned only by a      *)
(* foreign event of the log, where it stands (ledger.go, Decide).          *)
(***************************************************************************)
THEOREM DecisionsApply == Spec => []DecidedApplies
<1>1. Inv => DecidedApplies
  <2> SUFFICES ASSUME Inv, cycle.poison
               PROVE  cycle.chain.steps < Len(log) /\ log[cycle.chain.steps + 1] = Foreign
    BY DEF DecidedApplies
  <2> DEFINE k == cycle.chain.steps
  <2>1. k < Len(History) /\ Refuses(History[k + 1]) /\ k \in Nat /\ Len(History) \in Nat
    BY InvFacts DEF Inv, Describes
  <2>2. History = log
    <3>1. pending = <<>> /\ log \in Seq(Events)
      BY DEF Inv, InvPlace, InvTypes
    <3> QED BY <3>1, ConcatEmpty DEF History
  <2> HIDE DEF k
  <2>3. k + 1 \in 1 .. Len(History)
    BY <2>1
  <2>4. History[k + 1] = Foreign
    BY <2>1, <2>3, CommandNotRefused DEF Inv, Sound, Formed
  <2> QED BY <2>1, <2>2, <2>4 DEF k
<1> QED BY <1>1, CycleInvariant, PTL

(***************************************************************************)
(* No account is ever overdrawn (ledger.go, Decide,                        *)
(* ErrInsufficientFunds): not by a command, and not by a replay of a log   *)
(* that a crash cut inside a transfer.                                     *)
(***************************************************************************)
THEOREM NeverOverdrawn == Spec => []NoOverdraft
<1>1. Inv => NoOverdraft
  <2> SUFFICES ASSUME Inv, NEW a \in Indices PROVE cycle.balances[a] >= 0
    BY DEF NoOverdraft
  <2>1. cycle.balances[a] = Balance(History, a, cycle.chain.steps)
    BY InvFacts DEF Projected
  <2>2. Balance(History, a, cycle.chain.steps) >= 0
    BY InvFacts DEF Inv, Sound, Positive
  <2> QED BY <2>1, <2>2
<1> QED BY <1>1, CycleInvariant, PTL

(***************************************************************************)
(* The accounts together never hold more than was credited less what was   *)
(* debited: a transfer creates no money (ledger.go, Decide), whole or cut. *)
(***************************************************************************)
THEOREM NoMoneyAppears == Spec => []NoMoneyCreated
<1>1. Inv => NoMoneyCreated
  <2> SUFFICES ASSUME Inv PROVE NoMoneyCreated
    OBVIOUS
  <2>1. Holdings(cycle.balances) = Net(History, cycle.chain.steps)
    BY InvFacts DEF Projected
  <2>2. Covered(History, cycle.chain.steps)
    BY InvFacts, HistoryType, EveryPrefixCovered DEF Inv
  <2> QED BY <2>1, <2>2 DEF Covered, NoMoneyCreated
<1> QED BY <1>1, CycleInvariant, PTL

(***************************************************************************)
(* When every command moves an amount, the ledger never looks absorbed     *)
(* (chain.go, Absorbed): each event changes the digest and, taken alone,   *)
(* the balances.  The commands the ledger generates move at least 1        *)
(* (ledger.go, Run: Intn(500) + 1).                                        *)
(***************************************************************************)
THEOREM NeverLooksAbsorbed ==
    ASSUME 0 \notin Amounts
    PROVE  Spec => []NeverAbsorbed
<1>1. Inv => NeverAbsorbed
  <2> SUFFICES ASSUME Inv PROVE NeverAbsorbed
    OBVIOUS
  <2> DEFINE k == cycle.chain.steps
  <2>1. /\ Chained(cycle, History) /\ k \in Nat /\ k <= Len(History) /\ Len(History) \in Nat
    BY InvFacts
  <2>2. StepsSinceChange(cycle.chain) = 0
    BY <2>1 DEF Chained, StepsSinceChange
  <2>3. ASSUME NEW i \in 2 .. k
        PROVE  cycle.chain.digest[i][2][1] # cycle.chain.digest[i - 1][2][1]
    <3>1. i \in 1 .. k /\ i \in 1 .. Len(History)
      BY <2>1
    <3>2. ~Refuses(History[i])
      BY <2>1, <3>1 DEF Chained
    <3>3. History[i] # Foreign
      BY <3>2, ForeignFacts
    <3>4. History[i].amount \in Amounts
      BY <3>1, <3>3 DEF Inv, Sound, Formed, FromCommand
    <3>5. History[i].amount # 0
      BY <3>4
    <3> QED BY <2>1, <3>5 DEF Chained
  <2> QED BY <2>2, <2>3 DEF NeverAbsorbed
<1> QED BY <1>1, CycleInvariant, PTL
=============================================================================
