-------------------------- MODULE CoinsFlushProofs --------------------------
(***************************************************************************)
(* Proofs about CoinsFlush: whatever flushes were cut short by a crash,    *)
(* and whatever crashes cut short the recovery from them, the node works   *)
(* on the UTXO set of its block, the database holds it or a mixture that   *)
(* ReplayBlocks repairs, and blocks disconnect cleanly.                    *)
(***************************************************************************)
EXTENDS CoinsFlush, WellFoundedInduction, TLAPS

CoinMap == [Outpoint -> Nat]

-----------------------------------------------------------------------------
(* Recursion along 0..N.                                                   *)

\* Every set of numbers that is not empty has a least element.
LEMMA Least ==
    ASSUME NEW T \in SUBSET Nat, T # {}
    PROVE  \E x \in T : \A y \in T : x <= y
<1>1. PICK x \in T : \A y \in T : <<y, x>> \notin OpToRel(<, Nat)
  BY WFMin, NatLessThanWellFounded, Zenon
<1>2. \A y \in T : y \in Nat /\ x \in Nat
  OBVIOUS
<1>3. \A y \in T : ~(y < x)
  BY <1>1, <1>2, Zenon DEF OpToRel
<1>4. \A y \in T : x <= y
  BY <1>2, <1>3
<1>. QED
  BY <1>4

\* A set of numbers that holds 0, and with each number of 0..N-1 the next one,
\* holds all of 0..N.
LEMMA Induct ==
    ASSUME NEW N \in Nat, NEW T, 0 \in T,
           \A n \in 1..N : n - 1 \in T => n \in T
    PROVE  0..N \subseteq T
<1>. DEFINE Bad == {n \in 0..N : n \notin T}
<1>1. SUFFICES ASSUME Bad # {} PROVE FALSE
  OBVIOUS
<1>2. Bad \in SUBSET Nat
  OBVIOUS
<1>3. PICK x \in Bad : \A y \in Bad : x <= y
  <2>. HIDE DEF Bad
  <2>. QED
    BY <1>1, <1>2, Least, Zenon
<1>4. x \in 1..N
  OBVIOUS
<1>5. x - 1 \notin Bad
  BY <1>3, <1>4
<1>. QED
  BY <1>4, <1>5

\* f is the iteration of the steps from u.
Iterates(f, u, step, N) ==
    /\ f[0] = u
    /\ \A i \in 1..N : f[i] = step[i][f[i - 1]]

\* The steps can be iterated: the recursive definitions below define something.
LEMMA IterationExists ==
    ASSUME NEW S, NEW u \in S, NEW N \in Nat, NEW step \in [1..N -> [S -> S]]
    PROVE  \E f \in [0..N -> S] : Iterates(f, u, step, N)
<1>. DEFINE T == {n \in 0..N : \E f \in [0..n -> S] : Iterates(f, u, step, n)}
<1>1. 0 \in T
  <2>1. [i \in 0..0 |-> u] \in [0..0 -> S] /\ Iterates([i \in 0..0 |-> u], u, step, 0)
    BY DEF Iterates
  <2>. QED
    BY <2>1
<1>2. ASSUME NEW n \in 1..N, n - 1 \in T
      PROVE  n \in T
  <2>1. PICK f \in [0..(n - 1) -> S] : Iterates(f, u, step, n - 1)
    BY <1>2
  <2>. DEFINE g == [i \in 0..n |-> IF i < n THEN f[i] ELSE step[n][f[n - 1]]]
  <2>2. step[n] \in [S -> S] /\ f[n - 1] \in S
    OBVIOUS
  <2>3. g \in [0..n -> S]
    BY <2>2
  <2>4. g[0] = u
    BY <2>1 DEF Iterates
  <2>5. ASSUME NEW i \in 1..n PROVE g[i] = step[i][g[i - 1]]
    <3>1. CASE i < n
      <4>1. i \in 1..(n - 1) /\ i - 1 \in 0..n /\ i - 1 < n /\ i \in 0..n
        BY <3>1
      <4>2. f[i] = step[i][f[i - 1]]
        BY <2>1, <4>1 DEF Iterates
      <4>. QED
        BY <3>1, <4>1, <4>2
    <3>2. CASE i = n
      BY <3>2
    <3>. QED
      BY <3>1, <3>2
  <2>6. Iterates(g, u, step, n)
    <3>. HIDE DEF g
    <3>. QED
      BY <2>4, <2>5 DEF Iterates
  <2>. QED
    BY <2>3, <2>6
<1>3. 0..N \subseteq T
  <2>. HIDE DEF T
  <2>. QED
    BY <1>1, <1>2, Induct, Zenon
<1>4. N \in T
  BY <1>3
<1>. QED
  BY <1>4

-----------------------------------------------------------------------------
(* The transactions of a block, applied and undone.                        *)

\* Chains of block contents that are not too long.
Chains == {c \in Seq(Body) : Len(c) <= MaxHeight}

\* A block holds its coinbase and transactions that have inputs.
LEMMA VtxType ==
    ASSUME NEW c \in Chains, c # <<>>
    PROVE  /\ Len(c) \in Height
           /\ vtx(c) \in Seq(Tx) /\ Len(vtx(c)) \in Nat \ {0}
           /\ vtx(c)[1] = Coinbase[Len(c)]
           /\ \A n \in 2..Len(vtx(c)) : Ins[vtx(c)[n]] # {}
<1>1. Len(c) \in Height /\ c[Len(c)] \in Body
  BY CoinsFlushAssumption DEF Chains, Height
<1>2. Coinbase[Len(c)] \in Tx /\ c[Len(c)] \in Seq(Tx) /\ c[Len(c)] \in Body
  BY <1>1, CoinsFlushAssumption
<1>3. DOMAIN c[Len(c)] = 1..Len(c[Len(c)]) /\ Len(c[Len(c)]) \in Nat
  BY <1>2
<1>4. \A n \in 1..Len(c[Len(c)]) : Ins[c[Len(c)][n]] # {}
  BY <1>2, <1>3, UniqueAssumption
<1>5. /\ vtx(c) \in Seq(Tx)
      /\ Len(vtx(c)) = Len(c[Len(c)]) + 1
      /\ vtx(c)[1] = Coinbase[Len(c)]
      /\ \A n \in 2..Len(vtx(c)) : vtx(c)[n] = c[Len(c)][n - 1]
  BY <1>2 DEF vtx
<1>6. ASSUME NEW n \in 2..Len(vtx(c)) PROVE Ins[vtx(c)[n]] # {}
  <2>1. n - 1 \in 1..Len(c[Len(c)])
    BY <1>3, <1>5
  <2>. QED
    BY <2>1, <1>4, <1>5
<1>. QED
  BY <1>1, <1>3, <1>5, <1>6

LEMMA UpdateType ==
    ASSUME NEW u \in CoinMap, NEW t, NEW h \in Nat
    PROVE  UpdateCoins(u, t, h) \in CoinMap
BY DEF UpdateCoins, CoinMap

\* What AfterTxs computes.
AppliesInOrder(u, c) ==
    /\ AfterTxs(u, c, 0) = u
    /\ \A n \in 1..Len(vtx(c)) :
          AfterTxs(u, c, n) = UpdateCoins(AfterTxs(u, c, n - 1), vtx(c)[n], Len(c))
    /\ \A n \in 0..Len(vtx(c)) : AfterTxs(u, c, n) \in CoinMap

LEMMA AfterTxsSteps ==
    ASSUME NEW u \in CoinMap, NEW c, Len(c) \in Nat, Len(vtx(c)) \in Nat
    PROVE  AppliesInOrder(u, c)
<1>. DEFINE N == Len(vtx(c))
            step == [n \in 1..N |-> [w \in CoinMap |-> UpdateCoins(w, vtx(c)[n], Len(c))]]
            Good(f) == f = [i \in 0..N |-> IF i = 0 THEN u
                                           ELSE UpdateCoins(f[i - 1], vtx(c)[i], Len(c))]
            v == CHOOSE f : Good(f)
<1>1. step \in [1..N -> [CoinMap -> CoinMap]]
  BY UpdateType
<1>2. PICK f \in [0..N -> CoinMap] : Iterates(f, u, step, N)
  <2>. HIDE DEF step, N
  <2>. N \in Nat BY DEF N
  <2>. QED
    BY <1>1, IterationExists
<1>3. ASSUME NEW i \in 1..N
      PROVE  i - 1 \in 0..N /\ f[i] = UpdateCoins(f[i - 1], vtx(c)[i], Len(c))
  <2>1. i - 1 \in 0..N
    OBVIOUS
  <2>2. f[i - 1] \in CoinMap /\ f[i] = step[i][f[i - 1]]
    BY <1>2, <2>1 DEF Iterates
  <2>. QED
    BY <2>1, <2>2
<1>4. Good(f)
  <2>1. f = [i \in 0..N |-> f[i]]
    OBVIOUS
  <2>2. \A i \in 0..N : f[i] = IF i = 0 THEN u ELSE UpdateCoins(f[i - 1], vtx(c)[i], Len(c))
    BY <1>2, <1>3 DEF Iterates
  <2>. QED
    BY <2>1, <2>2, Zenon
<1>5. Good(v)
  <2>. HIDE DEF Good
  <2>. QED
    BY <1>4, Zenon
<1>6. \A n \in 0..N : AfterTxs(u, c, n) = v[n]
  BY Zenon DEF AfterTxs
<1>. HIDE DEF v
<1>7. /\ v[0] = u
      /\ \A i \in 1..N : v[i] = UpdateCoins(v[i - 1], vtx(c)[i], Len(c))
  BY <1>5
<1>8. \A n \in 0..N : v[n] \in CoinMap
  <2>. DEFINE T == {n \in 0..N : v[n] \in CoinMap}
  <2>1. 0 \in T
    BY <1>7
  <2>2. ASSUME NEW n \in 1..N, n - 1 \in T PROVE n \in T
    BY <2>2, <1>7, UpdateType
  <2>3. 0..N \subseteq T
    <3>. HIDE DEF T
    <3>. QED
      BY <2>1, <2>2, Induct, Zenon
  <2>. QED
    BY <2>3
<1>9. \A n \in 1..N : n - 1 \in 0..N /\ n \in 0..N
  OBVIOUS
<1>10. 0 \in 0..N
  OBVIOUS
<1>. QED
  BY <1>6, <1>7, <1>8, <1>9, <1>10, Zenon DEF AppliesInOrder

-----------------------------------------------------------------------------
(* Prefixes of chains and the UTXO set that each of them defines.          *)

LEMMA PrefixChains ==
    ASSUME NEW c \in Chains, NEW n \in 0..Len(c)
    PROVE  /\ SubSeq(c, 1, n) \in Chains /\ Len(SubSeq(c, 1, n)) = n
           /\ \A k \in 0..n : SubSeq(SubSeq(c, 1, n), 1, k) = SubSeq(c, 1, k)
<1>1. c \in Seq(Body) /\ Len(c) \in Nat /\ Len(c) <= MaxHeight /\ MaxHeight \in Nat
  BY CoinsFlushAssumption DEF Chains
<1>2. SubSeq(c, 1, n) \in Seq(Body) /\ Len(SubSeq(c, 1, n)) = n
  BY <1>1
<1>3. \A k \in 0..n : SubSeq(SubSeq(c, 1, n), 1, k) = SubSeq(c, 1, k)
  BY <1>1, <1>2
<1>. QED
  BY <1>1, <1>2, <1>3 DEF Chains

LEMMA WholeChain ==
    ASSUME NEW c \in Chains
    PROVE  /\ Len(c) \in Nat /\ SubSeq(c, 1, Len(c)) = c
           /\ c # <<>> => /\ Len(c) \in 1..Len(c) /\ pprev(c) = SubSeq(c, 1, Len(c) - 1)
                          /\ pprev(c) \in Chains /\ Len(pprev(c)) = Len(c) - 1
           /\ Len(c) = 0 => c = <<>>
<1>1. c \in Seq(Body) /\ Len(c) \in Nat /\ Len(c) <= MaxHeight /\ MaxHeight \in Nat
  BY CoinsFlushAssumption DEF Chains
<1>2. SubSeq(c, 1, Len(c)) = c /\ (Len(c) = 0 => c = <<>>)
  BY <1>1
<1>3. c # <<>> => Len(c) \in 1..Len(c) /\ Len(c) - 1 \in 0..Len(c)
  BY <1>1
<1>. QED
  BY <1>1, <1>2, <1>3, PrefixChains DEF pprev

LEMMA EmptyChain == <<>> \in Chains /\ Len(<<>>) = 0
BY CoinsFlushAssumption DEF Chains

LEMMA ConnectType ==
    ASSUME NEW c \in Chains, c # <<>>, NEW u \in CoinMap
    PROVE  ConnectBlock(u, c) \in CoinMap
<1>1. Len(c) \in Nat /\ Len(vtx(c)) \in Nat
  BY VtxType, WholeChain
<1>2. AppliesInOrder(u, c)
  BY <1>1, AfterTxsSteps
<1>3. Len(vtx(c)) \in 0..Len(vtx(c))
  BY <1>1
<1>. QED
  BY <1>2, <1>3 DEF AppliesInOrder, ConnectBlock

NoCoins == [o \in Outpoint |-> 0]

\* The function that the definition of Utxo evaluates at Len(c).
Ledger(c) ==
    CHOOSE u : u = [n \in 0..Len(c) |-> IF n = 0 THEN NoCoins
                                        ELSE ConnectBlock(u[n - 1], SubSeq(c, 1, n))]

LEMMA LedgerSteps ==
    ASSUME NEW c \in Chains
    PROVE  /\ Ledger(c)[0] = NoCoins
           /\ \A n \in 1..Len(c) :
                 Ledger(c)[n] = ConnectBlock(Ledger(c)[n - 1], SubSeq(c, 1, n))
           /\ \A n \in 0..Len(c) : Ledger(c)[n] \in CoinMap
<1>. DEFINE N == Len(c)
            step == [n \in 1..N |-> [w \in CoinMap |-> ConnectBlock(w, SubSeq(c, 1, n))]]
            Good(f) == f = [n \in 0..N |-> IF n = 0 THEN NoCoins
                                           ELSE ConnectBlock(f[n - 1], SubSeq(c, 1, n))]
            v == CHOOSE f : Good(f)
<1>0. N \in Nat /\ NoCoins \in CoinMap
  BY WholeChain DEF NoCoins, CoinMap
<1>1. ASSUME NEW n \in 1..N, NEW w \in CoinMap
      PROVE  ConnectBlock(w, SubSeq(c, 1, n)) \in CoinMap
  <2>1. SubSeq(c, 1, n) \in Chains /\ Len(SubSeq(c, 1, n)) = n
    BY <1>0, PrefixChains
  <2>2. SubSeq(c, 1, n) # <<>>
    BY <2>1, EmptyChain
  <2>. QED
    BY <2>1, <2>2, ConnectType, Zenon
<1>2. step \in [1..N -> [CoinMap -> CoinMap]]
  BY <1>1
<1>3. PICK f \in [0..N -> CoinMap] : Iterates(f, NoCoins, step, N)
  <2>. HIDE DEF step, N
  <2>. QED
    BY <1>0, <1>2, IterationExists
<1>4. ASSUME NEW i \in 1..N
      PROVE  i - 1 \in 0..N /\ f[i] = ConnectBlock(f[i - 1], SubSeq(c, 1, i))
  <2>1. i - 1 \in 0..N
    BY <1>0
  <2>2. f[i - 1] \in CoinMap /\ f[i] = step[i][f[i - 1]]
    BY <1>3, <2>1 DEF Iterates
  <2>. QED
    BY <2>1, <2>2
<1>5. Good(f)
  <2>1. f = [n \in 0..N |-> f[n]]
    OBVIOUS
  <2>2. \A n \in 0..N : f[n] = IF n = 0 THEN NoCoins ELSE ConnectBlock(f[n - 1], SubSeq(c, 1, n))
    BY <1>0, <1>3, <1>4 DEF Iterates
  <2>. QED
    BY <2>1, <2>2, Zenon
<1>6. Good(v)
  <2>. HIDE DEF Good
  <2>. QED
    BY <1>5, Zenon
<1>7. Ledger(c) = v
  BY Zenon DEF Ledger
<1>. HIDE DEF v
<1>8. /\ v[0] = NoCoins
      /\ \A n \in 1..N : v[n] = ConnectBlock(v[n - 1], SubSeq(c, 1, n))
  BY <1>0, <1>6
<1>9. \A n \in 0..N : v[n] \in CoinMap
  <2>. DEFINE T == {n \in 0..N : v[n] \in CoinMap}
  <2>1. 0 \in T
    BY <1>0, <1>8
  <2>2. ASSUME NEW n \in 1..N, n - 1 \in T PROVE n \in T
    BY <2>2, <1>0, <1>1, <1>8
  <2>3. 0..N \subseteq T
    <3>. HIDE DEF T, N
    <3>. QED
      BY <1>0, <2>1, <2>2, Induct
  <2>. QED
    BY <2>3
<1>. QED
  BY <1>7, <1>8, <1>9, Zenon

\* A prefix of a chain has the ledger of the chain, so far as it goes.
LEMMA UtxoOfPrefix ==
    ASSUME NEW c \in Chains, NEW k \in 0..Len(c)
    PROVE  Utxo(SubSeq(c, 1, k)) = Ledger(c)[k]
<1>. DEFINE d == SubSeq(c, 1, k)
            T == {n \in 0..k : Ledger(d)[n] = Ledger(c)[n]}
<1>0. d \in Chains /\ Len(d) = k /\ k \in Nat /\ Len(c) \in Nat
  BY PrefixChains, WholeChain
<1>1. 0 \in T
  BY <1>0, LedgerSteps
<1>2. ASSUME NEW n \in 1..k, n - 1 \in T PROVE n \in T
  <2>1. n \in 1..Len(c) /\ n \in 1..Len(d) /\ n \in 0..k
    BY <1>0
  <2>2. Ledger(d)[n] = ConnectBlock(Ledger(d)[n - 1], SubSeq(d, 1, n))
    BY <2>1, <1>0, LedgerSteps, Zenon
  <2>3. Ledger(c)[n] = ConnectBlock(Ledger(c)[n - 1], SubSeq(c, 1, n))
    BY <2>1, LedgerSteps
  <2>4. SubSeq(d, 1, n) = SubSeq(c, 1, n)
    BY <2>1, PrefixChains
  <2>. QED
    BY <1>2, <2>1, <2>2, <2>3, <2>4, Zenon
<1>3. 0..k \subseteq T
  <2>. HIDE DEF T
  <2>. QED
    BY <1>0, <1>1, <1>2, Induct, Zenon
<1>4. k \in T
  BY <1>0, <1>3
<1>5. Utxo(d) = Ledger(d)[Len(d)]
  BY Zenon DEF Utxo, Ledger, NoCoins
<1>. QED
  BY <1>0, <1>4, <1>5

\* What Utxo computes: no coins at genesis, and block after block after that.
LEMMA UtxoSteps ==
    ASSUME NEW c \in Chains
    PROVE  /\ Utxo(c) \in CoinMap
           /\ c = <<>> => Utxo(c) = NoCoins
           /\ c # <<>> => Utxo(c) = ConnectBlock(Utxo(pprev(c)), c)
<1>1. Len(c) \in Nat /\ SubSeq(c, 1, Len(c)) = c /\ Len(c) \in 0..Len(c)
  BY WholeChain
<1>2. Utxo(c) = Ledger(c)[Len(c)]
  BY <1>1, UtxoOfPrefix, Zenon
<1>3. Utxo(c) \in CoinMap
  BY <1>1, <1>2, LedgerSteps
<1>4. ASSUME c = <<>> PROVE Utxo(c) = NoCoins
  BY <1>2, <1>4, EmptyChain, LedgerSteps
<1>5. ASSUME c # <<>> PROVE Utxo(c) = ConnectBlock(Utxo(pprev(c)), c)
  <2>1. Len(c) \in 1..Len(c) /\ pprev(c) = SubSeq(c, 1, Len(c) - 1) /\ Len(c) - 1 \in 0..Len(c)
    BY <1>5, WholeChain
  <2>2. Utxo(pprev(c)) = Ledger(c)[Len(c) - 1]
    BY <2>1, UtxoOfPrefix
  <2>3. Ledger(c)[Len(c)] = ConnectBlock(Ledger(c)[Len(c) - 1], SubSeq(c, 1, Len(c)))
    BY <2>1, LedgerSteps
  <2>. QED
    BY <1>1, <1>2, <2>2, <2>3, Zenon
<1>. QED
  BY <1>3, <1>4, <1>5

-----------------------------------------------------------------------------
(* No transaction is in a chain twice, so none overwrites a coin.           *)

\* The coins u come from the transactions T, whose inputs are spent for good,
\* and T holds no coinbase of a block above h.
Sound(u, T, h) ==
    /\ T \in SUBSET Tx
    /\ \A o \in Outpoint : u[o] # 0 => \E t \in T : o \in Outs[t]
    /\ \A t \in T : \A o \in Ins[t] : u[o] = 0 /\ \E s \in T : o \in Outs[s]
    /\ \A g \in Height : Coinbase[g] \in T => g <= h

\* A transaction that is not in T and whose inputs are unspent creates coins
\* that were not there.
LEMMA SoundTx ==
    ASSUME NEW u \in CoinMap, NEW T, NEW h \in Nat, Sound(u, T, h),
           NEW t \in Tx, t \notin T, \A o \in Ins[t] : u[o] # 0,
           \A g \in Height : Coinbase[g] = t => g <= h
    PROVE  /\ Sound(UpdateCoins(u, t, h), T \cup {t}, h)
           /\ \A o \in Outs[t] : u[o] = 0
           /\ Ins[t] \cap Outs[t] = {}
<1>. DEFINE v == UpdateCoins(u, t, h)
<1>0. /\ T \in SUBSET Tx
      /\ \A s \in Tx : Ins[s] \in SUBSET Outpoint /\ Outs[s] \in SUBSET Outpoint
  BY CoinsFlushAssumption DEF Sound
<1>1. \A s \in T : Outs[s] \cap Outs[t] = {}
  BY <1>0, UniqueAssumption
<1>2. \A o \in Outs[t] : u[o] = 0
  BY <1>0, <1>1, Zenon DEF Sound
<1>3. Ins[t] \cap Outs[t] = {}
  BY <1>2
<1>4. \A o \in Outpoint : v[o] = IF o \in Outs[t] THEN h ELSE IF o \in Ins[t] THEN 0 ELSE u[o]
  BY DEF UpdateCoins
<1>. HIDE DEF v
<1>5. \A o \in Outpoint : v[o] # 0 => \E s \in T \cup {t} : o \in Outs[s]
  BY <1>4 DEF Sound
<1>6. ASSUME NEW s \in T \cup {t}, NEW o \in Ins[s]
      PROVE  v[o] = 0 /\ \E r \in T \cup {t} : o \in Outs[r]
  <2>1. o \in Outpoint
    BY <1>0
  <2>2. CASE s \in T
    <3>1. PICK r \in T : o \in Outs[r]
      BY <2>2 DEF Sound
    <3>2. u[o] = 0 /\ o \notin Outs[t]
      BY <2>2, <3>1, <1>1 DEF Sound
    <3>. QED
      BY <2>1, <3>1, <3>2, <1>4
  <2>3. CASE s = t
    <3>1. o \notin Outs[t] /\ u[o] # 0
      BY <2>3, <1>3
    <3>2. PICK r \in T : o \in Outs[r]
      BY <2>1, <3>1 DEF Sound
    <3>. QED
      BY <2>1, <2>3, <3>1, <3>2, <1>4
  <2>. QED
    BY <2>2, <2>3
<1>7. \A g \in Height : Coinbase[g] \in T \cup {t} => g <= h
  BY DEF Sound
<1>8. Sound(v, T \cup {t}, h)
  BY <1>0, <1>5, <1>6, <1>7 DEF Sound
<1>. QED
  BY <1>2, <1>3, <1>8 DEF v

\* A transaction of T cannot find its inputs again.
LEMMA NotAgain ==
    ASSUME NEW u, NEW T, NEW h, Sound(u, T, h), NEW t, Ins[t] # {}, \A o \in Ins[t] : u[o] # 0
    PROVE  t \notin T
BY DEF Sound

\* The outputs of each transaction of the last block are new when it is
\* applied, and none of them is an input of it.
NoOverwrite(c) ==
    \A n \in 1..Len(vtx(c)) :
        /\ \A o \in Outs[vtx(c)[n]] : AfterTxs(Utxo(pprev(c)), c, n - 1)[o] = 0
        /\ Ins[vtx(c)[n]] \cap Outs[vtx(c)[n]] = {}

LEMMA BlockSound ==
    ASSUME NEW c \in Chains, c # <<>>, CheckTxInputs(Utxo(pprev(c)), c),
           \E T : Sound(Utxo(pprev(c)), T, Len(c) - 1)
    PROVE  (\E T : Sound(Utxo(c), T, Len(c))) /\ NoOverwrite(c)
<1>. DEFINE N == Len(vtx(c))
            a(n) == AfterTxs(Utxo(pprev(c)), c, n)
            Fresh(n) == /\ \A o \in Outs[vtx(c)[n]] : a(n - 1)[o] = 0
                        /\ Ins[vtx(c)[n]] \cap Outs[vtx(c)[n]] = {}
            G == {n \in 0..N : n # 0 => Fresh(n) /\ \E T : Sound(a(n), T, Len(c))}
<1>1. /\ N \in Nat \ {0} /\ vtx(c) \in Seq(Tx) /\ DOMAIN vtx(c) = 1..N
      /\ vtx(c)[1] = Coinbase[Len(c)] /\ Len(c) \in Height /\ Len(c) \in Nat
      /\ \A n \in 2..N : Ins[vtx(c)[n]] # {}
  <2>1. Len(c) \in Nat
    BY WholeChain
  <2>2. vtx(c) \in Seq(Tx)
    BY VtxType
  <2>3. DOMAIN vtx(c) = 1..N
    BY <2>2
  <2>. QED
    BY <2>1, <2>2, <2>3, VtxType
<1>2. Utxo(pprev(c)) \in CoinMap /\ Utxo(c) = a(N)
  BY UtxoSteps, WholeChain DEF ConnectBlock
<1>3. /\ a(0) = Utxo(pprev(c))
      /\ \A n \in 1..N : a(n) = UpdateCoins(a(n - 1), vtx(c)[n], Len(c))
      /\ \A n \in 0..N : a(n) \in CoinMap
  BY <1>1, <1>2, AfterTxsSteps DEF AppliesInOrder
<1>4. \A n \in 1..N : \A o \in Ins[vtx(c)[n]] : a(n - 1)[o] # 0
  BY <1>1 DEF CheckTxInputs
<1>. HIDE DEF a
<1>5. ASSUME NEW n \in 1..N, NEW T, Sound(a(n - 1), T, Len(c)), vtx(c)[n] \notin T,
             \A g \in Height : Coinbase[g] = vtx(c)[n] => g <= Len(c)
      PROVE  Fresh(n) /\ \E S : Sound(a(n), S, Len(c))
  <2>1. vtx(c)[n] \in Tx /\ n - 1 \in 0..N
    BY <1>1
  <2>2. a(n - 1) \in CoinMap /\ a(n) = UpdateCoins(a(n - 1), vtx(c)[n], Len(c))
    BY <1>3, <2>1
  <2>3. \A o \in Ins[vtx(c)[n]] : a(n - 1)[o] # 0
    BY <1>4
  <2>4. PICK w, t : w = a(n - 1) /\ t = vtx(c)[n]
    OBVIOUS
  <2>5. /\ w \in CoinMap /\ Sound(w, T, Len(c)) /\ t \in Tx /\ t \notin T /\ Len(c) \in Nat
        /\ \A o \in Ins[t] : w[o] # 0
        /\ \A g \in Height : Coinbase[g] = t => g <= Len(c)
    BY <1>1, <1>5, <2>1, <2>2, <2>3, <2>4
  <2>6. /\ Sound(UpdateCoins(w, t, Len(c)), T \cup {t}, Len(c))
        /\ \A o \in Outs[t] : w[o] = 0
        /\ Ins[t] \cap Outs[t] = {}
    BY <2>5, SoundTx
  <2>. QED
    BY <2>2, <2>4, <2>6
<1>6. 0 \in G
  BY <1>1
<1>7. ASSUME NEW n \in 1..N, n - 1 \in G PROVE n \in G
  <2>1. CASE n = 1
    <3>1. PICK T : Sound(Utxo(pprev(c)), T, Len(c) - 1)
      OBVIOUS
    <3>2. Sound(a(0), T, Len(c) - 1)
      BY <3>1, <1>3
    <3>3. \A g \in Height : g \in Nat
      BY CoinsFlushAssumption DEF Height
    <3>4. Sound(a(0), T, Len(c)) /\ Coinbase[Len(c)] \notin T
      BY <3>2, <3>3, <1>1 DEF Sound
    <3>5. \A g \in Height : Coinbase[g] = vtx(c)[1] => g <= Len(c)
      BY <1>1, <3>3, UniqueAssumption
    <3>6. n - 1 = 0
      BY <2>1
    <3>. QED
      BY <2>1, <3>4, <3>5, <3>6, <1>1, <1>5
  <2>2. CASE n # 1
    <3>1. n \in 2..N /\ n - 1 # 0
      BY <2>2, <1>1
    <3>2. PICK T : Sound(a(n - 1), T, Len(c))
      BY <1>7, <3>1
    <3>3. Ins[vtx(c)[n]] # {} /\ \A o \in Ins[vtx(c)[n]] : a(n - 1)[o] # 0
      BY <1>1, <1>4, <3>1
    <3>4. vtx(c)[n] \notin T
      BY <3>2, <3>3, NotAgain
    <3>5. \A g \in Height : Coinbase[g] # vtx(c)[n]
      BY <3>3, CoinsFlushAssumption
    <3>. QED
      BY <3>2, <3>4, <3>5, <1>5
  <2>. QED
    BY <2>1, <2>2
<1>8. 0..N \subseteq G
  <2>. HIDE DEF G, N
  <2>. QED
    BY <1>1, <1>6, <1>7, Induct, Zenon
<1>9. \A n \in 1..N : Fresh(n)
  <2>1. \A n \in 1..N : n \in 0..N /\ n # 0
    BY <1>1
  <2>2. \A n \in 1..N : n \in G /\ n # 0
    BY <1>8, <2>1
  <2>. QED
    BY <2>2, Zenon
<1>10. \E T : Sound(a(N), T, Len(c))
  BY <1>1, <1>8
<1>11. NoOverwrite(c)
  BY <1>9, SMTT(30) DEF NoOverwrite, a
<1>. QED
  BY <1>2, <1>10, <1>11

\* Every block of c was connected when its inputs were there.
Valid(c) ==
    \A k \in 1..Len(c) : CheckTxInputs(Utxo(SubSeq(c, 1, k - 1)), SubSeq(c, 1, k))

LEMMA ValidSound ==
    ASSUME NEW c \in Chains, Valid(c), c # <<>>
    PROVE  NoOverwrite(c)
<1>. DEFINE p(k) == SubSeq(c, 1, k)
            T == {k \in 0..Len(c) : /\ \E X : Sound(Utxo(p(k)), X, k)
                                    /\ k # 0 => NoOverwrite(p(k))}
<1>1. /\ Len(c) \in Nat \ {0} /\ p(Len(c)) = c
      /\ \A k \in 0..Len(c) : p(k) \in Chains /\ Len(p(k)) = k
  BY WholeChain, PrefixChains
<1>2. \A k \in 1..Len(c) : p(k) # <<>> /\ pprev(p(k)) = p(k - 1)
  <2>1. ASSUME NEW k \in 1..Len(c) PROVE p(k) # <<>> /\ pprev(p(k)) = p(k - 1)
    <3>1. k - 1 \in 0..k /\ k \in 0..Len(c) /\ k # 0
      BY <1>1
    <3>2. p(k) # <<>>
      BY <3>1, <1>1, EmptyChain
    <3>3. pprev(p(k)) = SubSeq(p(k), 1, k - 1)
      BY <3>1, <3>2, <1>1, WholeChain, Zenon
    <3>. QED
      BY <3>1, <3>2, <3>3, PrefixChains, Zenon
  <2>. QED
    BY <2>1, Zenon
<1>3. 0 \in T
  <2>1. p(0) = <<>> /\ p(0) \in Chains
    BY <1>1, WholeChain
  <2>2. Utxo(p(0)) = NoCoins
    BY <2>1, UtxoSteps, Zenon
  <2>3. Sound(NoCoins, {}, 0)
    BY DEF Sound, NoCoins
  <2>. QED
    BY <1>1, <2>2, <2>3
<1>4. ASSUME NEW k \in 1..Len(c), k - 1 \in T PROVE k \in T
  <2>0. k \in 0..Len(c)
    BY <1>1
  <2>1. p(k) \in Chains /\ p(k) # <<>> /\ Len(p(k)) = k /\ pprev(p(k)) = p(k - 1)
    BY <2>0, <1>1, <1>2, Zenon
  <2>2. CheckTxInputs(Utxo(p(k - 1)), p(k))
    BY DEF Valid
  <2>3. \E X : Sound(Utxo(p(k - 1)), X, k - 1)
    BY <1>4
  <2>. HIDE DEF p
  <2>4. (\E X : Sound(Utxo(p(k)), X, k)) /\ NoOverwrite(p(k))
    BY <2>1, <2>2, <2>3, BlockSound
  <2>. QED
    BY <2>0, <2>4
<1>5. 0..Len(c) \subseteq T
  <2>. HIDE DEF T
  <2>. QED
    BY <1>1, <1>3, <1>4, Induct, Zenon
<1>6. Len(c) \in T /\ Len(c) # 0
  BY <1>1, <1>5
<1>. QED
  BY <1>1, <1>6, Zenon

-----------------------------------------------------------------------------
(* Undoing a block.                                                         *)

UndoesInReverse(u, c) ==
    /\ AfterUndo(u, c, 0) = u
    /\ \A n \in 1..Len(vtx(c)) :
          AfterUndo(u, c, n) = UndoTx(AfterUndo(u, c, n - 1), c, Len(vtx(c)) + 1 - n)
    /\ \A n \in 0..Len(vtx(c)) : AfterUndo(u, c, n) \in CoinMap

LEMMA UndoType ==
    ASSUME NEW c \in Chains, c # <<>>, NEW n \in 1..Len(vtx(c)), NEW u \in CoinMap
    PROVE  UndoTx(u, c, n) \in CoinMap
<1>1. Utxo(pprev(c)) \in CoinMap /\ Len(c) \in Nat /\ Len(vtx(c)) \in Nat
  BY UtxoSteps, WholeChain, VtxType
<1>2. n - 1 \in 0..Len(vtx(c))
  BY <1>1
<1>3. Undo(c, n) \in CoinMap
  BY <1>1, <1>2, AfterTxsSteps DEF AppliesInOrder, Undo
<1>. QED
  BY <1>3 DEF UndoTx, CoinMap

\* What AfterUndo computes.
LEMMA AfterUndoSteps ==
    ASSUME NEW c \in Chains, c # <<>>, NEW u \in CoinMap
    PROVE  UndoesInReverse(u, c)
<1>. DEFINE N == Len(vtx(c))
            step == [n \in 1..N |-> [w \in CoinMap |-> UndoTx(w, c, N + 1 - n)]]
            Good(f) == f = [i \in 0..N |-> IF i = 0 THEN u ELSE UndoTx(f[i - 1], c, N + 1 - i)]
            v == CHOOSE f : Good(f)
<1>0. N \in Nat
  BY VtxType
<1>1. ASSUME NEW n \in 1..N, NEW w \in CoinMap PROVE UndoTx(w, c, N + 1 - n) \in CoinMap
  <2>1. N + 1 - n \in 1..N
    BY <1>0
  <2>. QED
    BY <2>1, UndoType
<1>2. step \in [1..N -> [CoinMap -> CoinMap]]
  BY <1>1
<1>3. PICK f \in [0..N -> CoinMap] : Iterates(f, u, step, N)
  <2>. HIDE DEF step, N
  <2>. QED
    BY <1>0, <1>2, IterationExists
<1>4. ASSUME NEW i \in 1..N
      PROVE  i - 1 \in 0..N /\ f[i] = UndoTx(f[i - 1], c, N + 1 - i)
  <2>1. i - 1 \in 0..N
    BY <1>0
  <2>2. f[i - 1] \in CoinMap /\ f[i] = step[i][f[i - 1]]
    BY <1>3, <2>1 DEF Iterates
  <2>. QED
    BY <2>1, <2>2
<1>5. Good(f)
  <2>1. f = [i \in 0..N |-> f[i]]
    OBVIOUS
  <2>2. \A i \in 0..N : f[i] = IF i = 0 THEN u ELSE UndoTx(f[i - 1], c, N + 1 - i)
    BY <1>0, <1>3, <1>4 DEF Iterates
  <2>. QED
    BY <2>1, <2>2, Zenon
<1>6. Good(v)
  <2>. HIDE DEF Good
  <2>. QED
    BY <1>5, Zenon
<1>7. \A n \in 0..N : AfterUndo(u, c, n) = v[n]
  BY Zenon DEF AfterUndo
<1>. HIDE DEF v
<1>8. /\ v[0] = u
      /\ \A i \in 1..N : v[i] = UndoTx(v[i - 1], c, N + 1 - i)
  BY <1>0, <1>6
<1>9. \A n \in 0..N : v[n] \in CoinMap
  <2>. DEFINE T == {n \in 0..N : v[n] \in CoinMap}
  <2>1. 0 \in T
    BY <1>0, <1>8
  <2>2. ASSUME NEW n \in 1..N, n - 1 \in T PROVE n \in T
    BY <2>2, <1>0, <1>1, <1>8
  <2>3. 0..N \subseteq T
    <3>. HIDE DEF T, N
    <3>. QED
      BY <1>0, <2>1, <2>2, Induct
  <2>. QED
    BY <2>3
<1>10. 0 \in 0..N /\ \A n \in 1..N : n - 1 \in 0..N /\ n \in 0..N
  BY <1>0
<1>. QED
  BY <1>7, <1>8, <1>9, <1>10, Zenon DEF UndoesInReverse

\* Every coin of u is the one of v or the one of w.
Mixed(u, v, w) == \A o \in Outpoint : u[o] \in {v[o], w[o]}

\* The facts about the last block of a valid chain that undoing it needs.
LEMMA BlockFacts ==
    ASSUME NEW c \in Chains, c # <<>>, Valid(c)
    PROVE  /\ Len(vtx(c)) \in Nat \ {0} /\ Len(c) \in Nat /\ vtx(c) \in Seq(Tx)
           /\ Utxo(pprev(c)) \in CoinMap /\ Utxo(c) \in CoinMap
           /\ AppliesInOrder(Utxo(pprev(c)), c)
           /\ Utxo(c) = AfterTxs(Utxo(pprev(c)), c, Len(vtx(c)))
           /\ NoOverwrite(c)
<1>1. Len(vtx(c)) \in Nat \ {0} /\ Len(c) \in Nat /\ vtx(c) \in Seq(Tx)
  BY VtxType, WholeChain
<1>2. Utxo(pprev(c)) \in CoinMap /\ Utxo(c) \in CoinMap
  BY UtxoSteps, WholeChain
<1>3. AppliesInOrder(Utxo(pprev(c)), c)
  BY <1>1, <1>2, AfterTxsSteps
<1>4. Utxo(c) = AfterTxs(Utxo(pprev(c)), c, Len(vtx(c)))
  BY UtxoSteps DEF ConnectBlock
<1>. QED
  BY <1>1, <1>2, <1>3, <1>4, ValidSound

\* Undoing transaction n, from the coins it left or from a mixture of them
\* with other coins w.
LEMMA UndoOne ==
    ASSUME NEW c \in Chains, c # <<>>, Valid(c), NEW n \in 1..Len(vtx(c)),
           NEW u \in CoinMap, NEW w, Mixed(u, AfterTxs(Utxo(pprev(c)), c, n), w)
    PROVE  /\ Mixed(UndoTx(u, c, n), AfterTxs(Utxo(pprev(c)), c, n - 1), w)
           /\ u = AfterTxs(Utxo(pprev(c)), c, n)
                 => /\ UndoTx(u, c, n) = AfterTxs(Utxo(pprev(c)), c, n - 1)
                    /\ \A o \in Outs[vtx(c)[n]] : u[o] = Len(c)
                    /\ \A o \in Ins[vtx(c)[n]] : u[o] = 0
<1>. DEFINE t == vtx(c)[n]
            v == UndoTx(u, c, n)
<1>1. PICK before : before = AfterTxs(Utxo(pprev(c)), c, n - 1)
  OBVIOUS
<1>2. PICK after : after = AfterTxs(Utxo(pprev(c)), c, n)
  OBVIOUS
<1>3. Len(vtx(c)) \in Nat /\ Len(c) \in Nat /\ vtx(c) \in Seq(Tx) /\ t \in Tx
  BY BlockFacts
<1>4. before \in CoinMap /\ after = UpdateCoins(before, t, Len(c))
  <2>1. n - 1 \in 0..Len(vtx(c))
    BY <1>3
  <2>. QED
    BY <1>1, <1>2, <2>1, BlockFacts DEF AppliesInOrder
<1>5. Ins[t] \in SUBSET Outpoint /\ Outs[t] \in SUBSET Outpoint
  BY <1>3, CoinsFlushAssumption
<1>6. (\A o \in Outs[t] : before[o] = 0) /\ Ins[t] \cap Outs[t] = {}
  BY <1>1, BlockFacts, Zenon DEF NoOverwrite
<1>7. v = [o \in Outpoint |-> IF o \in Ins[t] THEN before[o]
                             ELSE IF o \in Outs[t] THEN 0 ELSE u[o]]
  BY <1>1 DEF UndoTx, Undo
<1>8. after = [o \in Outpoint |-> IF o \in Outs[t] THEN Len(c)
                                 ELSE IF o \in Ins[t] THEN 0 ELSE before[o]]
  BY <1>4 DEF UpdateCoins
<1>9. Mixed(u, after, w)
  BY <1>2
<1>. HIDE DEF v, t
<1>10. Mixed(v, before, w)
  <2>1. ASSUME NEW o \in Outpoint PROVE v[o] \in {before[o], w[o]}
    <3>1. u[o] \in {after[o], w[o]}
      BY <1>9 DEF Mixed
    <3>. QED
      BY <3>1, <1>6, <1>7, <1>8
  <2>. QED
    BY <2>1, Zenon DEF Mixed
<1>11. ASSUME u = after
       PROVE  v = before /\ (\A o \in Outs[t] : u[o] = Len(c)) /\ \A o \in Ins[t] : u[o] = 0
  <2>1. \A o \in Outpoint : v[o] = before[o]
    BY <1>6, <1>7, <1>8, <1>11, Zenon
  <2>2. v = before
    BY <2>1, <1>4, <1>7 DEF CoinMap
  <2>. QED
    BY <2>2, <1>5, <1>6, <1>8, <1>11, Zenon
<1>. QED
  BY <1>1, <1>2, <1>10, <1>11 DEF v, t

\* DisconnectBlock takes the coins of a block to those of the block before it,
\* finding every coin as the block left it, and a mixture to a mixture.
LEMMA Disconnects ==
    ASSUME NEW c \in Chains, c # <<>>, Valid(c), NEW u \in CoinMap, NEW w, Mixed(u, Utxo(c), w)
    PROVE  /\ DisconnectBlock(u, c) \in CoinMap
           /\ Mixed(DisconnectBlock(u, c), Utxo(pprev(c)), w)
           /\ u = Utxo(c) => DisconnectBlock(u, c) = Utxo(pprev(c)) /\ Clean(u, c)
<1>. DEFINE N == Len(vtx(c))
            a(n) == AfterTxs(Utxo(pprev(c)), c, n)
            d(n) == AfterUndo(u, c, n)
            T == {n \in 0..N : /\ Mixed(d(n), a(N - n), w)
                               /\ u = Utxo(c) => d(n) = a(N - n)}
<1>1. /\ N \in Nat \ {0} /\ vtx(c) \in Seq(Tx) /\ DOMAIN vtx(c) = 1..N
      /\ a(0) = Utxo(pprev(c)) /\ a(N) = Utxo(c)
  BY BlockFacts DEF AppliesInOrder
<1>2. /\ d(0) = u
      /\ \A n \in 1..N : d(n) = UndoTx(d(n - 1), c, N + 1 - n)
      /\ \A n \in 0..N : d(n) \in CoinMap
  BY AfterUndoSteps DEF UndoesInReverse
<1>3. ASSUME NEW n \in 1..N, NEW x \in CoinMap, Mixed(x, a(n), w)
      PROVE  /\ Mixed(UndoTx(x, c, n), a(n - 1), w)
             /\ x = a(n) => /\ UndoTx(x, c, n) = a(n - 1)
                            /\ \A o \in Outs[vtx(c)[n]] : x[o] = Len(c)
                            /\ \A o \in Ins[vtx(c)[n]] : x[o] = 0
  BY <1>3, UndoOne
<1>. HIDE DEF a, d
<1>4. 0 \in T
  <2>1. N - 0 = N
    BY <1>1
  <2>. QED
    BY <2>1, <1>1, <1>2
<1>5. ASSUME NEW n \in 1..N, n - 1 \in T PROVE n \in T
  <2>. DEFINE m == N + 1 - n
  <2>1. m \in 1..N /\ m - 1 = N - n /\ m = N - (n - 1) /\ n - 1 \in 0..N /\ n \in 0..N
    BY <1>1
  <2>2. Mixed(d(n - 1), a(m), w) /\ (u = Utxo(c) => d(n - 1) = a(m)) /\ d(n - 1) \in CoinMap
    BY <1>2, <1>5, <2>1
  <2>3. d(n) = UndoTx(d(n - 1), c, m)
    BY <1>2
  <2>. HIDE DEF m
  <2>4. Mixed(d(n), a(m - 1), w) /\ (u = Utxo(c) => d(n) = a(m - 1))
    BY <2>1, <2>2, <2>3, <1>3
  <2>. QED
    BY <2>1, <2>4
<1>6. 0..N \subseteq T
  <2>. HIDE DEF T, N
  <2>. QED
    BY <1>1, <1>4, <1>5, Induct, Zenon
<1>7. /\ DisconnectBlock(u, c) = d(N) /\ d(N) \in CoinMap
      /\ Mixed(d(N), a(0), w) /\ (u = Utxo(c) => d(N) = a(0))
  <2>1. N \in 0..N /\ N - N = 0
    BY <1>1
  <2>2. N \in T
    BY <2>1, <1>6
  <2>. QED
    BY <2>1, <2>2, <1>2 DEF DisconnectBlock, d
<1>8. ASSUME u = Utxo(c) PROVE Clean(u, c)
  <2>1. ASSUME NEW n \in 1..N
        PROVE  /\ \A o \in Outs[vtx(c)[n]] : d(N - n)[o] = Len(c)
               /\ \A o \in Ins[vtx(c)[n]] : d(N - n)[o] = 0
    <3>1. N - n \in 0..N /\ N - (N - n) = n
      BY <1>1
    <3>2. N - n \in T
      BY <3>1, <1>6
    <3>3. d(N - n) = a(n) /\ d(N - n) \in CoinMap /\ Mixed(d(N - n), a(n), w)
      BY <1>2, <1>8, <3>1, <3>2
    <3>. QED
      BY <3>3, <1>3
  <2>. QED
    BY <1>1, <2>1 DEF Clean, d
<1>. QED
  BY <1>1, <1>7, <1>8

\* ConnectBlock (RollforwardBlock) takes a mixture to a mixture.
LEMMA Connects ==
    ASSUME NEW c \in Chains, c # <<>>, NEW u \in CoinMap, NEW w, Mixed(u, Utxo(pprev(c)), w)
    PROVE  /\ ConnectBlock(u, c) \in CoinMap
           /\ Mixed(ConnectBlock(u, c), Utxo(c), w)
           /\ u = Utxo(pprev(c)) => ConnectBlock(u, c) = Utxo(c)
<1>. DEFINE N == Len(vtx(c))
            a(n) == AfterTxs(Utxo(pprev(c)), c, n)
            b(n) == AfterTxs(u, c, n)
            T == {n \in 0..N : Mixed(b(n), a(n), w)}
<1>1. N \in Nat /\ Len(c) \in Nat /\ Utxo(pprev(c)) \in CoinMap
  BY VtxType, WholeChain, UtxoSteps
<1>2. /\ b(0) = u
      /\ \A n \in 1..N : b(n) = UpdateCoins(b(n - 1), vtx(c)[n], Len(c))
  BY <1>1, AfterTxsSteps DEF AppliesInOrder
<1>3. /\ a(0) = Utxo(pprev(c))
      /\ \A n \in 1..N : a(n) = UpdateCoins(a(n - 1), vtx(c)[n], Len(c))
  BY <1>1, AfterTxsSteps DEF AppliesInOrder
<1>4. Utxo(c) = ConnectBlock(Utxo(pprev(c)), c)
  BY UtxoSteps
<1>5. Utxo(c) = a(N) /\ ConnectBlock(u, c) = b(N)
  BY <1>4 DEF ConnectBlock
<1>. HIDE DEF a, b
<1>6. 0 \in T
  BY <1>1, <1>2, <1>3
<1>7. ASSUME NEW n \in 1..N, n - 1 \in T PROVE n \in T
  <2>1. Mixed(b(n - 1), a(n - 1), w)
    BY <1>7
  <2>2. Mixed(UpdateCoins(b(n - 1), vtx(c)[n], Len(c)), UpdateCoins(a(n - 1), vtx(c)[n], Len(c)), w)
    BY <2>1, Zenon DEF Mixed, UpdateCoins
  <2>. QED
    BY <2>2, <1>1, <1>2, <1>3
<1>8. 0..N \subseteq T
  <2>. HIDE DEF T, N
  <2>. QED
    BY <1>1, <1>6, <1>7, Induct
<1>9. Mixed(b(N), a(N), w)
  BY <1>1, <1>8
<1>. QED
  BY <1>4, <1>5, <1>9, ConnectType, Zenon

-----------------------------------------------------------------------------
(* The inductive invariant.                                                 *)

GoodChain(c) == c \in Chains /\ Valid(c)

FlushInv ==
    /\ db \in CoinMap /\ coins \in CoinMap /\ todo \subseteq Outpoint
    /\ mode \in {"down", "replay", "flush", "run"}
    /\ GoodChain(chain)
    /\ best = Null \/ GoodChain(best)
    /\ heads # <<>> =>
          /\ heads = <<heads[1], heads[2]>> /\ GoodChain(heads[1])
          /\ heads[2] = Null \/ GoodChain(heads[2])
    /\ DatabaseExact /\ CoinsExact /\ ReplaysToSameHead
    /\ mode = "run" => heads = <<>>
    /\ mode = "down" => coins = db
    /\ mode = "replay" => heads # <<>> /\ Mixed(coins, Utxo(chain), Utxo(heads[1]))
    /\ mode = "flush" => \A o \in Outpoint \ todo : db[o] = coins[o]

LEMMA GoodPrefix ==
    ASSUME NEW c, GoodChain(c), NEW n \in 0..Len(c)
    PROVE  GoodChain(SubSeq(c, 1, n))
<1>. DEFINE d == SubSeq(c, 1, n)
<1>1. c \in Chains /\ Len(c) \in Nat /\ d \in Chains /\ Len(d) = n
  BY WholeChain, PrefixChains DEF GoodChain
<1>2. ASSUME NEW k \in 1..Len(d)
      PROVE  CheckTxInputs(Utxo(SubSeq(d, 1, k - 1)), SubSeq(d, 1, k))
  <2>1. k \in 1..Len(c) /\ k \in 0..n /\ k - 1 \in 0..n
    BY <1>1
  <2>2. SubSeq(d, 1, k) = SubSeq(c, 1, k) /\ SubSeq(d, 1, k - 1) = SubSeq(c, 1, k - 1)
    BY <1>1, <2>1, PrefixChains
  <2>. QED
    BY <2>1, <2>2, Zenon DEF GoodChain, Valid
<1>. QED
  BY <1>1, <1>2 DEF GoodChain, Valid

LEMMA GoodParent ==
    ASSUME NEW c, GoodChain(c), c # <<>>
    PROVE  GoodChain(pprev(c))
<1>1. c \in Chains
  BY DEF GoodChain
<1>2. Len(c) \in Nat /\ Len(c) \in 1..Len(c) /\ pprev(c) = SubSeq(c, 1, Len(c) - 1)
  BY <1>1, WholeChain
<1>3. Len(c) - 1 \in 0..Len(c)
  BY <1>2
<1>. QED
  BY <1>2, <1>3, GoodPrefix

LEMMA GoodAppend ==
    ASSUME NEW c, GoodChain(c), NEW b \in Body, Len(c) < MaxHeight,
           CheckTxInputs(Utxo(c), Append(c, b))
    PROVE  /\ GoodChain(Append(c, b)) /\ Append(c, b) # <<>> /\ pprev(Append(c, b)) = c
<1>. DEFINE d == Append(c, b)
<1>1. c \in Seq(Body) /\ Len(c) \in Nat /\ MaxHeight \in Nat
  BY CoinsFlushAssumption DEF GoodChain, Chains
<1>2. d \in Seq(Body) /\ Len(d) = Len(c) + 1 /\ d # <<>>
  BY <1>1
<1>3. \A k \in 0..Len(c) : SubSeq(d, 1, k) = SubSeq(c, 1, k)
  BY <1>1, <1>2
<1>4. SubSeq(d, 1, Len(c)) = c /\ SubSeq(d, 1, Len(d)) = d
  BY <1>1, <1>2
<1>5. d \in Chains
  BY <1>1, <1>2 DEF Chains
<1>6. ASSUME NEW k \in 1..Len(d)
      PROVE  CheckTxInputs(Utxo(SubSeq(d, 1, k - 1)), SubSeq(d, 1, k))
  <2>1. CASE k = Len(d)
    <3>1. k - 1 = Len(c)
      BY <1>1, <1>2, <2>1
    <3>. QED
      BY <2>1, <3>1, <1>4, Zenon
  <2>2. CASE k # Len(d)
    <3>1. k \in 1..Len(c) /\ k - 1 \in 0..Len(c) /\ k \in 0..Len(c)
      BY <1>1, <1>2, <2>2
    <3>2. SubSeq(d, 1, k - 1) = SubSeq(c, 1, k - 1) /\ SubSeq(d, 1, k) = SubSeq(c, 1, k)
      BY <3>1, <1>3
    <3>. QED
      BY <3>1, <3>2, Zenon DEF GoodChain, Valid
  <2>. QED
    BY <2>1, <2>2
<1>7. pprev(d) = c
  BY <1>1, <1>2, <1>4 DEF pprev
<1>. QED
  BY <1>2, <1>5, <1>6, <1>7 DEF GoodChain, Valid

LEMMA GoodEmpty == GoodChain(<<>>)
BY EmptyChain DEF GoodChain, Valid

\* The null hash is not a block, and BlockOf always gives one.
LEMMA NullBlock ==
    /\ \A c : GoodChain(c) => c # Null /\ BlockOf(c) = c
    /\ BlockOf(Null) = <<>>
<1>1. ASSUME NEW c, GoodChain(c) PROVE c # Null
  <2>1. c \in Seq(Body) /\ Len(c) \in 0..MaxHeight
    BY <1>1, WholeChain, CoinsFlushAssumption DEF GoodChain, Chains
  <2>2. c \in [1..Len(c) -> Body]
    BY <2>1
  <2>. QED
    BY <2>1, <2>2, NullAssumption
<1>. QED
  BY <1>1 DEF BlockOf

LEMMA MixedRefl ==
    ASSUME NEW u, NEW w
    PROVE  Mixed(u, u, w)
BY DEF Mixed

LEMMA FlushInvInit == Init => FlushInv
<1>. SUFFICES ASSUME Init PROVE FlushInv
  OBVIOUS
<1>1. db = NoCoins /\ coins = NoCoins /\ NoCoins \in CoinMap
  BY DEF Init, NoCoins, CoinMap
<1>2. GoodChain(<<>>) /\ Utxo(<<>>) = NoCoins /\ BlockOf(Null) = <<>>
  BY GoodEmpty, EmptyChain, UtxoSteps, NullBlock
<1>. QED
  BY <1>1, <1>2 DEF Init, FlushInv, DatabaseExact, CoinsExact, ReplaysToSameHead

\* Blocks connect and disconnect.
LEMMA FlushInvBlocks ==
    ASSUME FlushInv, (\E b \in Body : ConnectTip(b)) \/ DisconnectTip
    PROVE  FlushInv'
<1>1. /\ mode = "run" /\ heads = <<>> /\ coins = Utxo(chain) /\ GoodChain(chain)
      /\ chain \in Chains /\ coins \in CoinMap
      /\ UNCHANGED <<db, best, heads, mode, todo>>
  BY DEF ConnectTip, DisconnectTip, FlushInv, CoinsExact, GoodChain
<1>2. GoodChain(chain') /\ coins' \in CoinMap /\ coins' = Utxo(chain')
  <2>1. CASE DisconnectTip
    <3>1. chain # <<>> /\ chain' = pprev(chain) /\ coins' = DisconnectBlock(coins, chain)
      BY <2>1 DEF DisconnectTip
    <3>2. GoodChain(chain')
      BY <1>1, <3>1, GoodParent
    <3>3. Valid(chain) /\ Mixed(coins, Utxo(chain), coins)
      BY <1>1, MixedRefl DEF GoodChain
    <3>4. DisconnectBlock(coins, chain) \in CoinMap /\ DisconnectBlock(coins, chain) = Utxo(pprev(chain))
      BY <1>1, <3>1, <3>3, Disconnects
    <3>. QED
      BY <3>1, <3>2, <3>4
  <2>2. ASSUME NEW b \in Body, ConnectTip(b)
        PROVE  GoodChain(chain') /\ coins' \in CoinMap /\ coins' = Utxo(chain')
    <3>1. /\ Len(chain) < MaxHeight /\ CheckTxInputs(Utxo(chain), Append(chain, b))
          /\ chain' = Append(chain, b) /\ coins' = ConnectBlock(coins, chain')
      BY <1>1, <2>2 DEF ConnectTip
    <3>2. GoodChain(chain') /\ chain' # <<>> /\ pprev(chain') = chain
      BY <1>1, <3>1, GoodAppend
    <3>3. chain' \in Chains /\ coins = Utxo(pprev(chain'))
      BY <1>1, <3>2 DEF GoodChain
    <3>4. Mixed(coins, Utxo(pprev(chain')), coins)
      BY <3>3, MixedRefl
    <3>5. ConnectBlock(coins, chain') \in CoinMap /\ ConnectBlock(coins, chain') = Utxo(chain')
      BY <1>1, <3>2, <3>3, <3>4, Connects
    <3>. QED
      BY <3>1, <3>2, <3>5
  <2>. QED
    BY <2>1, <2>2
<1>. QED
  BY <1>1, <1>2 DEF FlushInv, DatabaseExact, CoinsExact, ReplaysToSameHead

\* A flush begins, writes a batch, and ends.
LEMMA FlushInvFlush ==
    ASSUME FlushInv, FlushStateToDisk \/ WriteFinal \/ \E S \in SUBSET todo : WritePartial(S)
    PROVE  FlushInv'
<1>1. CASE FlushStateToDisk
  BY <1>1 DEF FlushStateToDisk, FlushInv, DatabaseExact, CoinsExact, ReplaysToSameHead
<1>2. CASE WriteFinal
  <2>1. /\ mode = "flush" /\ best' = chain /\ heads' = <<>> /\ mode' = "run" /\ todo' = {}
        /\ coins' = coins /\ chain' = chain /\ db' = Batch(todo)
        /\ coins = Utxo(chain) /\ coins \in CoinMap /\ db \in CoinMap /\ GoodChain(chain)
    BY <1>2 DEF WriteFinal, FlushInv, CoinsExact
  <2>2. \A o \in Outpoint : db'[o] = coins[o]
    BY <2>1 DEF Batch, FlushInv
  <2>3. db' = coins
    BY <2>1, <2>2 DEF Batch, CoinMap
  <2>4. BlockOf(chain) = chain
    BY <2>1, NullBlock
  <2>. QED
    BY <2>1, <2>3, <2>4 DEF FlushInv, DatabaseExact, CoinsExact, ReplaysToSameHead
<1>3. ASSUME NEW S \in SUBSET todo, WritePartial(S)
      PROVE  FlushInv'
  <2>1. /\ mode = "flush" /\ best' = Null /\ heads' = <<chain, old_tip>> /\ mode' = mode
        /\ todo' = todo \ S /\ coins' = coins /\ chain' = chain /\ db' = Batch(S)
        /\ coins = Utxo(chain) /\ coins \in CoinMap /\ db \in CoinMap /\ GoodChain(chain)
        /\ todo \subseteq Outpoint
    BY <1>3 DEF WritePartial, FlushInv, CoinsExact
  <2>2. db' \in CoinMap
    BY <2>1 DEF Batch, CoinMap
  <2>3. \A o \in Outpoint \ todo' : db'[o] = coins'[o]
    BY <2>1 DEF Batch, FlushInv
  <2>4. old_tip = Null \/ GoodChain(old_tip)
    BY DEF old_tip, FlushInv
  <2>5. \A o \in Outpoint : db[o] \in {Utxo(BlockOf(old_tip))[o], Utxo(chain)[o]}
    <3>1. CASE heads = <<>>
      <4>1. old_tip = best /\ db = Utxo(BlockOf(best))
        BY <3>1 DEF FlushInv, DatabaseExact, old_tip
      <4>. QED
        BY <4>1
    <3>2. CASE heads # <<>>
      <4>1. heads[1] = chain /\ old_tip = heads[2]
        BY <2>1, <3>2 DEF FlushInv, DatabaseExact, ReplaysToSameHead, old_tip
      <4>. QED
        BY <3>2, <4>1, Zenon DEF FlushInv, DatabaseExact
    <3>. QED
      BY <3>1, <3>2, Zenon
  <2>6. \A o \in Outpoint : db'[o] \in {Utxo(BlockOf(old_tip))[o], Utxo(chain)[o]}
    BY <2>1, <2>5 DEF Batch
  <2>7. heads' # <<>> /\ heads'[1] = chain /\ heads'[2] = old_tip
    BY <2>1
  <2>8. DatabaseExact'
    BY <2>1, <2>6, <2>7 DEF DatabaseExact, BlockOf
  <2>. QED
    BY <2>1, <2>2, <2>3, <2>4, <2>7, <2>8 DEF FlushInv, CoinsExact, ReplaysToSameHead
<1>. QED
  BY <1>1, <1>2, <1>3

\* A crash, and the start-up that follows.
LEMMA FlushInvStart ==
    ASSUME FlushInv, Crash \/ LoadChainTip \/ ReplayBlocks
    PROVE  FlushInv'
<1>1. CASE Crash
  BY <1>1, GoodEmpty DEF Crash, FlushInv, DatabaseExact, CoinsExact, ReplaysToSameHead
<1>2. CASE LoadChainTip
  <2>1. /\ mode = "down" /\ heads = <<>> /\ mode' = "run" /\ chain' = BlockOf(best)
        /\ UNCHANGED <<db, best, heads, coins, todo>> /\ coins = db
    BY <1>2 DEF LoadChainTip, FlushInv
  <2>2. GoodChain(BlockOf(best)) /\ coins = Utxo(BlockOf(best))
    BY <2>1, GoodEmpty, NullBlock DEF FlushInv, DatabaseExact
  <2>. QED
    BY <2>1, <2>2 DEF FlushInv, DatabaseExact, CoinsExact, ReplaysToSameHead
<1>3. CASE ReplayBlocks
  <2>1. /\ mode = "down" /\ heads # <<>> /\ mode' = "replay" /\ chain' = BlockOf(heads[2])
        /\ UNCHANGED <<db, best, heads, coins, todo>> /\ coins = db
    BY <1>3 DEF ReplayBlocks, FlushInv
  <2>2. GoodChain(BlockOf(heads[2])) /\ Mixed(coins, Utxo(BlockOf(heads[2])), Utxo(heads[1]))
    BY <2>1, GoodEmpty, NullBlock DEF FlushInv, DatabaseExact, Mixed
  <2>. QED
    BY <2>1, <2>2 DEF FlushInv, DatabaseExact, CoinsExact, ReplaysToSameHead
<1>. QED
  BY <1>1, <1>2, <1>3

\* The replay.
LEMMA FlushInvReplay ==
    ASSUME FlushInv, RollbackBlock \/ RollforwardBlock \/ ReplayFlush
    PROVE  FlushInv'
<1>1. /\ mode = "replay" /\ heads # <<>> /\ Mixed(coins, Utxo(chain), Utxo(heads[1]))
      /\ GoodChain(chain) /\ GoodChain(heads[1]) /\ chain \in Chains /\ heads[1] \in Chains
      /\ Valid(chain) /\ coins \in CoinMap
      /\ UNCHANGED <<db, best, heads>>
  BY DEF RollbackBlock, RollforwardBlock, ReplayFlush, FlushInv, GoodChain
<1>2. CASE ReplayFlush
  <2>1. /\ chain = heads[1] /\ mode' = "flush" /\ todo' = Outpoint
        /\ UNCHANGED <<coins, chain>>
    BY <1>2 DEF ReplayFlush
  <2>2. \A o \in Outpoint : coins[o] = Utxo(chain)[o]
    BY <1>1, <2>1 DEF Mixed
  <2>3. coins = Utxo(chain)
    BY <1>1, <2>2, UtxoSteps DEF CoinMap
  <2>. QED
    BY <1>1, <2>1, <2>3 DEF FlushInv, DatabaseExact, CoinsExact, ReplaysToSameHead
<1>3. CASE RollbackBlock
  <2>1. /\ ~IsAncestor(chain, heads[1]) /\ coins' = DisconnectBlock(coins, chain)
        /\ chain' = pprev(chain) /\ UNCHANGED <<mode, todo>>
    BY <1>3 DEF RollbackBlock
  <2>2. chain # <<>>
    <3>1. heads[1] \in Seq(Body) /\ Len(heads[1]) \in Nat
      BY <1>1, WholeChain DEF Chains
    <3>2. IsAncestor(<<>>, heads[1])
      BY <3>1 DEF IsAncestor
    <3>. QED
      BY <2>1, <3>2
  <2>3. /\ DisconnectBlock(coins, chain) \in CoinMap
        /\ Mixed(DisconnectBlock(coins, chain), Utxo(pprev(chain)), Utxo(heads[1]))
    BY <1>1, <2>2, Disconnects
  <2>4. GoodChain(pprev(chain))
    BY <1>1, <2>2, GoodParent
  <2>. QED
    BY <1>1, <2>1, <2>3, <2>4 DEF FlushInv, DatabaseExact, CoinsExact, ReplaysToSameHead
<1>4. CASE RollforwardBlock
  <2>1. /\ IsAncestor(chain, heads[1]) /\ chain # heads[1] /\ chain' = SubSeq(heads[1], 1, Len(chain) + 1)
        /\ coins' = ConnectBlock(coins, chain') /\ UNCHANGED <<mode, todo>>
    BY <1>4 DEF RollforwardBlock
  <2>. DEFINE n == Len(chain)
  <2>2. /\ n \in Nat /\ Len(heads[1]) \in Nat /\ SubSeq(chain, 1, n) = chain
        /\ SubSeq(heads[1], 1, Len(heads[1])) = heads[1]
    BY <1>1, WholeChain, Zenon
  <2>3. n <= Len(heads[1]) /\ chain = SubSeq(heads[1], 1, n) /\ chain # heads[1]
    BY <2>1, <2>2 DEF IsAncestor
  <2>4. n < Len(heads[1])
    BY <2>2, <2>3
  <2>. HIDE DEF n
  <2>5. n + 1 \in 0..Len(heads[1]) /\ n \in 0..(n + 1) /\ n + 1 # 0 /\ (n + 1) - 1 = n
    BY <2>2, <2>4
  <2>6. /\ GoodChain(chain') /\ chain' \in Chains /\ Len(chain') = n + 1
        /\ SubSeq(chain', 1, n) = chain
    BY <1>1, <2>1, <2>3, <2>5, GoodPrefix, PrefixChains DEF n
  <2>7. chain' # <<>> /\ pprev(chain') = chain
    <3>1. chain' # <<>>
      BY <2>5, <2>6, EmptyChain
    <3>2. pprev(chain') = SubSeq(chain', 1, Len(chain') - 1)
      BY DEF pprev
    <3>. QED
      BY <3>1, <3>2, <2>5, <2>6
  <2>8. /\ ConnectBlock(coins, chain') \in CoinMap
        /\ Mixed(ConnectBlock(coins, chain'), Utxo(chain'), Utxo(heads[1]))
    BY <1>1, <2>6, <2>7, Connects
  <2>. QED
    BY <1>1, <2>1, <2>6, <2>8 DEF FlushInv, DatabaseExact, CoinsExact, ReplaysToSameHead
<1>. QED
  BY <1>2, <1>3, <1>4

LEMMA FlushInvNext == FlushInv /\ [Next]_vars => FlushInv'
<1>. SUFFICES ASSUME FlushInv, [Next]_vars PROVE FlushInv'
  OBVIOUS
<1>1. CASE (\E b \in Body : ConnectTip(b)) \/ DisconnectTip
  BY <1>1, FlushInvBlocks
<1>2. CASE FlushStateToDisk \/ WriteFinal \/ \E S \in SUBSET todo : WritePartial(S)
  BY <1>2, FlushInvFlush
<1>3. CASE Crash \/ LoadChainTip \/ ReplayBlocks
  BY <1>3, FlushInvStart
<1>4. CASE RollbackBlock \/ RollforwardBlock \/ ReplayFlush
  BY <1>4, FlushInvReplay
<1>5. CASE UNCHANGED vars
  BY <1>5 DEF vars, FlushInv, DatabaseExact, CoinsExact, ReplaysToSameHead
<1>. QED
  BY <1>1, <1>2, <1>3, <1>4, <1>5 DEF Next, Recover

LEMMA FlushInvariant == Spec => []FlushInv
BY FlushInvInit, FlushInvNext, PTL DEF Spec

-----------------------------------------------------------------------------

\* CCoinsViewDB::BatchWrite and ReplayBlocks: a database with a best block
\* holds exactly the coins of that block, and one with head blocks holds, coin
\* by coin, those of the old or of the new tip, whatever crashed and when.
THEOREM DatabaseAlwaysExact == Spec => []DatabaseExact
<1>1. FlushInv => DatabaseExact
  BY DEF FlushInv
<1>. QED
  BY <1>1, FlushInvariant, PTL

\* ConnectBlock, DisconnectBlock and ReplayBlocks: a running node, and a flush,
\* has exactly the coins of its block.
THEOREM CoinsAlwaysExact == Spec => []CoinsExact
<1>1. FlushInv => CoinsExact
  BY DEF FlushInv
<1>. QED
  BY <1>1, FlushInvariant, PTL

\* DisconnectTip: DisconnectBlock of the tip returns DISCONNECT_OK.
THEOREM AlwaysDisconnectsCleanly == Spec => []DisconnectsCleanly
<1>1. FlushInv => DisconnectsCleanly
  <2>. SUFFICES ASSUME FlushInv, mode = "run", chain # <<>> PROVE Clean(coins, chain)
    BY DEF DisconnectsCleanly
  <2>1. chain \in Chains /\ Valid(chain) /\ coins \in CoinMap /\ coins = Utxo(chain)
    BY DEF FlushInv, GoodChain, CoinsExact
  <2>2. Mixed(coins, Utxo(chain), coins)
    BY <2>1, MixedRefl
  <2>. QED
    BY <2>1, <2>2, Disconnects
<1>. QED
  BY <1>1, FlushInvariant, PTL

\* The assertion old_heads[0] == hashBlock of BatchWrite never fails.
THEOREM AlwaysReplaysToSameHead == Spec => []ReplaysToSameHead
<1>1. FlushInv => ReplaysToSameHead
  BY DEF FlushInv
<1>. QED
  BY <1>1, FlushInvariant, PTL
=============================================================================
