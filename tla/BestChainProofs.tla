--------------------------- MODULE BestChainProofs ---------------------------
(***************************************************************************)
(* Theorems about chain selection (BestChain) and their proofs, for every  *)
(* tree of blocks, every work and order of the blocks and every number of  *)
(* threads and calls.                                                      *)
(***************************************************************************)
EXTENDS BestChain, FiniteSetTheorems, WellFoundedInduction, TLAPS

-----------------------------------------------------------------------------
(* The tree of blocks.                                                     *)

\* Induction from parents to children.
LEMMA Climb ==
    ASSUME NEW S, Genesis \in S,
           \A b \in Block \ {Genesis} : Prev[b] \in S => b \in S
    PROVE  Block \subseteq S
<1>. DEFINE Bad == {b \in Block : b \notin S}
<1>1. SUFFICES ASSUME Bad # {} PROVE FALSE
  BY Zenon
<1>2. Bad \in SUBSET (Block \ {Genesis})
  BY Zenon
<1>3. PICK b \in Bad : Prev[b] \notin Bad
  BY <1>1, <1>2, TreeAssumption, Zenon
<1>4. Prev[b] \in Block
  BY <1>2, BestChainAssumption, SMTT(30)
<1>. QED
  BY <1>2, <1>3, <1>4, Zenon

\* Chain unfolds as it is defined.
LEMMA ChainStep ==
    /\ Chain[Genesis] = {Genesis}
    /\ \A b \in Block \ {Genesis} : Chain[b] = {b} \cup Chain[Prev[b]]
<1>. DEFINE Closed(S) == \A c \in S : c # Genesis => Prev[c] \in S
            Reach(b) == {a \in Block : \A S \in SUBSET Block : b \in S /\ Closed(S) => a \in S}
            Eq(f) == f = [b \in Block |-> IF b = Genesis THEN {b} ELSE {b} \cup f[Prev[b]]]
            r == [b \in Block |-> Reach(b)]
<1>0. Genesis \in Block /\ \A b \in Block : b # Genesis => Prev[b] \in Block
  BY BestChainAssumption, Zenon
<1>1. Reach(Genesis) = {Genesis}
  <2>1. {Genesis} \in SUBSET Block /\ Closed({Genesis})
    BY <1>0, Zenon
  <2>. QED
    BY <2>1, <1>0, Zenon
<1>2. ASSUME NEW b \in Block, b # Genesis
      PROVE  Reach(b) = {b} \cup Reach(Prev[b])
  <2>. DEFINE T == {b} \cup Reach(Prev[b])
  <2>1. Prev[b] \in Reach(Prev[b]) /\ T \in SUBSET Block
    BY <1>0, <1>2, Zenon
  <2>2. ASSUME NEW c \in T, c # Genesis PROVE Prev[c] \in T
    <3>1. CASE c = b
      BY <3>1, <2>1, Zenon
    <3>2. CASE c \in Reach(Prev[b])
      <4>1. ASSUME NEW S \in SUBSET Block, Prev[b] \in S, Closed(S) PROVE Prev[c] \in S
        BY <4>1, <3>2, <2>2, Zenon
      <4>. QED
        BY <4>1, <3>2, <2>2, <1>0, Zenon
    <3>. QED
      BY <3>1, <3>2, Zenon
  <2>3. Reach(b) \subseteq T
    BY <2>1, <2>2, Zenon
  <2>4. ASSUME NEW a \in T PROVE a \in Reach(b)
    <3>1. a \in Block
      BY <2>1, Zenon
    <3>2. ASSUME NEW S \in SUBSET Block, b \in S, Closed(S) PROVE a \in S
      BY <3>2, <1>2, Zenon
    <3>. QED
      BY <3>1, <3>2, Zenon
  <2>. QED
    BY <2>3, <2>4, Zenon
<1>3. Eq(r)
  <2>1. \A b \in Block : r[b] = IF b = Genesis THEN {b} ELSE {b} \cup r[Prev[b]]
    <3>. HIDE DEF Reach
    <3>. QED
      BY <1>0, <1>1, <1>2, Zenon
  <2>2. r = [b \in Block |-> r[b]]
    BY Zenon
  <2>. HIDE DEF r
  <2>. QED
    BY <2>1, <2>2, Zenon
<1>4. Eq(Ancestors)
  <2>1. Ancestors = CHOOSE f : Eq(f)
    BY Zenon DEF Ancestors
  <2>. HIDE DEF Eq, r
  <2>. QED
    BY <2>1, <1>3, Zenon
<1>5. \A b \in Block : Chain[b] = Ancestors[b]
  BY Zenon DEF Chain
<1>6. \A b \in Block : Ancestors[b] = IF b = Genesis THEN {b} ELSE {b} \cup Ancestors[Prev[b]]
  <2>. HIDE DEF r
  <2>. QED
    BY <1>4, Zenon
<1>. QED
  BY <1>0, <1>5, <1>6, Zenon

\* A block is in its own chain; the chain of an ancestor is part of it; of two
\* ancestors one descends from the other; and no block descends from itself.
LEMMA ChainOrder ==
    /\ \A b \in Block : b \in Chain[b] /\ Genesis \in Chain[b] /\ Chain[b] \subseteq Block
    /\ \A b \in Block : \A a \in Chain[b] : Chain[a] \subseteq Chain[b]
    /\ \A b \in Block : \A a, c \in Chain[b] : a \in Chain[c] \/ c \in Chain[a]
    /\ \A b \in Block \ {Genesis} : b \notin Chain[Prev[b]]
    /\ \A a, b \in Block : a \in Chain[b] /\ b \in Chain[a] => a = b
<1>0. Genesis \in Block /\ \A b \in Block : b # Genesis => Prev[b] \in Block
  BY BestChainAssumption, Zenon
<1>1. \A b \in Block : b \in Chain[b] /\ Genesis \in Chain[b] /\ Chain[b] \subseteq Block
  <2>. DEFINE S == {b \in Block : b \in Chain[b] /\ Genesis \in Chain[b] /\ Chain[b] \subseteq Block}
  <2>1. Genesis \in S
    BY <1>0, ChainStep, Zenon
  <2>2. \A b \in Block \ {Genesis} : Prev[b] \in S => b \in S
    BY <1>0, ChainStep, SMTT(30)
  <2>3. Block \subseteq S
    <3>. HIDE DEF S
    <3>. QED
      BY <2>1, <2>2, Climb, Zenon
  <2>. QED
    BY <2>3, Zenon
<1>2. \A b \in Block : \A a \in Chain[b] : Chain[a] \subseteq Chain[b]
  <2>. DEFINE S == {b \in Block : \A a \in Chain[b] : Chain[a] \subseteq Chain[b]}
  <2>1. Genesis \in S
    BY <1>0, ChainStep, Zenon
  <2>2. \A b \in Block \ {Genesis} : Prev[b] \in S => b \in S
    BY <1>0, ChainStep, SMTT(30)
  <2>3. Block \subseteq S
    <3>. HIDE DEF S
    <3>. QED
      BY <2>1, <2>2, Climb, Zenon
  <2>. QED
    BY <2>3, Zenon
<1>3. \A b \in Block : \A a, c \in Chain[b] : a \in Chain[c] \/ c \in Chain[a]
  <2>. DEFINE S == {b \in Block : \A a, c \in Chain[b] : a \in Chain[c] \/ c \in Chain[a]}
  <2>1. Genesis \in S
    BY <1>0, ChainStep, Zenon
  <2>2. \A b \in Block \ {Genesis} : Prev[b] \in S => b \in S
    BY <1>0, ChainStep, SMTT(30)
  <2>3. Block \subseteq S
    <3>. HIDE DEF S
    <3>. QED
      BY <2>1, <2>2, Climb, Zenon
  <2>. QED
    BY <2>3, Zenon
<1>4. \A b \in Block \ {Genesis} : b \notin Chain[Prev[b]]
  <2>. DEFINE Bad == {b \in Block \ {Genesis} : b \in Chain[Prev[b]]}
  <2>1. SUFFICES ASSUME Bad # {} PROVE FALSE
    BY Zenon
  <2>2. PICK b \in Bad : Prev[b] \notin Bad
    BY <2>1, TreeAssumption, Zenon
  <2>3. PICK p \in Block : p = Prev[b]
    BY <1>0, Zenon
  <2>4. b \in Block /\ b # Genesis /\ b \in Chain[p] /\ p \in Chain[b]
    BY <2>2, <2>3, <1>1, ChainStep, SMTT(30)
  <2>5. p # Genesis
    BY <2>4, ChainStep, Zenon
  <2>6. p \notin Chain[Prev[p]] /\ Prev[p] \in Block
    BY <2>2, <2>3, <2>5, <1>0, Zenon
  <2>7. Chain[p] = {p} \cup Chain[Prev[p]]
    BY <2>5, ChainStep, Zenon
  <2>8. b # p
    BY <2>3, <2>4, <2>6, Zenon
  <2>9. b \in Chain[Prev[p]]
    BY <2>4, <2>7, <2>8, Zenon
  <2>. QED
    BY <2>4, <2>6, <2>9, <1>2, Zenon
<1>5. ASSUME NEW a \in Block, NEW b \in Block, a \in Chain[b], b \in Chain[a], a # b
      PROVE  FALSE
  <2>1. b # Genesis
    BY <1>5, ChainStep, Zenon
  <2>2. a \in Chain[Prev[b]] /\ Prev[b] \in Block
    BY <1>0, <1>5, <2>1, ChainStep, ZenonT(30)
  <2>. QED
    BY <2>1, <2>2, <1>2, <1>4, <1>5, Zenon
<1>. QED
  BY <1>1, <1>2, <1>3, <1>4, <1>5, ZenonT(30)

\* Some blocks of one chain have a first and a last one.
LEMMA FirstLast ==
    ASSUME NEW g \in Block, NEW S \in SUBSET Chain[g], S # {}
    PROVE  /\ First(S) \in S /\ \A c \in S : First(S) \in Chain[c]
           /\ Last(S) \in S /\ S \subseteq Chain[Last(S)]
<1>0. /\ Genesis \in Block /\ \A b \in Block : b # Genesis => Prev[b] \in Block
      /\ S \subseteq Block
  BY BestChainAssumption, ChainOrder, Zenon
<1>1. \E b \in S : \A c \in S : b \in Chain[c]
  <2>. DEFINE U == {c \in Block : Chain[c] \cap S # {}}
  <2>1. CASE Genesis \in S
    BY <2>1, <1>0, ChainOrder, Zenon
  <2>2. CASE Genesis \notin S
    <3>1. U \in SUBSET (Block \ {Genesis})
      BY <2>2, ChainStep, SMTT(30)
    <3>2. U # {}
      BY <1>0, ChainOrder, Zenon
    <3>3. PICK b \in U : Prev[b] \notin U
      BY <3>1, <3>2, TreeAssumption, Zenon
    <3>4. b \in S /\ b \in Block /\ b # Genesis /\ Chain[Prev[b]] \cap S = {}
      BY <3>1, <3>3, <1>0, ChainStep, SMTT(30)
    <3>5. ASSUME NEW c \in S PROVE b \in Chain[c]
      <4>1. b \in Chain[c] \/ c \in Chain[b]
        BY <3>4, ChainOrder, Zenon
      <4>2. c \in Chain[b] => c = b
        BY <3>4, ChainStep, ZenonT(30)
      <4>. QED
        BY <4>1, <4>2, <3>4, ChainOrder, Zenon
    <3>. QED
      BY <3>4, <3>5, Zenon
  <2>. QED
    BY <2>1, <2>2, Zenon
<1>2. \E b \in S : S \subseteq Chain[b]
  <2>. DEFINE U == {c \in Chain[g] : S \subseteq Chain[c]}
  <2>1. g \in U /\ U \subseteq Block
    BY ChainOrder, Zenon
  <2>2. CASE Genesis \in U
    <3>1. S = {Genesis}
      BY <2>2, ChainStep, Zenon
    <3>. QED
      BY <3>1, ChainStep, Zenon
  <2>3. CASE Genesis \notin U
    <3>1. PICK b \in U : Prev[b] \notin U
      <4>1. U \in SUBSET (Block \ {Genesis}) /\ U # {}
        BY <2>1, <2>3, Zenon
      <4>. HIDE DEF U
      <4>. QED
        BY <4>1, TreeAssumption, Zenon
    <3>2. b \in Block /\ b # Genesis /\ Chain[b] = {b} \cup Chain[Prev[b]]
      BY <2>1, <2>3, <3>1, ChainStep, Zenon
    <3>3. Prev[b] \in Chain[g]
      <4>1. Prev[b] \in Chain[b]
        BY <3>2, <1>0, ChainOrder, Zenon
      <4>. QED
        BY <4>1, <3>1, ChainOrder, Zenon
    <3>4. b \in S
      BY <3>1, <3>2, <3>3, Zenon
    <3>. QED
      BY <3>1, <3>4, Zenon
  <2>. QED
    BY <2>2, <2>3, Zenon
<1>3. First(S) \in S /\ \A c \in S : First(S) \in Chain[c]
  BY <1>1, Zenon DEF First
<1>4. Last(S) \in S /\ S \subseteq Chain[Last(S)]
  BY <1>2, Zenon DEF Last
<1>. QED
  BY <1>3, <1>4, Zenon

\* nChainWork unfolds as it is defined.
LEMMA WorkStep ==
    /\ nChainWork \in [Block -> Nat]
    /\ \A b \in Block \ {Genesis} : nChainWork[Prev[b]] < nChainWork[b]
<1>. DEFINE EqAt(f, c) == f[c] = Proof[c] + (IF c = Genesis THEN 0 ELSE f[Prev[c]])
            Good(f, b) == \A c \in Chain[b] : EqAt(f, c)
            Eq(f) == f = [b \in Block |-> Proof[b] + (IF b = Genesis THEN 0 ELSE f[Prev[b]])]
            pick == [b \in Block |-> CHOOSE f \in [Block -> Nat] : Good(f, b)]
            r == [b \in Block |-> pick[b][b]]
<1>0. /\ Genesis \in Block /\ \A b \in Block : b # Genesis => Prev[b] \in Block
      /\ \A b \in Block : Proof[b] \in Nat /\ Proof[b] > 0
  BY BestChainAssumption, SMTT(30)
<1>1. \A b \in Block : \E f \in [Block -> Nat] : Good(f, b)
  <2>. DEFINE S == {b \in Block : \E f \in [Block -> Nat] : Good(f, b)}
  <2>1. Genesis \in S
    <3>1. [b \in Block |-> Proof[b]] \in [Block -> Nat]
      BY <1>0, Zenon
    <3>2. Good([b \in Block |-> Proof[b]], Genesis)
      BY <1>0, ChainStep, SMTT(30)
    <3>. QED
      BY <1>0, <3>1, <3>2, Zenon
  <2>2. ASSUME NEW b \in Block \ {Genesis}, Prev[b] \in S PROVE b \in S
    <3>1. PICK f \in [Block -> Nat] : Good(f, Prev[b])
      BY <2>2, Zenon
    <3>2. PICK g \in [Block -> Nat] :
             g[b] = Proof[b] + f[Prev[b]] /\ \A c \in Block : c # b => g[c] = f[c]
      <4>1. [f EXCEPT ![b] = Proof[b] + f[Prev[b]]] \in [Block -> Nat]
        BY <1>0, SMTT(30)
      <4>. QED
        BY <4>1, Zenon
    <3>3. Prev[b] \in Block /\ b \notin Chain[Prev[b]] /\ Prev[b] # b
      BY <1>0, ChainOrder, Zenon
    <3>4. ASSUME NEW c \in Chain[b] PROVE EqAt(g, c)
      <4>1. CASE c = b
        BY <4>1, <3>2, <3>3, ZenonT(30)
      <4>2. CASE c # b
        <5>1. c \in Chain[Prev[b]] /\ c \in Block
          BY <4>2, <3>3, ChainStep, ChainOrder, SMTT(30)
        <5>2. c # Genesis => Prev[c] \in Chain[Prev[b]] /\ Prev[c] \in Block
          BY <5>1, <1>0, <3>3, ChainStep, ChainOrder, SMTT(30)
        <5>3. EqAt(f, c)
          BY <3>1, <5>1, ZenonT(30)
        <5>4. g[c] = f[c] /\ (c # Genesis => g[Prev[c]] = f[Prev[c]])
          BY <3>2, <3>3, <4>2, <5>1, <5>2, SMTT(30)
        <5>. QED
          BY <5>3, <5>4, Zenon
      <4>. QED
        BY <4>1, <4>2, Zenon
    <3>. QED
      BY <3>4, Zenon
  <2>3. Block \subseteq S
    <3>. HIDE DEF S
    <3>. QED
      BY <2>1, <2>2, Climb, ZenonT(30)
  <2>. QED
    BY <2>3, Zenon
<1>2. \A b \in Block : \A f, g \in [Block -> Nat] : Good(f, b) /\ Good(g, b) => f[b] = g[b]
  <2>. DEFINE S == {b \in Block : \A f, g \in [Block -> Nat] :
                                     Good(f, b) /\ Good(g, b) => f[b] = g[b]}
  <2>1. Genesis \in S
    BY <1>0, ChainStep, Zenon
  <2>2. ASSUME NEW b \in Block \ {Genesis}, Prev[b] \in S PROVE b \in S
    <3>1. ASSUME NEW f \in [Block -> Nat], NEW g \in [Block -> Nat], Good(f, b), Good(g, b)
          PROVE  f[b] = g[b]
      <4>1. Good(f, Prev[b]) /\ Good(g, Prev[b])
        BY <3>1, ChainStep, SMTT(30)
      <4>2. EqAt(f, b) /\ EqAt(g, b)
        BY <3>1, ChainOrder, Zenon
      <4>3. f[Prev[b]] = g[Prev[b]]
        BY <2>2, <4>1, Zenon
      <4>. QED
        BY <4>2, <4>3, Zenon
    <3>. QED
      BY <3>1, Zenon
  <2>3. Block \subseteq S
    <3>. HIDE DEF S
    <3>. QED
      BY <2>1, <2>2, Climb, SMTT(30)
  <2>. QED
    BY <2>3, Zenon
<1>3. \A b \in Block : pick[b] \in [Block -> Nat] /\ Good(pick[b], b)
  <2>. HIDE DEF Good
  <2>. QED
    BY <1>1, Zenon
<1>. HIDE DEF pick
<1>4. \A b \in Block : r[b] \in Nat /\ r[b] = pick[b][b]
  BY <1>3, Zenon
<1>5. ASSUME NEW b \in Block PROVE EqAt(r, b)
  <2>1. EqAt(pick[b], b)
    BY <1>3, ChainOrder, ZenonT(30)
  <2>2. CASE b = Genesis
    BY <2>1, <2>2, <1>4, SMTT(30)
  <2>3. CASE b # Genesis
    <3>1. Prev[b] \in Block /\ Good(pick[b], Prev[b])
      BY <2>3, <1>0, <1>3, ChainStep, SMTT(30)
    <3>2. pick[b][Prev[b]] = pick[Prev[b]][Prev[b]]
      <4>. HIDE DEF Good
      <4>. QED
        BY <3>1, <1>2, <1>3, ZenonT(30)
    <3>. QED
      BY <2>1, <2>3, <3>1, <3>2, <1>4, SMTT(30)
  <2>. QED
    BY <2>2, <2>3, ZenonT(30)
<1>6. Eq(r)
  <2>1. r = [b \in Block |-> r[b]]
    BY Zenon
  <2>. HIDE DEF r
  <2>. QED
    BY <1>5, <2>1, Zenon
<1>7. Eq(WorkTo)
  <2>1. WorkTo = CHOOSE f : Eq(f)
    BY Zenon DEF WorkTo
  <2>. HIDE DEF Eq, r
  <2>. QED
    BY <2>1, <1>6, Zenon
<1>8. \A b \in Block : WorkTo[b] = Proof[b] + (IF b = Genesis THEN 0 ELSE WorkTo[Prev[b]])
  <2>. HIDE DEF r
  <2>. QED
    BY <1>7, ZenonT(30)
<1>9. \A b \in Block : WorkTo[b] \in Nat
  <2>. DEFINE S == {b \in Block : WorkTo[b] \in Nat}
  <2>1. Genesis \in S
    BY <1>0, <1>8, SMTT(30)
  <2>2. \A b \in Block \ {Genesis} : Prev[b] \in S => b \in S
    BY <1>0, <1>8, SMTT(30)
  <2>3. Block \subseteq S
    <3>. HIDE DEF S
    <3>. QED
      BY <2>1, <2>2, Climb, SMTT(30)
  <2>. QED
    BY <2>3, ZenonT(30)
<1>. QED
  BY <1>0, <1>8, <1>9, SMTT(30) DEF nChainWork

\* A block has more work than its ancestors.
LEMMA WorkGrows ==
    \A b \in Block : \A a \in Chain[b] : a = b \/ nChainWork[a] < nChainWork[b]
<1>. DEFINE S == {b \in Block : \A a \in Chain[b] : a = b \/ nChainWork[a] < nChainWork[b]}
<1>1. Genesis \in S
  BY BestChainAssumption, ChainStep, Zenon
<1>2. ASSUME NEW b \in Block \ {Genesis}, Prev[b] \in S PROVE b \in S
  <2>1. \A a \in Chain[Prev[b]] : a \in Block
    BY <1>2, ChainOrder, Zenon
  <2>2. \A a \in Chain[Prev[b]] : nChainWork[a] < nChainWork[b]
    BY <1>2, <2>1, WorkStep, SMTT(30)
  <2>. QED
    BY <2>2, ChainStep, SMTT(30)
<1>3. Block \subseteq S
  <2>. HIDE DEF S
  <2>. QED
    BY <1>1, <1>2, Climb, SMTT(30)
<1>. QED
  BY <1>3, Zenon

\* CBlockIndexWorkComparator is a total order in which a block comes after its
\* ancestors.
LEMMA WorseOrder ==
    ASSUME NEW id \in [Block -> Int], NEW a \in Block, NEW b \in Block
    PROVE  /\ ~Worse(id, a, a)
           /\ Worse(id, a, b) => ~Worse(id, b, a)
           /\ a # b => Worse(id, a, b) \/ Worse(id, b, a)
           /\ \A c \in Block : Worse(id, a, b) /\ Worse(id, b, c) => Worse(id, a, c)
           /\ a \in Chain[b] => ~Worse(id, b, a)
           /\ a \in Chain[b] /\ a # b => Worse(id, a, b)
<1>1. /\ \A c \in Block : nChainWork[c] \in Nat /\ id[c] \in Int /\ Address[c] \in Nat
      /\ \A c, d \in Block : Address[c] = Address[d] => c = d
  BY WorkStep, BestChainAssumption, SMTT(30) DEF IsInjective
<1>2. a \in Chain[b] => a = b \/ nChainWork[a] < nChainWork[b]
  BY WorkGrows, Zenon
<1>3. \A c \in Block : Worse(id, a, b) /\ Worse(id, b, c) => Worse(id, a, c)
  BY <1>1, SMTT(30) DEF Worse
<1>4. a # b => Worse(id, a, b) \/ Worse(id, b, a)
  <2>1. a # b => Address[a] # Address[b]
    BY <1>1, Zenon
  <2>. QED
    BY <1>1, <2>1, SMTT(30) DEF Worse
<1>5. ~Worse(id, a, a) /\ (Worse(id, a, b) => ~Worse(id, b, a))
  BY <1>1, SMTT(30) DEF Worse
<1>6. a \in Chain[b] /\ a # b => Worse(id, a, b)
  BY <1>2, Zenon DEF Worse
<1>. QED
  BY <1>3, <1>4, <1>5, <1>6, ZenonT(30)

\* A set of numbers has a least one.
LEMMA LeastNumber ==
    ASSUME NEW T \in SUBSET Nat, T # {}
    PROVE  \E x \in T : \A y \in T : x <= y
<1>1. PICK x \in T : \A y \in T : <<y, x>> \notin OpToRel(<, Nat)
  BY WFMin, NatLessThanWellFounded, Zenon
<1>2. \A y \in T : ~(y < x)
  BY <1>1, Zenon DEF OpToRel
<1>. QED
  BY <1>2, SMTT(30)

\* Every set of candidates has a best one.
LEMMA BestIn ==
    ASSUME NEW S \in SUBSET Block, S # {}, nSequenceId \in [Block -> Int]
    PROVE  Best(S) \in S /\ \A c \in S \ {Best(S)} : Worse(nSequenceId, c, Best(S))
<1>. DEFINE Better(b) == {c \in S : Worse(nSequenceId, b, c)}
            T == {Cardinality(Better(b)) : b \in S}
<1>1. \A b \in S : IsFiniteSet(Better(b)) /\ Cardinality(Better(b)) \in Nat
  <2>1. IsFiniteSet(Block)
    BY BestChainAssumption, Zenon
  <2>2. ASSUME NEW b \in S PROVE IsFiniteSet(Better(b))
    <3>1. Better(b) \in SUBSET Block
      BY Zenon
    <3>. HIDE DEF Better
    <3>. QED
      BY <2>1, <3>1, FS_Subset, Zenon
  <2>. HIDE DEF Better
  <2>. QED
    BY <2>2, FS_CardinalityType, Zenon
<1>2. PICK b \in S : \A c \in S : Cardinality(Better(b)) <= Cardinality(Better(c))
  <2>1. T \in SUBSET Nat /\ T # {}
    BY <1>1, Zenon
  <2>2. PICK x \in T : \A y \in T : x <= y
    <3>. HIDE DEF T
    <3>. QED
      BY <2>1, LeastNumber, Zenon
  <2>. QED
    BY <2>2, ZenonT(30)
<1>3. ASSUME NEW c \in S \ {b} PROVE Worse(nSequenceId, c, b)
  <2>1. SUFFICES ASSUME Worse(nSequenceId, b, c) PROVE FALSE
    BY WorseOrder, Zenon
  <2>2. Better(c) \in SUBSET Better(b)
    BY <2>1, WorseOrder, Zenon
  <2>3. c \in Better(b) /\ c \notin Better(c)
    BY <2>1, WorseOrder, ZenonT(30)
  <2>4. Cardinality(Better(c)) <= Cardinality(Better(b)) /\ Cardinality(Better(c)) # Cardinality(Better(b))
    <3>. HIDE DEF Better
    <3>. QED
      BY <1>1, <2>2, <2>3, FS_Subset, Zenon
  <2>. QED
    BY <1>1, <1>2, <2>4, SMTT(30)
<1>. QED
  BY <1>3, Zenon DEF Best

-----------------------------------------------------------------------------
(* The invariants.                                                         *)

\* No ancestor of b is marked as failed; all connect.
Clean(b) == Chain[b] \cap Failed = {}
Sound(b) == \A c \in Chain[b] : verdict[c] # "invalid"

\* A thread is about to look for the best chain.
Busy == \E t \in Thread : pindexMostWork[t] = None

\* TypeOK without mapBlocksUnlinked, and mapBlocksUnlinked.
Typed ==
    /\ verdict \in Verdict
    /\ tip \in linked
    /\ scripts \subseteq linked /\ linked \subseteq data
    /\ data \subseteq index /\ index \subseteq Block
    /\ \A b \in index \ {Genesis} : Prev[b] \in index /\ (b \in linked => Prev[b] \in linked)
    /\ Failed \cup g_failed_blocks \subseteq index \ {Genesis}
    /\ setBlockIndexCandidates \subseteq linked
    /\ nSequenceId \in [Block -> Int]
    /\ nBlockSequenceId \in Int /\ nBlockReverseSequenceId \in Int
    /\ pindexMostWork \in [Thread -> linked \cup {None, Out}]
    /\ calls \in 0..MaxCalls
MapOK ==
    /\ mapBlocksUnlinked \in [Block -> Seq(data \ linked)]
    /\ \A b \in Block : /\ IsInjective(mapBlocksUnlinked[b])
                        /\ \A c \in Range(mapBlocksUnlinked[b]) : c # Genesis /\ Prev[c] = b

\* The active chain, and every block with BLOCK_VALID_SCRIPTS, connects.
Connects == Sound(tip) /\ \A b \in scripts : Sound(b)

\* What is in g_failed_blocks is marked, but for what reconsiderblock left there.
Grudges == g_failed_blocks \subseteq failedValid \cup pardoned

\* The blocks that threads head for are ahead of the tip, and can be reached.
GoalsInv ==
    \A t \in Thread : pindexMostWork[t] \in Block =>
        /\ tip \in Chain[pindexMostWork[t]] /\ pindexMostWork[t] # tip
        /\ Clean(pindexMostWork[t])
        /\ pindexMostWork[t] \in setBlockIndexCandidates

\* No candidate is worse than the tip.
CandInv == \A b \in setBlockIndexCandidates : ~Worse(nSequenceId, b, tip)

\* Unless a thread is about to look, no candidate that can be reached is better
\* than what some thread heads for.
Outdone(b) ==
    \E t \in Thread : /\ pindexMostWork[t] \in Block
                      /\ b = pindexMostWork[t] \/ Worse(nSequenceId, b, pindexMostWork[t])
BestInv == Busy \/ \A b \in setBlockIndexCandidates : Clean(b) => b = tip \/ Outdone(b)

\* A linked block that is not marked is a candidate, or worse than one that
\* connects: the node can always fall back to that one.
Dominated(b) ==
    \E c \in setBlockIndexCandidates : Clean(c) /\ Sound(c) /\ Worse(nSequenceId, b, c)
DomInv ==
    ~tied /\ pardoned = {} =>
        \A b \in linked \ Failed : b \in setBlockIndexCandidates \/ Dominated(b)

RaceInv == Clean(tip) /\ GoalsInv /\ CandInv /\ BestInv /\ DomInv
Inv ==
    /\ Typed /\ MapOK /\ UnlinkedExact /\ Connects /\ Grudges /\ AbortsExplained
    /\ ~raced => RaceInv

-----------------------------------------------------------------------------
(* What the operators of the actions return.                               *)

\* A set of blocks that holds the parents of its members holds their chains.
LEMMA ClosedChains ==
    ASSUME NEW L, L \subseteq Block, \A b \in L \ {Genesis} : Prev[b] \in L
    PROVE  \A b \in L : Chain[b] \subseteq L /\ Genesis \in L
<1>. DEFINE S == {b \in Block : b \in L => Chain[b] \subseteq L}
<1>1. Genesis \in S
  BY BestChainAssumption, ChainStep, Zenon
<1>2. \A b \in Block \ {Genesis} : Prev[b] \in S => b \in S
  BY ChainStep, Zenon
<1>3. Block \subseteq S
  <2>. HIDE DEF S
  <2>. QED
    BY <1>1, <1>2, Climb, Zenon
<1>. QED
  BY <1>3, ChainOrder, Zenon

\* What the types say of chains.
LEMMA TypedChains ==
    ASSUME Typed
    PROVE  /\ tip \in Block /\ linked \subseteq Block /\ Genesis \in linked
           /\ \A b \in linked : Chain[b] \subseteq linked
           /\ \A b \in index : Chain[b] \subseteq index
           /\ Failed \subseteq Block /\ Genesis \notin Failed
<1>1. linked \subseteq Block /\ \A b \in linked \ {Genesis} : Prev[b] \in linked
  BY Zenon DEF Typed
<1>2. index \subseteq Block /\ \A b \in index \ {Genesis} : Prev[b] \in index
  BY Zenon DEF Typed
<1>3. \A b \in linked : Chain[b] \subseteq linked /\ Genesis \in linked
  BY <1>1, ClosedChains, Zenon
<1>4. \A b \in index : Chain[b] \subseteq index
  BY <1>2, ClosedChains, Zenon
<1>. QED
  BY <1>1, <1>3, <1>4, Zenon DEF Typed

\* Marks on descendants of failed blocks change nothing for the chains.
LEMMA MarksBelow ==
    ASSUME NEW M, \A x \in M : x \in Block /\ Chain[x] \cap Failed # {},
           Failed' = Failed \cup M
    PROVE  \A b \in Block : Clean(b)' <=> Clean(b)
<1>1. \A b \in Block : \A x \in M \cap Chain[b] : Chain[b] \cap Failed # {}
  BY ChainOrder, SMTT(30)
<1>. QED
  BY <1>1, Zenon DEF Clean

\* Where a step of ActivateBestChain ends.
StepOK(step, goal) ==
    /\ step.fork \in Chain[tip] /\ step.fork \in Chain[step.tip]
    /\ step.tip \in Chain[goal] /\ Sound(step.tip)
    /\ \/ /\ step.rejected = {} /\ goal \in Chain[tip]
       \/ /\ step.rejected = {} /\ step.tip # step.fork
          /\ step.tip = goal \/ nChainWork[step.tip] > nChainWork[tip]
       \/ \E f \in Chain[goal] \ Chain[tip] :
             /\ step.rejected = {f} /\ f # Genesis
             /\ verdict[f] = "invalid" /\ step.tip = Prev[f]

LEMMA StepFact ==
    ASSUME NEW goal \in Block, tip \in Block, Sound(tip), verdict[Genesis] = "valid"
    PROVE  StepOK(ActivateBestChainStep(goal), goal)
<1>. DEFINE common == Chain[tip] \cap Chain[goal]
<1>0. Genesis \in Block /\ \A b \in Block : b # Genesis => Prev[b] \in Block
  BY BestChainAssumption, Zenon
<1>1. PICK fork : /\ fork = Last(common) /\ fork \in Chain[tip] /\ fork \in Chain[goal]
                  /\ common \subseteq Chain[fork] /\ fork \in Block
  <2>1. common \in SUBSET Chain[goal] /\ common # {} /\ common \subseteq Block
    BY ChainOrder, Zenon
  <2>2. Last(common) \in common /\ common \subseteq Chain[Last(common)]
    <3>. HIDE DEF common
    <3>. QED
      BY <2>1, FirstLast, Zenon
  <2>. QED
    BY <2>1, <2>2, Zenon
<1>. DEFINE path == After(fork, goal)
            stops == Stops(path, goal)
            final == First(stops)
            s == ActivateBestChainStep(goal)
<1>2. s = IF path = {} THEN [fork |-> fork, tip |-> fork, rejected |-> {}]
          ELSE IF verdict[final] = "invalid"
          THEN [fork |-> fork, tip |-> Prev[final], rejected |-> {final}]
          ELSE [fork |-> fork, tip |-> final, rejected |-> {}]
  BY <1>1, Zenon DEF ActivateBestChainStep
<1>3. Sound(fork) /\ fork \in Chain[fork]
  BY <1>1, ChainOrder, SMTT(30) DEF Sound
<1>. HIDE DEF s
<1>4. CASE path = {}
  <2>1. goal \in Chain[tip]
    BY <1>1, <1>4, ChainOrder, ZenonT(30) DEF After
  <2>2. s.fork = fork /\ s.tip = fork /\ s.rejected = {}
    BY <1>2, <1>4, Zenon
  <2>. QED
    BY <1>1, <1>3, <2>1, <2>2, Zenon DEF StepOK, s
<1>5. CASE path # {}
  <2>1. path \subseteq Chain[goal] /\ goal \in path /\ path \cap Chain[tip] = {}
    <3>1. goal \notin Chain[fork]
      BY <1>1, <1>5, ChainOrder, ZenonT(30) DEF After
    <3>. QED
      BY <1>1, <3>1, ChainOrder, ZenonT(30) DEF After
  <2>2. stops \in SUBSET Chain[goal] /\ goal \in stops /\ stops \subseteq path
    BY <2>1, Zenon DEF Stops
  <2>3. final \in stops /\ \A c \in stops : final \in Chain[c]
    <3>. HIDE DEF stops
    <3>. QED
      BY <2>2, FirstLast, ZenonT(30)
  <2>4. /\ final \in path /\ final \in Chain[goal] /\ final \notin Chain[tip] /\ final \in Block
        /\ final \notin Chain[fork] /\ final # Genesis
        /\ verdict[final] = "invalid" \/ final = goal \/ nChainWork[final] > nChainWork[tip]
    <3>1. final \in path /\ final \in Chain[goal] /\ final \in Block
      BY <2>1, <2>2, <2>3, ChainOrder, ZenonT(30)
    <3>2. final \notin Chain[tip] /\ final # Genesis
      BY <2>1, <3>1, ChainOrder, SMTT(30)
    <3>3. verdict[final] = "invalid" \/ final = goal \/ nChainWork[final] > nChainWork[tip]
      <4>. HIDE DEF final
      <4>. QED
        BY <2>3, Zenon DEF Stops
    <3>4. final \notin Chain[fork]
      <4>. HIDE DEF final
      <4>. QED
        BY <3>1, Zenon DEF After
    <3>. QED
      BY <3>1, <3>2, <3>3, <3>4, ZenonT(30)
  <2>5. fork \in Chain[final] /\ fork # final
    BY <1>1, <1>3, <2>4, ChainOrder, SMTT(30)
  <2>6. ASSUME NEW x \in Chain[final], verdict[x] = "invalid" PROVE x = final
    <3>1. CASE x \in Chain[fork]
      BY <1>3, <2>6, <3>1, ZenonT(30) DEF Sound
    <3>2. CASE x \notin Chain[fork]
      <4>1. x \in Chain[goal] /\ x \in Block
        BY <2>4, <2>6, ChainOrder, ZenonT(30)
      <4>2. x \in stops
        BY <2>6, <3>2, <4>1, ZenonT(30) DEF Stops, After
      <4>3. final \in Chain[x]
        BY <2>3, <4>2, ZenonT(30)
      <4>. HIDE DEF final
      <4>. QED
        BY <2>4, <2>6, <4>1, <4>3, ChainOrder, ZenonT(30)
    <3>. QED
      BY <3>1, <3>2, Zenon
  <2>. HIDE DEF final
  <2>7. CASE verdict[final] = "invalid"
    <3>1. s.fork = fork /\ s.tip = Prev[final] /\ s.rejected = {final}
      BY <1>2, <1>5, <2>7, ZenonT(30)
    <3>2. Chain[final] = {final} \cup Chain[Prev[final]] /\ final \notin Chain[Prev[final]]
      BY <2>4, ChainStep, ChainOrder, ZenonT(30)
    <3>3. Prev[final] \in Chain[final] /\ fork \in Chain[Prev[final]]
      BY <1>0, <2>4, <2>5, <3>2, ChainOrder, ZenonT(30)
    <3>4. Sound(Prev[final])
      BY <2>6, <3>2, Zenon DEF Sound
    <3>5. Prev[final] \in Chain[goal]
      BY <2>4, <3>3, ChainOrder, Zenon
    <3>. QED
      BY <1>1, <2>4, <2>7, <3>1, <3>3, <3>4, <3>5, ZenonT(30) DEF StepOK, s
  <2>8. CASE verdict[final] # "invalid"
    <3>1. s.fork = fork /\ s.tip = final /\ s.rejected = {}
      BY <1>2, <1>5, <2>8, ZenonT(30)
    <3>2. Sound(final)
      BY <2>6, <2>8, ZenonT(30) DEF Sound
    <3>. QED
      BY <1>1, <2>4, <2>5, <2>8, <3>1, <3>2, ZenonT(30) DEF StepOK, s
  <2>. QED
    BY <2>7, <2>8, ZenonT(30)
<1>. QED
  BY <1>4, <1>5, Zenon

\* What FindMostWorkChain marks and takes from the candidates descends from
\* failed blocks; the best candidate of the others is what it returns.
HeadingOK(h) ==
    /\ \A x \in h.marked : x \in index \ {Genesis} /\ Chain[x] \cap Failed # {}
    /\ \A x \in h.erased : Chain[x] \cap Failed # {} /\ x \in h.marked \cup Failed
    /\ h.found = None \/ h.found \in linked
BestHeading(h) ==
    /\ h.found = None => /\ setBlockIndexCandidates \ h.erased = {}
                         /\ \A c \in setBlockIndexCandidates : Obstacles(c) # {}
    /\ h.found # None => /\ h.found \in setBlockIndexCandidates
                         /\ Obstacles(h.found) = {}
                         /\ \A c \in setBlockIndexCandidates \ h.erased :
                               c = h.found \/ Worse(nSequenceId, c, h.found)

LEMMA FoundFact ==
    ASSUME Typed
    PROVE  HeadingOK(FindMostWorkChain) /\ BestHeading(FindMostWorkChain)
<1>. DEFINE cands == setBlockIndexCandidates
            usable == {c \in cands : Obstacles(c) = {}}
            found == IF usable = {} THEN None ELSE Best(usable)
            tried == {c \in cands : usable = {} \/ Worse(nSequenceId, found, c)}
            marked == UNION {After(Last(Obstacles(c)), c) : c \in tried}
            erased == marked \cup {Last(Obstacles(c)) : c \in tried}
            h == FindMostWorkChain
<1>0. h.found = found /\ h.marked = marked /\ h.erased = erased
  BY Zenon DEF FindMostWorkChain
<1>1. /\ cands \subseteq linked /\ linked \subseteq index /\ cands \subseteq Block
      /\ nSequenceId \in [Block -> Int] /\ None \notin Block
  BY TypedChains, BestChainAssumption, Zenon DEF Typed
<1>2. usable # {} => /\ found \in usable /\ found \in Block
                     /\ \A c \in usable \ {found} : Worse(nSequenceId, c, found)
  <2>1. usable \in SUBSET Block
    BY <1>1, Zenon
  <2>. HIDE DEF usable
  <2>. QED
    BY <1>1, <2>1, BestIn, ZenonT(30)
<1>3. ASSUME NEW c \in tried
      PROVE  /\ Last(Obstacles(c)) \in Failed /\ Last(Obstacles(c)) \in Chain[c]
             /\ Obstacles(c) \subseteq Chain[Last(Obstacles(c))]
             /\ c \in Block /\ Chain[c] \subseteq index
  <2>1. c \in cands /\ c \in Block /\ Obstacles(c) # {}
    <3>1. CASE usable = {}
      BY <1>1, <3>1, ZenonT(30)
    <3>2. CASE usable # {}
      <4>1. Worse(nSequenceId, found, c) /\ found \in Block /\ c \in Block
        BY <1>1, <1>2, <3>2, ZenonT(30)
      <4>2. ~Worse(nSequenceId, c, found) /\ c # found
        BY <1>1, <4>1, WorseOrder, ZenonT(30)
      <4>3. c \notin usable
        BY <1>2, <3>2, <4>2, Zenon
      <4>. QED
        BY <1>1, <4>3, Zenon
    <3>. QED
      BY <3>1, <3>2, ZenonT(30)
  <2>2. Obstacles(c) \in SUBSET Chain[c] /\ Obstacles(c) \subseteq Failed
    BY Zenon DEF Obstacles, After
  <2>3. Last(Obstacles(c)) \in Obstacles(c) /\ Obstacles(c) \subseteq Chain[Last(Obstacles(c))]
    BY <2>1, <2>2, FirstLast, ZenonT(30)
  <2>. QED
    BY <1>1, <2>1, <2>2, <2>3, TypedChains, ZenonT(30)
<1>4. ASSUME NEW c \in tried, NEW x \in After(Last(Obstacles(c)), c)
      PROVE  x \in index \ {Genesis} /\ Chain[x] \cap Failed # {}
  <2>1. PICK l : l = Last(Obstacles(c)) /\ l \in Failed /\ l \in Chain[c] /\ x \in After(l, c)
    BY <1>3, <1>4, ZenonT(30)
  <2>2. x \in Chain[c] /\ x \notin Chain[l] /\ c \in Block /\ x \in index
    BY <1>3, <2>1, ZenonT(30) DEF After
  <2>3. l \in Block /\ x \in Block
    BY <2>1, <2>2, ChainOrder, ZenonT(30)
  <2>4. l \in Chain[x] /\ x # Genesis
    BY <2>1, <2>2, <2>3, ChainOrder, ZenonT(30)
  <2>. QED
    BY <2>1, <2>2, <2>4, ZenonT(30)
<1>5. HeadingOK(h)
  <2>1. \A x \in marked : x \in index \ {Genesis} /\ Chain[x] \cap Failed # {}
    <3>. HIDE DEF tried
    <3>. QED
      BY <1>4, Zenon
  <2>2. \A c \in tried : Last(Obstacles(c)) \in Failed /\ Chain[Last(Obstacles(c))] \cap Failed # {}
    <3>. HIDE DEF tried
    <3>. QED
      BY <1>3, ChainOrder, ZenonT(30)
  <2>3. found = None \/ found \in linked
    <3>. HIDE DEF found
    <3>. QED
      BY <1>1, <1>2, ZenonT(30) DEF found
  <2>4. \A x \in erased : Chain[x] \cap Failed # {} /\ x \in marked \cup Failed
    <3>. HIDE DEF tried, marked
    <3>. QED
      BY <2>1, <2>2, ZenonT(30)
  <2>. HIDE DEF h, found, marked, erased
  <2>. QED
    BY <1>0, <2>1, <2>3, <2>4, ZenonT(30) DEF HeadingOK
<1>6. ASSUME NEW c \in tried PROVE c \in erased
  <2>1. c = Last(Obstacles(c)) \/ c \in After(Last(Obstacles(c)), c)
    <3>1. Last(Obstacles(c)) \in Block /\ c \in Chain[c]
      BY <1>3, ChainOrder, ZenonT(30)
    <3>. QED
      BY <1>3, <3>1, ChainOrder, ZenonT(30) DEF After
  <2>. HIDE DEF tried
  <2>. QED
    BY <1>6, <2>1, ZenonT(30)
<1>7. BestHeading(h)
  <2>. HIDE DEF erased, h
  <2>1. CASE usable = {}
    <3>1. found = None /\ cands \subseteq tried
      BY <2>1, ZenonT(30)
    <3>. HIDE DEF tried, found
    <3>. QED
      BY <1>0, <1>6, <2>1, <3>1, ZenonT(30) DEF BestHeading
  <2>2. CASE usable # {}
    <3>1. found # None /\ found \in cands /\ Obstacles(found) = {}
      <4>. HIDE DEF found
      <4>. QED
        BY <1>1, <1>2, <2>2, ZenonT(30)
    <3>2. ASSUME NEW c \in cands \ erased, c # found PROVE Worse(nSequenceId, c, found)
      <4>1. ~Worse(nSequenceId, found, c)
        <5>. HIDE DEF found
        <5>. QED
          BY <1>6, <3>2, ZenonT(30)
      <4>. HIDE DEF found
      <4>. QED
        BY <1>1, <1>2, <2>2, <3>2, <4>1, WorseOrder, ZenonT(30)
    <3>. HIDE DEF found
    <3>. QED
      BY <1>0, <3>1, <3>2, ZenonT(30) DEF BestHeading
  <2>. QED
    BY <2>1, <2>2, ZenonT(30)
<1>. QED
  BY <1>5, <1>7, Zenon

-----------------------------------------------------------------------------
(* Steps that leave the chain and the candidates alone.                    *)

\* Marks on blocks that are in no chain of a linked block, or have a failed
\* ancestor, do not matter.
LEMMA RaceSame ==
    ASSUME Typed, RaceInv, Failed \subseteq Failed',
           UNCHANGED <<verdict, tip, linked, nSequenceId, setBlockIndexCandidates,
                       pindexMostWork, tied, pardoned>>,
           \A b \in linked : Clean(b)' <=> Clean(b)
    PROVE  RaceInv'
<1>1. /\ tip \in linked /\ setBlockIndexCandidates \subseteq linked
      /\ \A t \in Thread : pindexMostWork[t] \in Block => pindexMostWork[t] \in linked
  BY BestChainAssumption, Zenon DEF Typed
<1>2. Clean(tip)' /\ CandInv'
  BY <1>1, Zenon DEF RaceInv, CandInv, Worse
<1>3. GoalsInv'
  BY <1>1, Zenon DEF RaceInv, GoalsInv
<1>4. BestInv'
  BY <1>1, Zenon DEF RaceInv, BestInv, Busy, Outdone, Worse
<1>5. DomInv'
  BY <1>1, ZenonT(30) DEF RaceInv, DomInv, Dominated, Sound, Worse
<1>. QED
  BY <1>2, <1>3, <1>4, <1>5, Zenon DEF RaceInv

\* Steps that link nothing and unmark nothing leave what waits as it is.
LEMMA UnlinkedSame ==
    ASSUME MapOK, UnlinkedExact, UNCHANGED <<data, linked, mapBlocksUnlinked>>,
           Failed \cup unmarked \subseteq Failed' \cup unmarked'
    PROVE  MapOK' /\ UnlinkedExact'
<1>1. MapOK' /\ Waiting' = Waiting
  BY Zenon DEF MapOK, Waiting
<1>. QED
  BY <1>1, Zenon DEF UnlinkedExact

\* A thread that enters ActivateBestChain is about to look.
LEMMA Looking ==
    ASSUME Typed, GoalsInv, NEW t \in Thread, UNCHANGED tip,
           pindexMostWork' = [pindexMostWork EXCEPT ![t] = None],
           setBlockIndexCandidates \subseteq setBlockIndexCandidates',
           \A b \in linked : Clean(b) => Clean(b)'
    PROVE  GoalsInv' /\ BestInv'
<1>1. /\ pindexMostWork \in [Thread -> linked \cup {None, Out}]
      /\ None \notin Block /\ Out \notin Block
  BY BestChainAssumption, Zenon DEF Typed
<1>2. Busy'
  BY <1>1, Zenon DEF Busy
<1>3. ASSUME NEW u \in Thread, pindexMostWork'[u] \in Block
      PROVE  pindexMostWork'[u] = pindexMostWork[u] /\ pindexMostWork[u] \in linked
  BY <1>1, <1>3, Zenon
<1>4. GoalsInv'
  BY <1>3, Zenon DEF GoalsInv
<1>. QED
  BY <1>2, <1>4, Zenon DEF BestInv

\* The other thread's block, if a thread may step without a race.
LEMMA NotOvertaken ==
    ASSUME Typed, NEW t \in Thread, ~Overtaken(t), pindexMostWork[t] = Out,
           pindexMostWork' = [pindexMostWork EXCEPT ![t] = None]
    PROVE  GoalsInv' /\ BestInv'
<1>1. /\ pindexMostWork \in [Thread -> linked \cup {None, Out}]
      /\ None \notin Block /\ Out \notin Block
  BY BestChainAssumption, Zenon DEF Typed
<1>2. Busy'
  BY <1>1, Zenon DEF Busy
<1>3. \A u \in Thread : pindexMostWork'[u] \notin Block
  BY <1>1, Zenon DEF Overtaken
<1>. QED
  BY <1>2, <1>3, Zenon DEF BestInv, GoalsInv

\* The failed ancestor that AcceptBlockHeader meets.
LEMMA FailedAncestor ==
    ASSUME Typed, NEW p \in index, FailedAncestors(p) # {}
    PROVE  failedit(p) \in g_failed_blocks \cap Chain[p]
<1>. DEFINE F == FailedAncestors(p)
            T == {Address[f] : f \in F}
<1>1. F \subseteq g_failed_blocks \cap Chain[p] /\ F \subseteq Block
  BY TypedChains, Zenon DEF FailedAncestors, Typed
<1>2. T \in SUBSET Nat /\ T # {}
  BY <1>1, BestChainAssumption, SMTT(30)
<1>3. \E f \in F : \A g \in F : Address[f] <= Address[g]
  <2>1. PICK x \in T : \A y \in T : x <= y
    <3>. HIDE DEF T
    <3>. QED
      BY <1>2, LeastNumber, Zenon
  <2>. QED
    BY <2>1, Zenon
<1>4. failedit(p) \in F
  <2>. HIDE DEF F
  <2>. QED
    BY <1>3, Zenon DEF failedit, F
<1>. QED
  BY <1>1, <1>4, Zenon

LEMMA KeepHeader ==
    ASSUME Inv, NEW b \in Block \ {Genesis}, ProcessNewBlockHeaders(b)
    PROVE  Inv'
<1>. USE DEF orderVars, setVars, pardonVars
<1>0. Typed /\ MapOK /\ UnlinkedExact /\ Connects /\ Grudges /\ Prev[b] \in index \ Failed /\ b \notin index
  BY Zenon DEF Inv, ProcessNewBlockHeaders
<1>1. /\ UNCHANGED <<verdict, data, linked, scripts, failedValid, nSequenceId,
                     nBlockSequenceId, nBlockReverseSequenceId, setBlockIndexCandidates,
                     mapBlocksUnlinked, g_failed_blocks, tip, pindexMostWork, calls,
                     unmarked, pardoned, tied, raced>>
      /\ index' \in {index, index \cup {b}}
  BY Zenon DEF ProcessNewBlockHeaders
<1>2. Connects' /\ Grudges'
  BY <1>0, <1>1, Zenon DEF Connects, Grudges, Sound
<1>3. PICK M : failedChild' = failedChild \cup M
               /\ \A x \in M : x \in index \ {Genesis} /\ Chain[x] \cap Failed # {}
  <2>1. CASE failedChild' = failedChild
    BY <2>1, Zenon
  <2>2. CASE failedChild' # failedChild
    <3>. DEFINE p == Prev[b]
                f == failedit(p)
    <3>1. FailedAncestors(p) # {} /\ f \in failedValid /\ failedChild' = failedChild \cup After(f, p)
      BY <1>0, <2>2, ZenonT(30) DEF ProcessNewBlockHeaders, AcceptBlockHeader
    <3>2. f \in Chain[p] /\ p \in Block /\ Chain[p] \subseteq index
      BY <1>0, <3>1, FailedAncestor, TypedChains, ZenonT(30) DEF Typed
    <3>3. ASSUME NEW x \in After(f, p) PROVE x \in index \ {Genesis} /\ Chain[x] \cap Failed # {}
      <4>1. x \in Chain[p] /\ x \notin Chain[f] /\ x \in Block /\ f \in Block
        BY <3>2, <3>3, ChainOrder, ZenonT(30) DEF After
      <4>2. f \in Chain[x] /\ x # Genesis
        BY <3>2, <4>1, ChainOrder, ZenonT(30)
      <4>. QED
        BY <3>1, <3>2, <4>1, <4>2, ZenonT(30) DEF Failed
    <3>. QED
      BY <3>1, <3>3, ZenonT(30)
  <2>. QED
    BY <2>1, <2>2, Zenon
<1>4. Failed' = Failed \cup M /\ M \subseteq Block
  BY <1>0, <1>1, <1>3, ZenonT(30) DEF Failed, Typed
<1>5. Typed'
  <2>1. Failed' \cup g_failed_blocks' \subseteq index' \ {Genesis}
    BY <1>0, <1>1, <1>3, <1>4, ZenonT(30) DEF Typed
  <2>2. \A c \in index' \ {Genesis} : Prev[c] \in index' /\ (c \in linked' => Prev[c] \in linked')
    BY <1>0, <1>1, Zenon DEF Typed
  <2>. QED
    BY <1>0, <1>1, <2>1, <2>2, ZenonT(30) DEF Typed
<1>6. ASSUME ~raced' PROVE RaceInv'
  <2>1. \A c \in linked : Clean(c)' <=> Clean(c)
    BY <1>0, <1>3, <1>4, MarksBelow, TypedChains, Zenon
  <2>. QED
    BY <1>0, <1>1, <1>4, <1>6, <2>1, RaceSame, ZenonT(30) DEF Inv
<1>7. AbortsExplained'
  <2>1. ASSUME aborted' PROVE pardoned # {}
    <3>1. FailedAncestors(Prev[b]) # {} /\ failedit(Prev[b]) \notin failedValid
      BY <1>0, <2>1, Zenon DEF ProcessNewBlockHeaders, AcceptBlockHeader
    <3>2. failedit(Prev[b]) \in g_failed_blocks
      BY <1>0, <3>1, FailedAncestor, Zenon
    <3>. QED
      BY <1>0, <3>1, <3>2, ZenonT(30) DEF Grudges
  <2>. QED
    BY <1>1, <2>1, Zenon DEF AbortsExplained
<1>8. MapOK' /\ UnlinkedExact'
  BY <1>0, <1>1, <1>4, UnlinkedSame, Zenon
<1>. QED
  BY <1>2, <1>5, <1>6, <1>7, <1>8, ZenonT(30) DEF Inv

-----------------------------------------------------------------------------
(* Blocks that arrive.                                                     *)

\* What waits has data and is not linked.
LEMMA WaitingFact ==
    ASSUME MapOK
    PROVE  \A c \in Waiting : c \in data \ linked /\ c \in Block \ {Genesis}
<1>. SUFFICES ASSUME NEW c \in Waiting PROVE c \in data \ linked
  BY Zenon DEF Waiting
<1>1. Prev[c] \in Block /\ c \in Range(mapBlocksUnlinked[Prev[c]])
  BY BestChainAssumption, Zenon DEF Waiting
<1>2. mapBlocksUnlinked[Prev[c]] \in Seq(data \ linked)
  BY <1>1, Zenon DEF MapOK
<1>3. PICK i \in 1..Len(mapBlocksUnlinked[Prev[c]]) : c = mapBlocksUnlinked[Prev[c]][i]
  BY <1>1, <1>2, SMTT(30) DEF Range
<1>. QED
  BY <1>2, <1>3, SMTT(30)

\* The blocks that ReceivedBlockTransactions links with b.
QueueOK(b, Q) ==
    /\ b \in Q /\ Q \subseteq Block \ {Genesis} /\ Q \cap linked = {}
    /\ Q \subseteq data \cup {b}
    /\ \A c \in Q : c # b => Prev[c] \in Q
    /\ \A c \in Waiting : Prev[c] \in Q => c \in Q

LEMMA QueueFact ==
    ASSUME Typed, MapOK, NEW b \in Block \ {Genesis}, b \notin data
    PROVE  QueueOK(b, Linking(b))
<1>. DEFINE Q == Linking(b)
<1>0. /\ Genesis \in Block /\ \A c \in Block : c # Genesis => Prev[c] \in Block
      /\ linked \subseteq data /\ Genesis \in linked
  BY BestChainAssumption, TypedChains, Zenon DEF Typed
<1>1. \A c \in Q : c \in Block /\ b \in Chain[c] /\ (c = b \/ c \in Waiting)
  BY ChainOrder, Zenon DEF Linking, After
<1>2. b \in Q
  BY ChainOrder, Zenon DEF Linking, After
<1>3. \A c \in Q : c # Genesis /\ c \notin linked /\ c \in data \cup {b}
  BY <1>0, <1>1, WaitingFact, Zenon
<1>4. ASSUME NEW c \in Q, c # b PROVE Prev[c] \in Q
  <2>1. Chain[c] = {c} \cup Chain[Prev[c]] /\ Prev[c] \in Block /\ b \in Chain[Prev[c]]
    BY <1>0, <1>1, <1>3, <1>4, ChainStep, Zenon
  <2>. QED
    BY <1>4, <2>1, Zenon DEF Linking, After
<1>5. ASSUME NEW c \in Waiting, Prev[c] \in Q PROVE c \in Q
  <2>1. c \in Block /\ Chain[c] = {c} \cup Chain[Prev[c]]
    BY <1>5, WaitingFact, ChainStep, Zenon
  <2>. QED
    BY <1>5, <2>1, Zenon DEF Linking, After
<1>. QED
  BY <1>1, <1>2, <1>3, <1>4, <1>5, Zenon DEF QueueOK

\* A block that is linked at once, with those that wait for it.
LEMMA ReceivedLinked ==
    ASSUME Typed, MapOK, NEW b \in Block \ {Genesis}, b \notin data, b \in index',
           Prev[b] \in linked, ReceivedBlockTransactions(b)
    PROVE  \E Q : /\ QueueOK(b, Q) /\ linked' = linked \cup Q /\ data' = data \cup {b}
                  /\ nSequenceId' \in [Block -> Int] /\ nBlockSequenceId' \in Int
                  /\ \A c \in linked : nSequenceId'[c] = nSequenceId[c]
                  /\ setBlockIndexCandidates' =
                       setBlockIndexCandidates \cup {c \in Q : ~Worse(nSequenceId', c, tip)}
                  /\ mapBlocksUnlinked' =
                       [c \in Block |-> IF c \in Q THEN << >> ELSE mapBlocksUnlinked[c]]
<1>. DEFINE Q == Linking(b)
            D(c) == {d \in Q : Before(d, c)}
            id == [c \in Block |-> IF c \in Q THEN nBlockSequenceId + Cardinality(D(c))
                                   ELSE nSequenceId[c]]
<1>1. QueueOK(b, Q)
  BY QueueFact, Zenon
<1>2. /\ linked' = linked \cup Q /\ data' = data \cup {b} /\ nSequenceId' = id
      /\ nBlockSequenceId' = nBlockSequenceId + Cardinality(Q)
      /\ setBlockIndexCandidates' = setBlockIndexCandidates \cup Prune(Q, id, tip)
      /\ mapBlocksUnlinked' = [c \in Block |-> IF c \in Q THEN << >> ELSE mapBlocksUnlinked[c]]
  BY Zenon DEF ReceivedBlockTransactions
<1>3. \A S \in SUBSET Q : Cardinality(S) \in Nat
  <2>1. \A S \in SUBSET Q : S \in SUBSET Block
    BY <1>1, Zenon DEF QueueOK
  <2>. QED
    BY <2>1, BestChainAssumption, FS_Subset, FS_CardinalityType, Zenon
<1>. HIDE DEF Q
<1>4. \A c \in Block : Cardinality(D(c)) \in Nat
  BY <1>3, Zenon
<1>. HIDE DEF D
<1>5. id \in [Block -> Int] /\ nBlockSequenceId' \in Int /\ \A c \in linked : id[c] = nSequenceId[c]
  <2>1. nBlockSequenceId \in Int /\ nSequenceId \in [Block -> Int] /\ linked \subseteq Block
    BY TypedChains, Zenon DEF Typed
  <2>2. Q \cap linked = {}
    BY <1>1, Zenon DEF QueueOK
  <2>. QED
    BY <1>2, <1>3, <1>4, <2>1, <2>2, SMTT(30)
<1>. HIDE DEF id
<1>. QED
  BY <1>1, <1>2, <1>5, Zenon DEF Prune

\* A block whose data is refused or kept back, or is there already.
LEMMA KeepUnstored ==
    ASSUME Inv, NEW t \in Thread, NEW b \in Block \ {Genesis},
           index' = index \cup {b}, Prev[b] \in index,
           \/ /\ pindexMostWork' = [pindexMostWork EXCEPT ![t] = None]
              /\ UNCHANGED failedValid
           \/ /\ failedValid' = failedValid \cup {b} /\ b \notin data
              /\ UNCHANGED pindexMostWork,
           UNCHANGED <<verdict, data, linked, scripts, failedChild, nSequenceId,
                       nBlockSequenceId, nBlockReverseSequenceId, setVars, tip,
                       aborted, calls, pardonVars, tied, raced>>
    PROVE  Inv'
<1>. USE DEF setVars, pardonVars
<1>0. Typed /\ MapOK /\ UnlinkedExact /\ Connects /\ Grudges /\ AbortsExplained
  BY Zenon DEF Inv
<1>1. Failed' \in {Failed, Failed \cup {b}} /\ (b \in linked => Failed' = Failed)
  BY <1>0, Zenon DEF Failed, Typed
<1>2. Typed'
  <2>1. pindexMostWork' \in [Thread -> linked \cup {None, Out}]
    BY <1>0, Zenon DEF Typed
  <2>2. Failed' \cup g_failed_blocks' \subseteq index' \ {Genesis}
    BY <1>0, <1>1, Zenon DEF Typed
  <2>3. \A c \in index' \ {Genesis} : Prev[c] \in index' /\ (c \in linked' => Prev[c] \in linked')
    BY <1>0, Zenon DEF Typed
  <2>. QED
    BY <1>0, <2>1, <2>2, <2>3, Zenon DEF Typed
<1>3. MapOK' /\ UnlinkedExact'
  BY <1>0, <1>1, UnlinkedSame, Zenon
<1>4. Connects' /\ Grudges' /\ AbortsExplained'
  BY <1>0, Zenon DEF Connects, Grudges, AbortsExplained, Sound
<1>5. ASSUME ~raced' PROVE RaceInv'
  <2>0. RaceInv
    BY <1>5, Zenon DEF Inv
  <2>1. \A c \in linked : Clean(c)' <=> Clean(c)
    <3>1. \A c \in linked : b \in Chain[c] => Failed' = Failed
      BY <1>0, <1>1, TypedChains, Zenon
    <3>. QED
      BY <1>1, <3>1, Zenon DEF Clean
  <2>2. CASE UNCHANGED pindexMostWork
    BY <1>0, <1>1, <2>0, <2>1, <2>2, RaceSame, ZenonT(30)
  <2>3. CASE pindexMostWork' = [pindexMostWork EXCEPT ![t] = None]
    <3>1. GoalsInv' /\ BestInv'
      BY <1>0, <2>0, <2>1, <2>3, Looking, ZenonT(30) DEF RaceInv
    <3>2. tip \in linked /\ setBlockIndexCandidates \subseteq linked
      BY <1>0, Zenon DEF Typed
    <3>3. Clean(tip)' /\ CandInv'
      BY <2>0, <2>1, <3>2, Zenon DEF RaceInv, CandInv, Worse
    <3>4. DomInv'
      BY <1>1, <2>0, <2>1, <3>2, Zenon DEF RaceInv, DomInv, Dominated, Sound, Worse
    <3>. QED
      BY <3>1, <3>3, <3>4, Zenon DEF RaceInv
  <2>. QED
    BY <2>2, <2>3, Zenon
<1>. QED
  BY <1>2, <1>3, <1>4, <1>5, Zenon DEF Inv

\* A block that has to wait.
LEMMA KeepWaiting ==
    ASSUME Typed, MapOK, UnlinkedExact, NEW b \in Block \ {Genesis}, b \notin data,
           Prev[b] \notin linked, data' = data \cup {b},
           mapBlocksUnlinked' = IF Prev[b] \in Failed THEN mapBlocksUnlinked
                                ELSE [mapBlocksUnlinked EXCEPT ![Prev[b]] = Append(@, b)],
           UNCHANGED <<linked, failedValid, failedChild, unmarked>>
    PROVE  MapOK' /\ UnlinkedExact'
<1>. DEFINE m == mapBlocksUnlinked
            p == Prev[b]
            D == data \ linked
<1>0. p \in Block /\ m \in [Block -> Seq(D)] /\ D \subseteq data' \ linked' /\ b \in data' \ linked'
  BY BestChainAssumption, Zenon DEF MapOK, Typed
<1>1. Failed' = Failed
  BY Zenon DEF Failed
<1>2. ASSUME NEW c \in Block, m'[c] = m[c]
      PROVE  /\ m'[c] \in Seq(data' \ linked') /\ IsInjective(m'[c])
             /\ Range(m'[c]) = Range(m[c]) /\ \A d \in Range(m'[c]) : d # Genesis /\ Prev[d] = c
  BY <1>0, <1>2, SMTT(30) DEF MapOK
<1>3. CASE p \in Failed
  <2>1. m' = m
    BY <1>3, Zenon
  <2>2. MapOK' /\ Waiting' = Waiting
    BY <1>0, <1>2, <2>1, SMTT(30) DEF MapOK, Waiting
  <2>3. Chain[b] \cap Failed # {}
    BY <1>0, <1>3, ChainStep, ChainOrder, SMTT(30)
  <2>. QED
    BY <1>1, <2>2, <2>3, Zenon DEF UnlinkedExact
<1>4. CASE p \notin Failed
  <2>. DEFINE q == m[p]
              r == Append(q, b)
  <2>1. m' = [m EXCEPT ![p] = r]
    BY <1>4, Zenon
  <2>2. /\ q \in Seq(D) /\ Len(q) \in Nat /\ IsInjective(q) /\ \A i \in 1..Len(q) : q[i] \in D
        /\ \A d \in Range(q) : d # Genesis /\ Prev[d] = p
    BY <1>0, SMTT(30) DEF MapOK
  <2>3. /\ r \in Seq(data' \ linked') /\ Len(r) = Len(q) + 1 /\ r[Len(q) + 1] = b
        /\ \A i \in 1..Len(q) : r[i] = q[i]
    <3>1. q \in Seq(data' \ linked')
      BY <1>0, <2>2, SMTT(30)
    <3>. HIDE DEF q
    <3>. QED
      BY <1>0, <2>2, <3>1, SMTT(30)
  <2>. HIDE DEF r, q
  <2>4. DOMAIN r = 1..(Len(q) + 1) /\ DOMAIN q = 1..Len(q)
    BY <2>2, <2>3, SMTT(30)
  <2>5. Range(r) = Range(q) \cup {b}
    BY <2>2, <2>3, <2>4, SMTT(30) DEF Range
  <2>6. IsInjective(r)
    <3>1. \A i \in 1..Len(q) : r[i] # b
      BY <2>2, <2>3, ZenonT(30)
    <3>. QED
      BY <2>2, <2>3, <2>4, <3>1, SMTT(30) DEF IsInjective
  <2>7. m'[p] = r /\ \A c \in Block : c # p => m'[c] = m[c]
    BY <1>0, <2>1, ZenonT(30)
  <2>8. MapOK'
    <3>1. m' \in [Block -> Seq(data' \ linked')]
      <4>1. \A c \in Block : m'[c] \in Seq(data' \ linked')
        BY <1>2, <2>3, <2>7, ZenonT(30)
      <4>2. m' = [c \in Block |-> m'[c]]
        BY <1>0, <2>1, Zenon
      <4>. QED
        BY <4>1, <4>2, ZenonT(30)
    <3>2. ASSUME NEW c \in Block
          PROVE  IsInjective(m'[c]) /\ \A d \in Range(m'[c]) : d # Genesis /\ Prev[d] = c
      <4>1. CASE c = p
        BY <2>2, <2>5, <2>6, <2>7, <4>1, ZenonT(30)
      <4>2. CASE c # p
        BY <1>2, <2>7, <4>2, ZenonT(30)
      <4>. QED
        BY <4>1, <4>2, ZenonT(30)
    <3>. QED
      BY <3>1, <3>2, Zenon DEF MapOK
  <2>9. Waiting' = Waiting \cup {b}
    <3>1. Range(m'[p]) = Range(m[p]) \cup {b}
      BY <2>5, <2>7, Zenon DEF q
    <3>2. \A c \in Block : c # p => Range(m'[c]) = Range(m[c])
      BY <2>7, Zenon
    <3>3. \A c \in Block \ {Genesis} : Prev[c] \in Block
      BY BestChainAssumption, ZenonT(30)
    <3>4. ASSUME NEW c \in Block \ {Genesis}
          PROVE  c \in Range(m'[Prev[c]]) <=> c \in Range(m[Prev[c]]) \/ c = b
      <4>. HIDE DEF m
      <4>. QED
        BY <3>1, <3>2, <3>3, ZenonT(30)
    <3>. QED
      BY <3>4, ZenonT(30) DEF Waiting
  <2>. QED
    BY <1>1, <2>8, <2>9, Zenon DEF UnlinkedExact
<1>. QED
  BY <1>3, <1>4, Zenon

\* A block that is linked takes along what waited for it.
LEMMA KeepLinked ==
    ASSUME Typed, MapOK, UnlinkedExact, NEW b \in Block \ {Genesis}, b \notin data,
           NEW Q, QueueOK(b, Q), Prev[b] \in linked,
           linked' = linked \cup Q, data' = data \cup {b},
           mapBlocksUnlinked' = [c \in Block |-> IF c \in Q THEN << >> ELSE mapBlocksUnlinked[c]],
           UNCHANGED <<failedValid, failedChild, unmarked>>
    PROVE  MapOK' /\ UnlinkedExact'
<1>. DEFINE m == mapBlocksUnlinked
<1>0. \A c \in Block \ {Genesis} : Prev[c] \in Block
  BY BestChainAssumption, ZenonT(30)
<1>1. \A c \in Block : m'[c] = IF c \in Q THEN << >> ELSE m[c]
  BY Zenon
<1>2. Range(<< >>) = {} /\ IsInjective(<< >>)
  BY SMTT(30) DEF Range, IsInjective
<1>3. ASSUME NEW c \in Block \ Q, NEW d \in Range(m[c])
      PROVE  d \in data' \ linked' /\ d # Genesis /\ Prev[d] = c
  <2>1. d # Genesis /\ Prev[d] = c
    BY <1>3, ZenonT(30) DEF MapOK
  <2>2. d \in data \ linked
    <3>1. m[c] \in Seq(data \ linked)
      BY Zenon DEF MapOK
    <3>2. PICK i \in 1..Len(m[c]) : d = m[c][i]
      BY <1>3, <3>1, SMTT(30) DEF Range
    <3>. QED
      BY <3>1, <3>2, SMTT(30)
  <2>. QED
    BY <2>1, <2>2, ZenonT(30) DEF QueueOK
<1>4. MapOK'
  <2>1. ASSUME NEW c \in Block PROVE m'[c] \in Seq(data' \ linked')
    <3>1. CASE c \in Q
      BY <1>1, <3>1, SMTT(30)
    <3>2. CASE c \notin Q
      <4>1. m'[c] = m[c] /\ m[c] \in Seq(data \ linked)
        BY <1>1, <3>2, Zenon DEF MapOK
      <4>2. \A i \in 1..Len(m[c]) : m[c][i] \in Range(m[c])
        BY <4>1, SMTT(30) DEF Range
      <4>3. \A i \in 1..Len(m[c]) : m[c][i] \in data' \ linked'
        BY <1>3, <3>2, <4>2, ZenonT(30)
      <4>. QED
        BY <4>1, <4>3, SMTT(30)
    <3>. QED
      BY <3>1, <3>2, ZenonT(30)
  <2>2. ASSUME NEW c \in Block
        PROVE  IsInjective(m'[c]) /\ \A d \in Range(m'[c]) : d # Genesis /\ Prev[d] = c
    <3>1. CASE c \in Q
      BY <1>1, <1>2, <3>1, ZenonT(30)
    <3>2. CASE c \notin Q
      <4>1. m'[c] = m[c]
        BY <1>1, <3>2, ZenonT(30)
      <4>. QED
        BY <4>1, ZenonT(30) DEF MapOK
    <3>. QED
      BY <3>1, <3>2, ZenonT(30)
  <2>. QED
    BY <2>1, <2>2, Zenon DEF MapOK
<1>5. \A c \in Block : Range(m'[c]) = IF c \in Q THEN {} ELSE Range(m[c])
  BY <1>1, <1>2, ZenonT(30)
<1>6. \A c \in Waiting : c \in data /\ c # b
  BY WaitingFact, ZenonT(30)
<1>7. Waiting' = {c \in Waiting : Prev[c] \notin Q}
  BY <1>0, <1>5, ZenonT(30) DEF Waiting
<1>8. \A c \in Waiting : c \notin Q => Prev[c] \notin Q
  BY Zenon DEF QueueOK
<1>9. Failed' = Failed
  BY Zenon DEF Failed
<1>. QED
  BY <1>4, <1>7, <1>8, <1>9, ZenonT(30) DEF UnlinkedExact, QueueOK

\* The blocks that are linked are candidates, or worse than the tip.
LEMMA LinkedRace ==
    ASSUME Typed, Typed', RaceInv, Sound(tip), NEW t \in Thread, NEW Q,
           linked' = linked \cup Q, Q \subseteq Block,
           \A c \in linked : nSequenceId'[c] = nSequenceId[c],
           setBlockIndexCandidates' =
               setBlockIndexCandidates \cup {c \in Q : ~Worse(nSequenceId', c, tip)},
           pindexMostWork' = [pindexMostWork EXCEPT ![t] = None],
           UNCHANGED <<verdict, tip, failedValid, failedChild, tied, pardoned>>
    PROVE  RaceInv'
<1>1. Failed' = Failed /\ (\A c \in Block : Clean(c)' <=> Clean(c))
  BY Zenon DEF Failed, Clean
<1>2. tip \in linked /\ setBlockIndexCandidates \subseteq linked /\ linked \subseteq Block /\ tip \in Block
  BY TypedChains, Zenon DEF Typed
<1>3. GoalsInv' /\ BestInv'
  BY <1>1, <1>2, Looking, ZenonT(30) DEF RaceInv
<1>4. \A c, d \in linked : Worse(nSequenceId', c, d) <=> Worse(nSequenceId, c, d)
  BY ZenonT(30) DEF Worse
<1>5. Clean(tip)' /\ CandInv'
  <2>1. \A c \in setBlockIndexCandidates' : ~Worse(nSequenceId', c, tip)
    BY <1>2, <1>4, ZenonT(30) DEF RaceInv, CandInv
  <2>. QED
    BY <1>1, <1>2, <2>1, ZenonT(30) DEF RaceInv, CandInv
<1>6. ASSUME ~tied, pardoned = {}, NEW x \in linked' \ Failed
      PROVE  x \in setBlockIndexCandidates' \/ Dominated(x)'
  <2>. DEFINE Dom(y, d) == /\ d \in setBlockIndexCandidates' /\ d \in Block /\ Clean(d) /\ Sound(d)
                           /\ Worse(nSequenceId', y, d)
  <2>1. ASSUME NEW y \in linked \ Failed, y \notin setBlockIndexCandidates PROVE \E d : Dom(y, d)
    <3>1. PICK d \in setBlockIndexCandidates : Clean(d) /\ Sound(d) /\ Worse(nSequenceId, y, d)
      BY <1>6, <2>1, ZenonT(30) DEF RaceInv, DomInv, Dominated
    <3>. QED
      BY <1>2, <1>4, <2>1, <3>1, ZenonT(30)
  <2>2. \A y : (\E d : Dom(y, d)) => Dominated(y)'
    BY <1>1, Zenon DEF Dominated, Sound
  <2>. HIDE DEF Dom
  <2>3. CASE x \in linked
    BY <1>6, <2>1, <2>2, <2>3, Zenon
  <2>4. CASE x \in Q /\ Worse(nSequenceId', x, tip)
    <3>1. tip \notin Failed
      BY <1>2, ChainOrder, Zenon DEF RaceInv, Clean
    <3>2. CASE tip \in setBlockIndexCandidates
      <4>1. Dom(x, tip)
        BY <1>2, <2>4, <3>2, ZenonT(30) DEF Dom, RaceInv
      <4>. QED
        BY <2>2, <4>1, ZenonT(30)
    <3>3. CASE tip \notin setBlockIndexCandidates
      <4>1. PICK d : Dom(tip, d)
        BY <1>2, <2>1, <3>1, <3>3, ZenonT(30)
      <4>2. Worse(nSequenceId', x, d)
        <5>1. nSequenceId' \in [Block -> Int] /\ d \in Block /\ Worse(nSequenceId', tip, d)
          BY <4>1, Zenon DEF Dom, Typed
        <5>. QED
          BY <1>2, <2>4, <5>1, WorseOrder, ZenonT(30)
      <4>3. Dom(x, d)
        BY <4>1, <4>2, ZenonT(30) DEF Dom
      <4>. QED
        BY <2>2, <4>3, ZenonT(30)
    <3>. QED
      BY <3>2, <3>3, Zenon
  <2>. QED
    BY <1>6, <2>3, <2>4, ZenonT(30)
<1>7. DomInv'
  BY <1>1, <1>6, Zenon DEF DomInv
<1>. QED
  BY <1>3, <1>5, <1>7, ZenonT(30) DEF RaceInv

LEMMA KeepBlock ==
    ASSUME Inv, NEW t \in Thread, NEW b \in Block, NEW fRequested \in BOOLEAN,
           ProcessNewBlock(t, b, fRequested)
    PROVE  Inv'
<1>. USE DEF setVars, pardonVars
<1>0. Typed /\ MapOK /\ UnlinkedExact /\ Connects /\ Grudges /\ AbortsExplained
  BY Zenon DEF Inv
<1>1. /\ b \in Block \ {Genesis} /\ index' = index \cup {b} /\ Prev[b] \in index
      /\ UNCHANGED <<verdict, scripts, failedChild, g_failed_blocks, tip,
                     nBlockReverseSequenceId, aborted, calls, unmarked, pardoned,
                     tied, raced>>
  BY <1>0, Zenon DEF ProcessNewBlock, AcceptBlockHeader, Typed
<1>2. CASE UNCHANGED <<data, linked, nSequenceId, nBlockSequenceId,
                       setBlockIndexCandidates, mapBlocksUnlinked>>
            /\ \/ /\ pindexMostWork' = [pindexMostWork EXCEPT ![t] = None]
                  /\ UNCHANGED failedValid
               \/ /\ failedValid' = failedValid \cup {b} /\ b \notin data
                  /\ UNCHANGED pindexMostWork
  BY <1>1, <1>2, KeepUnstored, ZenonT(30)
<1>3. CASE /\ b \notin data /\ ReceivedBlockTransactions(b)
           /\ pindexMostWork' = [pindexMostWork EXCEPT ![t] = None]
           /\ UNCHANGED failedValid
  <2>0. Failed' = Failed /\ b \notin linked /\ linked \subseteq Block
    BY <1>0, <1>1, <1>3, TypedChains, ZenonT(30) DEF Failed, Typed
  <2>1. Connects' /\ Grudges' /\ AbortsExplained'
    BY <1>0, <1>1, <1>3, ZenonT(30) DEF Connects, Grudges, AbortsExplained, Sound
  <2>2. CASE Prev[b] \in linked
    <3>1. PICK Q : /\ QueueOK(b, Q) /\ linked' = linked \cup Q /\ data' = data \cup {b}
                   /\ nSequenceId' \in [Block -> Int] /\ nBlockSequenceId' \in Int
                   /\ \A c \in linked : nSequenceId'[c] = nSequenceId[c]
                   /\ setBlockIndexCandidates' =
                        setBlockIndexCandidates \cup {c \in Q : ~Worse(nSequenceId', c, tip)}
                   /\ mapBlocksUnlinked' =
                        [c \in Block |-> IF c \in Q THEN << >> ELSE mapBlocksUnlinked[c]]
      BY <1>0, <1>1, <1>3, <2>2, ReceivedLinked, ZenonT(30)
    <3>2. MapOK' /\ UnlinkedExact'
      BY <1>0, <1>1, <1>3, <2>2, <3>1, KeepLinked, ZenonT(30)
    <3>3. Typed'
      <4>1. /\ b \in Q /\ Q \subseteq Block \ {Genesis} /\ Q \subseteq data'
            /\ \A c \in Q : c # b => Prev[c] \in Q
        BY <3>1, ZenonT(30) DEF QueueOK
      <4>2. \A c \in index' \ {Genesis} : Prev[c] \in index' /\ (c \in linked' => Prev[c] \in linked')
        BY <1>0, <1>1, <2>2, <3>1, <4>1, ZenonT(30) DEF Typed
      <4>3. /\ tip' \in linked' /\ scripts' \subseteq linked' /\ linked' \subseteq data'
            /\ data' \subseteq index' /\ index' \subseteq Block /\ setBlockIndexCandidates' \subseteq linked'
        BY <1>0, <1>1, <3>1, <4>1, ZenonT(30) DEF Typed
      <4>4. pindexMostWork' \in [Thread -> linked' \cup {None, Out}]
        BY <1>0, <1>3, <3>1, ZenonT(30) DEF Typed
      <4>. QED
        BY <1>0, <1>1, <2>0, <3>1, <4>2, <4>3, <4>4, ZenonT(30) DEF Typed
    <3>4. ASSUME ~raced' PROVE RaceInv'
      <4>1. Q \subseteq Block /\ RaceInv /\ Sound(tip)
        BY <1>0, <1>1, <3>1, <3>4, ZenonT(30) DEF QueueOK, Inv, Connects
      <4>. QED
        BY <1>0, <1>1, <1>3, <3>1, <3>3, <4>1, LinkedRace, ZenonT(30)
    <3>. QED
      BY <2>1, <3>2, <3>3, <3>4, ZenonT(30) DEF Inv
  <2>3. CASE Prev[b] \notin linked
    <3>1. /\ data' = data \cup {b}
          /\ mapBlocksUnlinked' = IF Prev[b] \in Failed THEN mapBlocksUnlinked
                                  ELSE [mapBlocksUnlinked EXCEPT ![Prev[b]] = Append(@, b)]
          /\ UNCHANGED <<linked, nSequenceId, nBlockSequenceId, setBlockIndexCandidates>>
      BY <1>3, <2>3, ZenonT(30) DEF ReceivedBlockTransactions
    <3>2. MapOK' /\ UnlinkedExact'
      BY <1>0, <1>1, <1>3, <2>3, <3>1, KeepWaiting, ZenonT(30)
    <3>3. Typed'
      <4>1. \A c \in index' \ {Genesis} : Prev[c] \in index' /\ (c \in linked' => Prev[c] \in linked')
        BY <1>0, <1>1, <2>0, <3>1, ZenonT(30) DEF Typed
      <4>2. pindexMostWork' \in [Thread -> linked' \cup {None, Out}]
        BY <1>0, <1>3, <3>1, ZenonT(30) DEF Typed
      <4>. QED
        BY <1>0, <1>1, <2>0, <3>1, <4>1, <4>2, ZenonT(30) DEF Typed
    <3>4. ASSUME ~raced' PROVE RaceInv'
      <4>1. RaceInv /\ Sound(tip)
        BY <1>0, <1>1, <3>4, ZenonT(30) DEF Inv, Connects
      <4>2. PICK Q : Q = {}
        BY ZenonT(30)
      <4>3. /\ linked' = linked \cup Q /\ Q \subseteq Block
            /\ \A c \in linked : nSequenceId'[c] = nSequenceId[c]
            /\ setBlockIndexCandidates' =
                 setBlockIndexCandidates \cup {c \in Q : ~Worse(nSequenceId', c, tip)}
        BY <3>1, <4>2, ZenonT(30)
      <4>. QED
        BY <1>0, <1>1, <1>3, <3>3, <4>1, <4>3, LinkedRace, ZenonT(30)
    <3>. QED
      BY <2>1, <3>2, <3>3, <3>4, SMTT(30) DEF Inv
  <2>. QED
    BY <2>2, <2>3, Zenon
<1>. QED
  BY <1>1, <1>2, <1>3, ZenonT(30) DEF ProcessNewBlock

LEMMA KeepEnter ==
    ASSUME Inv, NEW t \in Thread, Enter(t)
    PROVE  Inv'
<1>. USE DEF statusVars, orderVars, setVars, pardonVars
<1>0. Typed /\ MapOK /\ UnlinkedExact /\ Connects /\ Grudges /\ AbortsExplained
  BY ZenonT(30) DEF Inv
<1>1. /\ pindexMostWork' = [pindexMostWork EXCEPT ![t] = None]
      /\ UNCHANGED <<verdict, index, data, linked, scripts, failedValid, failedChild,
                     nSequenceId, nBlockSequenceId, nBlockReverseSequenceId,
                     setBlockIndexCandidates, mapBlocksUnlinked, g_failed_blocks, tip,
                     aborted, calls, unmarked, pardoned, tied, raced>>
  BY ZenonT(30) DEF Enter
<1>2. Failed' = Failed
  BY <1>1, ZenonT(30) DEF Failed
<1>3. Typed'
  <2>1. pindexMostWork' \in [Thread -> linked \cup {None, Out}]
    BY <1>0, <1>1, ZenonT(30) DEF Typed
  <2>. QED
    BY <1>0, <1>1, <1>2, <2>1, ZenonT(30) DEF Typed
<1>4. MapOK' /\ UnlinkedExact'
  BY <1>0, <1>1, <1>2, UnlinkedSame, ZenonT(30)
<1>5. Connects' /\ Grudges' /\ AbortsExplained'
  BY <1>0, <1>1, ZenonT(30) DEF Connects, Grudges, AbortsExplained, Sound
<1>6. ASSUME ~raced' PROVE RaceInv'
  <2>1. RaceInv /\ Sound(tip)
    BY <1>0, <1>1, <1>6, Zenon DEF Inv, Connects
  <2>2. PICK Q : Q = {}
    BY Zenon
  <2>3. /\ linked' = linked \cup Q /\ Q \subseteq Block
        /\ \A c \in linked : nSequenceId'[c] = nSequenceId[c]
        /\ setBlockIndexCandidates' =
             setBlockIndexCandidates \cup {c \in Q : ~Worse(nSequenceId', c, tip)}
    BY <1>1, <2>2, Zenon
  <2>. QED
    BY <1>1, <1>0, <1>3, <2>1, <2>3, LinkedRace, ZenonT(30)
<1>. QED
  BY <1>3, <1>4, <1>5, <1>6, ZenonT(30) DEF Inv

-----------------------------------------------------------------------------
(* Turns of the loop of ActivateBestChain.                                 *)

\* The order of the candidates.
LEMMA Order ==
    ASSUME Typed
    PROVE  \A a, b \in Block :
              /\ ~Worse(nSequenceId, a, a)
              /\ Worse(nSequenceId, a, b) => ~Worse(nSequenceId, b, a)
              /\ a # b => Worse(nSequenceId, a, b) \/ Worse(nSequenceId, b, a)
              /\ \A c \in Block : Worse(nSequenceId, a, b) /\ Worse(nSequenceId, b, c)
                                      => Worse(nSequenceId, a, c)
              /\ a \in Chain[b] => ~Worse(nSequenceId, b, a)
              /\ a \in Chain[b] /\ a # b => Worse(nSequenceId, a, b)
<1>1. nSequenceId \in [Block -> Int]
  BY Zenon DEF Typed
<1>. QED
  BY <1>1, WorseOrder, Zenon

\* What a turn heads for, if no chain was changed under a cached goal.
RaceHead(t, h) ==
    /\ h.found = None => setBlockIndexCandidates \ h.erased = {}
    /\ h.found # None => /\ h.found \in setBlockIndexCandidates \ h.erased
                         /\ h.found \in Block /\ Clean(h.found)
    /\ pindexMostWork[t] = None => \A c \in setBlockIndexCandidates \ h.erased :
                                      c = h.found \/ Worse(nSequenceId, c, h.found)
    /\ pindexMostWork[t] # None => h.found = pindexMostWork[t] /\ h.found \notin {None, tip}

LEMMA HeadFact ==
    ASSUME Typed, NEW t \in Thread, pindexMostWork[t] # Out
    PROVE  HeadingOK(Heading(t)) /\ (RaceInv => RaceHead(t, Heading(t)))
<1>. DEFINE h == Heading(t)
<1>0. /\ pindexMostWork[t] \in linked \cup {None} /\ None \notin Block /\ linked \subseteq Block
      /\ setBlockIndexCandidates \subseteq linked
  BY TypedChains, BestChainAssumption, Zenon DEF Typed
<1>1. CASE pindexMostWork[t] = None
  <2>1. h = FindMostWorkChain
    BY <1>1, Zenon DEF Heading
  <2>. HIDE DEF h
  <2>2. HeadingOK(h) /\ BestHeading(h)
    BY <2>1, FoundFact, Zenon
  <2>3. ASSUME RaceInv, h.found # None
        PROVE  Clean(h.found) /\ h.found \in setBlockIndexCandidates \ h.erased /\ h.found \in Block
    <3>1. h.found \in setBlockIndexCandidates /\ Obstacles(h.found) = {} /\ h.found \in Block
      BY <1>0, <2>2, <2>3, Zenon DEF BestHeading
    <3>2. Clean(h.found)
      BY <2>3, <3>1, Zenon DEF RaceInv, Clean, Obstacles, After
    <3>. QED
      BY <2>2, <3>1, <3>2, Zenon DEF HeadingOK, Clean
  <2>. QED
    BY <1>1, <2>2, <2>3, Zenon DEF RaceHead, BestHeading, h
<1>2. CASE pindexMostWork[t] # None
  <2>1. h.found = pindexMostWork[t] /\ h.marked = {} /\ h.erased = {} /\ h.found \in linked
    BY <1>0, <1>2, Zenon DEF Heading
  <2>. HIDE DEF h
  <2>2. HeadingOK(h)
    BY <2>1, Zenon DEF HeadingOK
  <2>3. ASSUME RaceInv PROVE RaceHead(t, h)
    BY <1>0, <1>2, <2>1, <2>3, Zenon DEF RaceHead, RaceInv, GoalsInv
  <2>. QED
    BY <2>2, <2>3, Zenon DEF h
<1>. QED
  BY <1>1, <1>2, Zenon

\* Candidates that are erased have a failed ancestor, and are marked.
LEMMA SettleRace ==
    ASSUME Typed, RaceInv, NEW t \in Thread, NEW h, HeadingOK(h), RaceHead(t, h),
           h.found \in {None, tip}, Failed' = Failed \cup h.marked,
           pindexMostWork' = [pindexMostWork EXCEPT ![t] = Out],
           setBlockIndexCandidates' = setBlockIndexCandidates \ h.erased,
           UNCHANGED <<verdict, tip, linked, nSequenceId, tied, pardoned>>
    PROVE  RaceInv'
<1>0. /\ tip \in Block /\ linked \subseteq Block /\ setBlockIndexCandidates \subseteq linked
      /\ pindexMostWork \in [Thread -> linked \cup {None, Out}] /\ Out \notin Block
  BY TypedChains, BestChainAssumption, ZenonT(30) DEF Typed
<1>1. \A b \in Block : Clean(b)' <=> Clean(b)
  <2>1. \A x \in h.marked : x \in Block /\ Chain[x] \cap Failed # {}
    BY ZenonT(30) DEF HeadingOK, Typed
  <2>. QED
    BY <2>1, MarksBelow, ZenonT(30)
<1>2. \A b \in h.erased : ~Clean(b) /\ b \in Failed'
  BY ZenonT(30) DEF HeadingOK, Clean
<1>3. Clean(tip)' /\ CandInv'
  BY <1>0, <1>1, ZenonT(30) DEF RaceInv, CandInv, Worse
<1>4. GoalsInv'
  <2>1. ASSUME NEW u \in Thread, pindexMostWork'[u] \in Block
        PROVE  pindexMostWork'[u] = pindexMostWork[u]
    BY <1>0, <2>1, Zenon
  <2>. QED
    BY <1>1, <1>2, <2>1, SMTT(30) DEF RaceInv, GoalsInv
<1>5. BestInv'
  <2>1. ASSUME NEW b \in setBlockIndexCandidates' PROVE b = tip
    <3>1. h.found = tip /\ pindexMostWork[t] = None
      BY <1>0, <2>1, ZenonT(30) DEF RaceHead
    <3>2. b = tip \/ Worse(nSequenceId, b, tip)
      BY <2>1, <3>1, ZenonT(30) DEF RaceHead
    <3>. QED
      BY <2>1, <3>2, ZenonT(30) DEF RaceInv, CandInv
  <2>. QED
    BY <2>1, ZenonT(30) DEF BestInv
<1>6. DomInv'
  <2>1. ASSUME NEW b, Dominated(b) PROVE Dominated(b)'
    <3>1. PICK c \in setBlockIndexCandidates : Clean(c) /\ Sound(c) /\ Worse(nSequenceId, b, c)
      BY <2>1, ZenonT(30) DEF Dominated
    <3>. QED
      BY <1>0, <1>1, <1>2, <3>1, ZenonT(30) DEF Dominated, Sound, Worse
  <2>. QED
    BY <1>2, <2>1, ZenonT(30) DEF RaceInv, DomInv
<1>. QED
  BY <1>3, <1>4, <1>5, <1>6, ZenonT(30) DEF RaceInv

LEMMA AdvanceRace ==
    ASSUME Typed, Connects, RaceInv, NEW t \in Thread, NEW h, HeadingOK(h), RaceHead(t, h),
           h.found \notin {None, tip}, ~Overtaken(t),
           NEW step, StepOK(step, h.found), NEW kept,
           kept = IF step.tip = step.fork THEN setBlockIndexCandidates \ h.erased
                  ELSE Prune(setBlockIndexCandidates \ h.erased, nSequenceId, step.tip),
           tip' = step.tip, tip' \in linked, Failed' = Failed \cup h.marked \cup step.rejected,
           setBlockIndexCandidates' = kept \ step.rejected,
           pindexMostWork' = [pindexMostWork EXCEPT ![t] = CacheAfter(step, h.found)],
           UNCHANGED <<verdict, linked, nSequenceId, tied, pardoned>>
    PROVE  RaceInv' /\ kept # {}
<1>. DEFINE goal == h.found
            cands == setBlockIndexCandidates
            S == cands \ h.erased
            R == step.rejected
            e == step.tip
            W(a, b) == Worse(nSequenceId, a, b)
<1>0. /\ tip \in Block /\ linked \subseteq Block /\ cands \subseteq linked /\ cands \subseteq Block
      /\ pindexMostWork \in [Thread -> linked \cup {None, Out}]
      /\ None \notin Block /\ Out \notin Block /\ e \in Block
  BY TypedChains, BestChainAssumption, ZenonT(30) DEF Typed
<1>1. \A a, b \in Block :
         /\ ~W(a, a) /\ (W(a, b) => ~W(b, a)) /\ (a # b => W(a, b) \/ W(b, a))
         /\ \A c \in Block : W(a, b) /\ W(b, c) => W(a, c)
         /\ a \in Chain[b] => ~W(b, a)
         /\ a \in Chain[b] /\ a # b => W(a, b)
  BY Order, ZenonT(30)
<1>. HIDE DEF W
<1>2. goal \in S /\ goal \in Block /\ Clean(goal) /\ W(tip, goal) /\ goal \notin Chain[tip]
  <2>1. goal \in S /\ goal \in Block /\ Clean(goal)
    BY Zenon DEF RaceHead
  <2>2. ~W(goal, tip)
    BY <2>1, ZenonT(30) DEF RaceInv, CandInv, W
  <2>. QED
    BY <1>0, <1>1, <2>1, <2>2, ZenonT(30)
<1>3. /\ step.fork \in Chain[tip] /\ e \in Chain[goal] /\ Sound(e) /\ step.fork \in Block
      /\ \/ R = {} /\ e # step.fork
         \/ \E f \in Block \ {Genesis} : R = {f} /\ verdict[f] = "invalid" /\ e = Prev[f]
  BY <1>0, <1>2, ChainOrder, ZenonT(30) DEF StepOK
<1>4. \A b \in Block : Clean(b)' <=> Clean(b) /\ Chain[b] \cap R = {}
  <2>1. \A b \in Block : \A x \in h.marked \cap Chain[b] : Chain[b] \cap Failed # {}
    BY ChainOrder, SMTT(30) DEF HeadingOK, Typed
  <2>. QED
    BY <2>1, ZenonT(30) DEF Clean
<1>5. \A b \in h.erased : ~Clean(b) /\ b \in Failed'
  BY Zenon DEF HeadingOK, Clean
<1>6. kept = {b \in S : e = step.fork \/ ~W(b, e)}
  BY Zenon DEF Prune, W
<1>7. goal \in kept
  BY <1>0, <1>1, <1>2, <1>3, <1>6, Zenon
<1>8. Clean(e)'
  <2>1. Clean(e)
    BY <1>2, <1>3, ChainOrder, SMTT(30) DEF Clean
  <2>2. Chain[e] \cap R = {}
    BY <1>3, ChainOrder, SMTT(30)
  <2>. QED
    BY <1>0, <1>4, <2>1, <2>2, ZenonT(30)
<1>9. \A b \in S : ~W(b, tip) /\ b \in Block
  BY <1>0, Zenon DEF RaceInv, CandInv, W
<1>10. \A b \in kept : ~W(b, e)
  <2>1. ASSUME NEW b \in S, e = step.fork PROVE ~W(b, e)
    BY <1>0, <1>1, <1>3, <1>9, <2>1, ZenonT(30)
  <2>. QED
    BY <1>6, <2>1, ZenonT(30)
<1>11. CandInv'
  BY <1>10, ZenonT(30) DEF CandInv, W
<1>12. \A u \in Thread : u # t => pindexMostWork'[u] = pindexMostWork[u] /\ pindexMostWork[u] \notin Block
  BY <1>0, ZenonT(30) DEF Overtaken
<1>13. pindexMostWork'[t] = IF R # {} THEN None ELSE IF e = goal THEN Out ELSE goal
  BY <1>0, ZenonT(30) DEF CacheAfter
<1>14. GoalsInv'
  <2>1. ASSUME NEW u \in Thread, pindexMostWork'[u] \in Block
        PROVE  pindexMostWork'[u] = goal /\ R = {} /\ e # goal
    BY <1>0, <1>12, <1>13, <2>1, ZenonT(30)
  <2>2. R = {} => Clean(goal)'
    BY <1>2, <1>4, SMTT(30)
  <2>. QED
    BY <1>3, <1>7, <2>1, <2>2, ZenonT(30) DEF GoalsInv
<1>15. BestInv'
  <2>1. CASE R # {}
    BY <1>13, <2>1, ZenonT(30) DEF BestInv, Busy
  <2>2. CASE R = {}
    <3>1. Busy' \/ \A c \in S : Clean(c) => c = goal \/ W(c, goal)
      <4>1. CASE pindexMostWork[t] = None
        BY <4>1, ZenonT(30) DEF RaceHead, W
      <4>2. CASE pindexMostWork[t] # None
        <5>1. Busy => Busy'
          BY <1>12, <4>2, ZenonT(30) DEF Busy
        <5>2. pindexMostWork[t] = goal /\ \A u \in Thread : pindexMostWork[u] \in Block => u = t
          BY <1>12, <4>2, ZenonT(30) DEF RaceHead
        <5>3. ASSUME ~Busy, NEW c \in S, Clean(c) PROVE c = goal \/ W(c, goal)
          BY <1>2, <5>2, <5>3, ZenonT(30) DEF RaceInv, BestInv, Outdone, W
        <5>. QED
          BY <5>1, <5>3, ZenonT(30)
      <4>. QED
        BY <4>1, <4>2, ZenonT(30)
    <3>2. ASSUME NEW c \in kept, Clean(c)', ~Busy' PROVE c = e \/ Outdone(c)'
      <4>1. c \in S /\ c \in Block /\ Clean(c) /\ ~W(c, e)
        BY <1>0, <1>4, <1>6, <1>10, <3>2, ZenonT(30)
      <4>2. c = goal \/ W(c, goal)
        BY <3>1, <3>2, <4>1, ZenonT(30)
      <4>3. CASE e = goal
        BY <4>1, <4>2, <4>3, ZenonT(30)
      <4>4. CASE e # goal
        <5>1. pindexMostWork'[t] = goal /\ nSequenceId' = nSequenceId
          BY <1>13, <2>2, <4>4, ZenonT(30)
        <5>. QED
          BY <1>2, <4>2, <5>1, ZenonT(30) DEF Outdone, W
      <4>. QED
        BY <4>3, <4>4, ZenonT(30)
    <3>. QED
      BY <2>2, <3>2, ZenonT(30) DEF BestInv
  <2>. QED
    BY <2>1, <2>2, Zenon
<1>16. ASSUME ~tied, pardoned = {} PROVE \A b \in linked \ Failed' : b \in setBlockIndexCandidates' \/ Dominated(b)'
  <2>. DEFINE Dom(b, d) == d \in setBlockIndexCandidates' /\ Clean(d)' /\ Sound(d) /\ W(b, d) /\ d \in Block
  <2>1. \A b, d : Dom(b, d) => Dominated(b)'
    BY ZenonT(30) DEF Dominated, Sound, W
  <2>2. ASSUME NEW d \in cands, Clean(d), Sound(d)
        PROVE  d \in Block /\ Clean(d)' /\ (d \in setBlockIndexCandidates' \/ (W(d, e) /\ e # step.fork))
    <3>1. d \in S /\ d \in Block
      BY <1>0, <1>5, <2>2, ZenonT(30)
    <3>2. Chain[d] \cap R = {} /\ d \notin R
      BY <1>3, <2>2, <3>1, ChainOrder, SMTT(30) DEF Sound
    <3>. QED
      BY <1>4, <1>6, <2>2, <3>1, <3>2, ZenonT(30)
  <2>3. ASSUME NEW b \in linked \ Failed, b \notin cands
        PROVE  \E d \in cands : Clean(d) /\ Sound(d) /\ W(b, d)
    BY <1>16, <2>3, Zenon DEF RaceInv, DomInv, Dominated, W
  <2>4. e \in setBlockIndexCandidates' \/ \E d : Dom(e, d)
    <3>1. e \notin Failed /\ e \in linked /\ Sound(e) /\ Clean(e)
      BY <1>0, <1>3, <1>4, <1>8, ChainOrder, ZenonT(30) DEF Clean
    <3>2. CASE e \in cands
      BY <1>0, <1>1, <2>2, <3>1, <3>2, ZenonT(30)
    <3>3. CASE e \notin cands
      <4>1. PICK d \in cands : Clean(d) /\ Sound(d) /\ W(e, d)
        BY <2>3, <3>1, <3>3, ZenonT(30)
      <4>. QED
        BY <1>0, <1>1, <2>2, <4>1, ZenonT(30)
    <3>. QED
      BY <3>2, <3>3, Zenon
  <2>. HIDE DEF Dom
  <2>5. ASSUME NEW b \in linked, W(b, e) PROVE Dominated(b)'
    <3>1. CASE e \in setBlockIndexCandidates'
      <4>1. Dom(b, e)
        BY <1>0, <1>3, <1>8, <2>5, <3>1, ZenonT(30) DEF Dom
      <4>. QED
        BY <2>1, <4>1, ZenonT(30)
    <3>2. CASE \E d : Dom(e, d)
      <4>1. PICK d : Dom(e, d)
        BY <3>2, ZenonT(30)
      <4>2. Dom(b, d)
        BY <1>0, <1>1, <2>5, <4>1, ZenonT(30) DEF Dom
      <4>. QED
        BY <2>1, <4>2, ZenonT(30)
    <3>. QED
      BY <2>4, <3>1, <3>2, ZenonT(30)
  <2>. SUFFICES ASSUME NEW b \in linked \ Failed' PROVE b \in setBlockIndexCandidates' \/ Dominated(b)'
    BY Zenon
  <2>6. CASE b \in cands
    <3>1. b \in S /\ b \notin R
      BY <1>5, <2>6, ZenonT(30)
    <3>. QED
      BY <1>6, <2>5, <3>1, ZenonT(30)
  <2>7. CASE b \notin cands
    <3>1. PICK d \in cands : Clean(d) /\ Sound(d) /\ W(b, d)
      BY <2>3, <2>7, ZenonT(30)
    <3>2. d \in Block /\ Clean(d)' /\ (d \in setBlockIndexCandidates' \/ W(d, e))
      BY <2>2, <3>1, ZenonT(30)
    <3>3. CASE d \in setBlockIndexCandidates'
      BY <2>1, <3>1, <3>2, <3>3, ZenonT(30) DEF Dom
    <3>4. CASE W(d, e)
      BY <1>0, <1>1, <2>5, <3>1, <3>2, <3>4, ZenonT(30)
    <3>. QED
      BY <3>2, <3>3, <3>4, ZenonT(30)
  <2>. QED
    BY <2>6, <2>7, ZenonT(30)
<1>17. DomInv'
  BY <1>16, Zenon DEF DomInv
<1>. QED
  BY <1>7, <1>8, <1>11, <1>14, <1>15, <1>17, ZenonT(30) DEF RaceInv

LEMMA KeepActivate ==
    ASSUME Inv, NEW t \in Thread, ActivateBestChain(t)
    PROVE  Inv'
<1>. USE DEF orderVars, pardonVars
<1>0. /\ Typed /\ MapOK /\ UnlinkedExact /\ Connects /\ Grudges /\ ~aborted
      /\ pindexMostWork[t] # Out
  BY ZenonT(30) DEF Inv, ActivateBestChain
<1>1. /\ UNCHANGED <<verdict, index, data, linked, nSequenceId, nBlockSequenceId,
                     nBlockReverseSequenceId, mapBlocksUnlinked, calls, unmarked,
                     pardoned, tied>>
  BY ZenonT(30) DEF ActivateBestChain
<1>2. PICK h : /\ h = Heading(t) /\ failedChild' = failedChild \cup h.marked
               /\ Settle(t, h) \/ Advance(t, h)
  BY ZenonT(30) DEF ActivateBestChain
<1>3. HeadingOK(h) /\ (RaceInv => RaceHead(t, h))
  BY <1>0, <1>2, HeadFact, ZenonT(30)
<1>4. /\ tip \in Block /\ linked \subseteq Block /\ linked \subseteq index
      /\ \A b \in linked : Chain[b] \subseteq linked
  BY <1>0, TypedChains, ZenonT(30) DEF Typed
<1>5. CASE Settle(t, h)
  <2>1. /\ UNCHANGED <<tip, scripts, failedValid, g_failed_blocks, aborted, raced>>
        /\ pindexMostWork' = [pindexMostWork EXCEPT ![t] = Out]
        /\ setBlockIndexCandidates' = setBlockIndexCandidates \ h.erased
        /\ h.found \in {None, tip}
    BY <1>5, ZenonT(30) DEF Settle
  <2>2. Failed' = Failed \cup h.marked
    BY <1>2, <2>1, ZenonT(30) DEF Failed
  <2>3. Typed'
    <3>1. pindexMostWork' \in [Thread -> linked \cup {None, Out}]
      BY <1>0, <2>1, ZenonT(30) DEF Typed
    <3>2. Failed' \cup g_failed_blocks' \subseteq index' \ {Genesis}
      BY <1>0, <1>1, <1>3, <2>1, <2>2, ZenonT(30) DEF Typed, HeadingOK
    <3>. QED
      BY <1>0, <1>1, <2>1, <3>1, <3>2, ZenonT(30) DEF Typed
  <2>4. MapOK' /\ UnlinkedExact'
    BY <1>0, <1>1, <2>2, UnlinkedSame, ZenonT(30)
  <2>5. Connects' /\ Grudges' /\ AbortsExplained'
    BY <1>0, <1>1, <2>1, ZenonT(30) DEF Connects, Grudges, AbortsExplained, Sound
  <2>6. ASSUME ~raced' PROVE RaceInv'
    <3>1. RaceInv
      BY <2>1, <2>6, ZenonT(30) DEF Inv
    <3>. QED
      BY <1>0, <1>1, <1>3, <2>1, <2>2, <3>1, SettleRace, ZenonT(30)
  <2>. QED
    BY <2>3, <2>4, <2>5, <2>6, ZenonT(30) DEF Inv
<1>6. CASE Advance(t, h)
  <2>0. h.found \notin {None, tip} /\ h.found \in linked /\ h.found \in Block
    BY <1>3, <1>4, <1>6, ZenonT(30) DEF Advance, HeadingOK
  <2>1. PICK step, kept :
          /\ step = ActivateBestChainStep(h.found)
          /\ kept = IF step.tip = step.fork THEN setBlockIndexCandidates \ h.erased
                    ELSE Prune(setBlockIndexCandidates \ h.erased, nSequenceId, step.tip)
          /\ tip' = step.tip
          /\ scripts' = scripts \cup (After(step.fork, step.tip) \ Failed)
          /\ failedValid' = failedValid \cup step.rejected
          /\ g_failed_blocks' = g_failed_blocks \cup step.rejected
          /\ setBlockIndexCandidates' = kept \ step.rejected
          /\ aborted' = (step.tip # step.fork /\ kept = {})
          /\ pindexMostWork' = [pindexMostWork EXCEPT ![t] = CacheAfter(step, h.found)]
          /\ raced' = (raced \/ Overtaken(t))
    BY <1>6, ZenonT(30) DEF Advance
  <2>2. StepOK(step, h.found)
    <3>1. Sound(tip) /\ verdict[Genesis] = "valid"
      BY <1>0, BestChainAssumption, ZenonT(30) DEF Connects, Typed
    <3>. QED
      BY <1>4, <2>0, <2>1, <3>1, StepFact, Zenon
  <2>3. Failed' = Failed \cup h.marked \cup step.rejected
    BY <1>2, <2>1, ZenonT(30) DEF Failed
  <2>4. /\ Chain[h.found] \subseteq linked /\ tip' \in linked /\ tip' \in Block
        /\ step.rejected \subseteq linked \ {Genesis}
    BY <1>4, <2>0, <2>1, <2>2, ZenonT(30) DEF StepOK
  <2>5. Chain[tip'] \subseteq linked
    BY <1>4, <2>4, ZenonT(30)
  <2>6. Typed'
    <3>1. CacheAfter(step, h.found) \in linked \cup {None, Out}
      BY <2>0, ZenonT(30) DEF CacheAfter
    <3>2. pindexMostWork' \in [Thread -> linked \cup {None, Out}]
      BY <1>0, <2>1, <3>1, ZenonT(30) DEF Typed
    <3>3. Failed' \cup g_failed_blocks' \subseteq index' \ {Genesis}
      BY <1>0, <1>1, <1>3, <1>4, <2>1, <2>3, <2>4, ZenonT(30) DEF Typed, HeadingOK
    <3>4. scripts' \subseteq linked' /\ setBlockIndexCandidates' \subseteq linked'
      BY <1>0, <1>1, <2>1, <2>5, ZenonT(30) DEF Typed, After, Prune
    <3>. QED
      BY <1>0, <1>1, <2>4, <3>2, <3>3, <3>4, ZenonT(30) DEF Typed
  <2>7. MapOK' /\ UnlinkedExact'
    BY <1>0, <1>1, <2>3, UnlinkedSame, ZenonT(30)
  <2>8. Connects'
    <3>1. Sound(tip')
      BY <2>1, <2>2, ZenonT(30) DEF StepOK
    <3>2. \A c \in Chain[tip'] : Sound(c)
      BY <2>4, <3>1, ChainOrder, ZenonT(30) DEF Sound
    <3>3. \A c \in scripts' : Sound(c)
      BY <1>0, <2>1, <3>2, ZenonT(30) DEF Connects, After
    <3>. QED
      BY <1>1, <3>1, <3>3, ZenonT(30) DEF Connects, Sound
  <2>9. Grudges'
    BY <1>0, <1>1, <2>1, ZenonT(30) DEF Grudges
  <2>10. ASSUME ~raced' PROVE RaceInv' /\ kept # {}
    <3>1. RaceInv /\ ~Overtaken(t)
      BY <2>1, <2>10, ZenonT(30) DEF Inv
    <3>. QED
      BY <1>0, <1>1, <1>3, <2>0, <2>1, <2>2, <2>3, <2>4, <3>1, AdvanceRace, ZenonT(30)
  <2>11. AbortsExplained'
    BY <2>1, <2>10, ZenonT(30) DEF AbortsExplained
  <2>. QED
    BY <2>6, <2>7, <2>8, <2>9, <2>10, <2>11, ZenonT(30) DEF Inv
<1>. QED
  BY <1>2, <1>5, <1>6, ZenonT(30)

-----------------------------------------------------------------------------
(* The RPCs.                                                               *)

\* What the three have in common.
LEMMA Called ==
    ASSUME Typed, NEW t \in Thread, Call(t), UNCHANGED linked
    PROVE  /\ pindexMostWork[t] = Out /\ ~aborted
           /\ pindexMostWork' = [pindexMostWork EXCEPT ![t] = None]
           /\ pindexMostWork' \in [Thread -> linked' \cup {None, Out}]
           /\ calls' \in 0..MaxCalls
<1>1. calls < MaxCalls /\ calls' = calls + 1 /\ calls \in 0..MaxCalls /\ MaxCalls \in Nat
  BY BestChainAssumption, Zenon DEF Call, Typed
<1>2. calls' \in 0..MaxCalls
  BY <1>1, SMTT(30)
<1>. QED
  BY <1>2, Zenon DEF Call, Typed

\* The new tip is as good as any candidate was asked to be, and is one or is
\* outdone by one that connects.
LEMMA InvalidateRace ==
    ASSUME Typed, Connects, RaceInv, NEW t \in Thread, NEW b \in Block \ {Genesis}, ~Overtaken(t),
           pindexMostWork[t] = Out, pindexMostWork' = [pindexMostWork EXCEPT ![t] = None],
           NEW gone, gone = Disconnected(b) \cup {b},
           NEW newTip, newTip = IF b \in Chain[tip] THEN Prev[b] ELSE tip,
           tip' = newTip, Failed' = Failed \cup gone,
           setBlockIndexCandidates' =
               (setBlockIndexCandidates \ gone) \cup Readmit(gone, newTip),
           UNCHANGED <<verdict, linked, nSequenceId, tied, pardoned>>
    PROVE  RaceInv'
<1>. DEFINE W(x, y) == Worse(nSequenceId, x, y)
<1>0. /\ tip \in Block /\ linked \subseteq Block /\ setBlockIndexCandidates \subseteq linked
      /\ Prev[b] \in Block /\ \A x \in linked : Chain[x] \subseteq linked
  BY TypedChains, BestChainAssumption, Zenon DEF Typed
<1>1. \A x, y \in Block :
         /\ ~W(x, x) /\ (\A z \in Block : W(x, y) /\ W(y, z) => W(x, z))
         /\ (x # y => W(x, y) \/ W(y, x)) /\ (x \in Chain[y] => ~W(y, x))
         /\ (x \in Chain[y] /\ x # y => W(x, y))
  BY Order, Zenon
<1>. HIDE DEF W
<1>2. GoalsInv' /\ BestInv'
  BY NotOvertaken, Zenon
<1>3. newTip \in Chain[tip] /\ newTip \in Block /\ newTip \in linked
  <2>1. Prev[b] \in Chain[b]
    BY <1>0, ChainStep, ChainOrder, SMTT(30)
  <2>. QED
    BY <1>0, <2>1, ChainOrder, ZenonT(30) DEF Typed
<1>4. Chain[newTip] \cap gone = {}
  <2>1. CASE b \in Chain[tip]
    <3>1. Chain[b] = {b} \cup Chain[Prev[b]] /\ b \notin Chain[Prev[b]]
      BY ChainStep, ChainOrder, Zenon
    <3>. QED
      BY <2>1, <3>1, Zenon DEF Disconnected, After
  <2>2. CASE b \notin Chain[tip]
    BY <2>2, ZenonT(30) DEF Disconnected
  <2>. QED
    BY <2>1, <2>2, Zenon
<1>5. Clean(newTip)' /\ newTip \notin Failed \cup gone
  <2>1. Clean(newTip)
    BY <1>0, <1>3, ChainOrder, ZenonT(30) DEF RaceInv, Clean
  <2>. QED
    BY <1>3, <1>4, <2>1, ChainOrder, ZenonT(30) DEF Clean
<1>6. setBlockIndexCandidates' = (setBlockIndexCandidates \ gone)
                                 \cup {x \in linked \ (Failed \cup gone) : ~W(x, newTip)}
  BY ZenonT(30) DEF Readmit, Prune, W
<1>7. CandInv'
  <2>1. ASSUME NEW x \in setBlockIndexCandidates PROVE ~W(x, newTip)
    <3>1. ~W(x, tip) /\ x \in Block
      BY <1>0, <2>1, ZenonT(30) DEF RaceInv, CandInv, W
    <3>. QED
      BY <1>0, <1>1, <1>3, <3>1, ZenonT(30)
  <2>2. \A x \in setBlockIndexCandidates' : ~W(x, newTip)
    BY <1>6, <2>1, ZenonT(30)
  <2>. QED
    BY <2>2, ZenonT(30) DEF CandInv, W
<1>8. DomInv'
  <2>1. newTip \in setBlockIndexCandidates' /\ Sound(newTip)
    BY <1>0, <1>1, <1>3, <1>5, <1>6, ChainOrder, ZenonT(30) DEF Connects, Sound
  <2>2. ASSUME NEW x \in linked \ Failed', x \notin setBlockIndexCandidates' PROVE Dominated(x)'
    <3>1. W(x, newTip)
      BY <1>6, <2>2, Zenon
    <3>. QED
      BY <1>5, <2>1, <3>1, Zenon DEF Dominated, Sound, W
  <2>. QED
    BY <2>2, Zenon DEF DomInv
<1>. QED
  BY <1>2, <1>5, <1>7, <1>8, ZenonT(30) DEF RaceInv

LEMMA KeepInvalidate ==
    ASSUME Inv, NEW t \in Thread, NEW b \in Block, InvalidateBlock(t, b)
    PROVE  Inv'
<1>. USE DEF orderVars, pardonVars
<1>0. Typed /\ MapOK /\ UnlinkedExact /\ Connects /\ Grudges
  BY Zenon DEF Inv
<1>1. PICK gone, newTip :
        /\ newTip = (IF b \in Chain[tip] THEN Prev[b] ELSE tip)
        /\ gone = Disconnected(b) \cup {b}
        /\ Call(t) /\ b \in index \ {Genesis} /\ tip' = newTip
        /\ failedChild' = failedChild \cup Disconnected(b)
        /\ failedValid' = failedValid \cup {b}
        /\ g_failed_blocks' = g_failed_blocks \cup {b}
        /\ setBlockIndexCandidates' =
             (setBlockIndexCandidates \ gone) \cup Readmit(gone, newTip)
        /\ raced' = (raced \/ Overtaken(t))
        /\ UNCHANGED <<verdict, index, data, linked, scripts, nSequenceId, nBlockSequenceId,
                       nBlockReverseSequenceId, mapBlocksUnlinked, aborted, unmarked,
                       pardoned, tied>>
  BY Zenon DEF InvalidateBlock
<1>2. /\ pindexMostWork[t] = Out /\ ~aborted
      /\ pindexMostWork' = [pindexMostWork EXCEPT ![t] = None]
      /\ pindexMostWork' \in [Thread -> linked' \cup {None, Out}]
      /\ calls' \in 0..MaxCalls
  BY <1>0, <1>1, Called, ZenonT(30)
<1>3. Failed' = Failed \cup gone
  BY <1>1, Zenon DEF Failed
<1>4. /\ tip \in Block /\ linked \subseteq Block /\ Chain[tip] \subseteq linked
      /\ linked \subseteq index /\ b \in Block \ {Genesis} /\ Prev[b] \in Block
  BY <1>0, <1>1, TypedChains, BestChainAssumption, ZenonT(30) DEF Typed
<1>5. newTip \in Chain[tip]
  <2>1. Prev[b] \in Chain[b]
    BY <1>4, ChainStep, ChainOrder, SMTT(30)
  <2>. QED
    BY <1>1, <1>4, <2>1, ChainOrder, ZenonT(30)
<1>6. gone \subseteq index \ {Genesis}
  <2>1. Genesis \in Chain[b]
    BY <1>4, ChainOrder, Zenon
  <2>. QED
    BY <1>1, <1>4, <2>1, Zenon DEF Disconnected, After
<1>7. Typed'
  <2>1. Failed' \cup g_failed_blocks' \subseteq index' \ {Genesis}
    BY <1>0, <1>1, <1>3, <1>6, Zenon DEF Typed
  <2>2. setBlockIndexCandidates' \subseteq linked' /\ tip' \in linked'
    BY <1>0, <1>1, <1>4, <1>5, ZenonT(30) DEF Typed, Readmit, Prune
  <2>. QED
    BY <1>0, <1>1, <1>2, <2>1, <2>2, Zenon DEF Typed
<1>8. MapOK' /\ UnlinkedExact'
  BY <1>0, <1>1, <1>3, UnlinkedSame, ZenonT(30)
<1>9. Connects'
  BY <1>0, <1>1, <1>4, <1>5, ChainOrder, ZenonT(30) DEF Connects, Sound
<1>10. Grudges' /\ AbortsExplained'
  BY <1>0, <1>1, <1>2, Zenon DEF Grudges, AbortsExplained
<1>11. ASSUME ~raced' PROVE RaceInv'
  <2>1. RaceInv /\ ~Overtaken(t)
    BY <1>1, <1>11, Zenon DEF Inv
  <2>. QED
    BY <1>0, <1>1, <1>2, <1>3, <1>4, <2>1, InvalidateRace, Zenon
<1>. QED
  BY <1>7, <1>8, <1>9, <1>10, <1>11, ZenonT(30) DEF Inv

\* What is reconsidered is a candidate again, or worse than the tip.
LEMMA ResetRace ==
    ASSUME Typed, Connects, RaceInv, NEW t \in Thread, NEW D, D \subseteq index, NEW A,
           UNCHANGED <<verdict, tip, linked, nSequenceId, tied>>,
           pindexMostWork' = [pindexMostWork EXCEPT ![t] = None],
           Failed' = Failed \ (D \cup A), pardoned' = pardoned \cup (Failed \cap (A \ D)),
           setBlockIndexCandidates' =
               setBlockIndexCandidates \cup {c \in D \cap linked : Worse(nSequenceId, tip, c)}
    PROVE  RaceInv'
<1>. DEFINE W(x, y) == Worse(nSequenceId, x, y)
<1>0. tip \in Block /\ tip \in linked /\ linked \subseteq Block /\ setBlockIndexCandidates \subseteq linked
  BY TypedChains, Zenon DEF Typed
<1>1. \A x, y \in Block :
         /\ W(x, y) => ~W(y, x)
         /\ x # y => W(x, y) \/ W(y, x)
         /\ \A z \in Block : W(x, y) /\ W(y, z) => W(x, z)
  BY Order, Zenon
<1>2. \A x : Clean(x) => Clean(x)'
  BY Zenon DEF Clean
<1>3. GoalsInv' /\ BestInv'
  BY <1>2, Looking, Zenon DEF RaceInv
<1>4. Clean(tip)' /\ CandInv'
  <2>1. \A x \in setBlockIndexCandidates' : ~W(x, tip)
    BY <1>0, <1>1, ZenonT(30) DEF RaceInv, CandInv
  <2>. QED
    BY <1>2, <2>1, Zenon DEF RaceInv, CandInv
<1>. HIDE DEF W
<1>5. ASSUME ~tied, pardoned' = {}, NEW x \in linked \ Failed', x \notin setBlockIndexCandidates'
      PROVE  Dominated(x)'
  <2>. DEFINE Dom(y, d) == d \in setBlockIndexCandidates /\ Clean(d) /\ Sound(d) /\ W(y, d)
  <2>1. \A y, d : Dom(y, d) => Dominated(y)'
    BY <1>2, Zenon DEF Dominated, Sound, W
  <2>2. ASSUME NEW y \in linked \ Failed, y \notin setBlockIndexCandidates PROVE \E d : Dom(y, d)
    BY <1>5, <2>2, ZenonT(30) DEF RaceInv, DomInv, Dominated, W
  <2>. HIDE DEF Dom
  <2>3. CASE x \notin Failed
    BY <1>5, <2>1, <2>2, <2>3, ZenonT(30)
  <2>4. CASE x \in Failed
    <3>1. x \in D /\ W(x, tip)
      <4>1. x \in D /\ x # tip
        BY <1>0, <1>5, <2>4, ChainOrder, ZenonT(30) DEF RaceInv, Clean
      <4>. QED
        BY <1>0, <1>1, <1>5, <4>1, ZenonT(30) DEF W
    <3>2. CASE tip \in setBlockIndexCandidates
      BY <2>1, <3>1, <3>2, ZenonT(30) DEF Dom, RaceInv, Connects
    <3>3. CASE tip \notin setBlockIndexCandidates
      <4>1. tip \notin Failed
        BY <1>0, ChainOrder, Zenon DEF RaceInv, Clean
      <4>2. PICK d : Dom(tip, d)
        BY <1>0, <2>2, <3>3, <4>1, ZenonT(30)
      <4>3. Dom(x, d)
        BY <1>0, <1>1, <1>5, <3>1, <4>2, ZenonT(30) DEF Dom
      <4>. QED
        BY <2>1, <4>3, Zenon
    <3>. QED
      BY <3>2, <3>3, Zenon
  <2>. QED
    BY <2>3, <2>4, Zenon
<1>6. DomInv'
  BY <1>5, Zenon DEF DomInv
<1>. QED
  BY <1>3, <1>4, <1>6, ZenonT(30) DEF RaceInv

LEMMA KeepReset ==
    ASSUME Inv, NEW t \in Thread, NEW b \in Block, ResetBlockFailureFlags(t, b)
    PROVE  Inv'
<1>. USE DEF orderVars, pardonVars
<1>0. Typed /\ MapOK /\ UnlinkedExact /\ Connects /\ Grudges
  BY Zenon DEF Inv
<1>1. PICK D :
        /\ D = {c \in index : b \in Chain[c] /\ (c \in Failed \/ c \notin data)}
        /\ Call(t) /\ b \in index
        /\ failedValid' = failedValid \ (D \cup Chain[b])
        /\ failedChild' = failedChild \ (D \cup Chain[b])
        /\ g_failed_blocks' = g_failed_blocks \ D
        /\ setBlockIndexCandidates' =
             setBlockIndexCandidates \cup {c \in D \cap linked : Worse(nSequenceId, tip, c)}
        /\ unmarked' = unmarked \cup (Failed \cap (D \cup Chain[b]))
        /\ pardoned' = pardoned \cup (Failed \cap (Chain[b] \ {b}))
        /\ UNCHANGED <<verdict, index, data, linked, scripts, nSequenceId, nBlockSequenceId,
                       nBlockReverseSequenceId, mapBlocksUnlinked, tip, aborted, tied, raced>>
  BY Zenon DEF ResetBlockFailureFlags
<1>2. /\ pindexMostWork[t] = Out /\ ~aborted
      /\ pindexMostWork' = [pindexMostWork EXCEPT ![t] = None]
      /\ pindexMostWork' \in [Thread -> linked' \cup {None, Out}]
      /\ calls' \in 0..MaxCalls
  BY <1>0, <1>1, Called, ZenonT(30)
<1>3. Failed' = Failed \ (D \cup Chain[b])
  BY <1>1, Zenon DEF Failed
<1>4. Failed \cap (Chain[b] \ {b}) = Failed \cap (Chain[b] \ D)
  <2>1. ASSUME NEW x \in Failed \cap Chain[b] PROVE x \in D <=> x = b
    <3>1. b \in Block /\ b \in Chain[b] /\ x \in Block
      BY <2>1, ChainOrder, Zenon
    <3>2. x \in D => x = b
      BY <1>1, <2>1, <3>1, ChainOrder, ZenonT(30)
    <3>3. x = b => x \in D
      BY <1>1, <2>1, <3>1, Zenon
    <3>. QED
      BY <3>2, <3>3, ZenonT(30)
  <2>. QED
    BY <2>1, Zenon
<1>5. Typed'
  <2>1. Failed' \cup g_failed_blocks' \subseteq index' \ {Genesis}
    BY <1>0, <1>1, <1>3, Zenon DEF Typed
  <2>2. setBlockIndexCandidates' \subseteq linked'
    BY <1>0, <1>1, Zenon DEF Typed
  <2>. QED
    BY <1>0, <1>1, <1>2, <2>1, <2>2, ZenonT(30) DEF Typed
<1>6. MapOK' /\ UnlinkedExact'
  BY <1>0, <1>1, <1>3, UnlinkedSame, ZenonT(30)
<1>7. Connects' /\ AbortsExplained'
  BY <1>0, <1>1, <1>2, ZenonT(30) DEF Connects, AbortsExplained, Sound
<1>8. Grudges'
  BY <1>0, <1>1, <1>4, ZenonT(30) DEF Grudges, Failed
<1>9. ASSUME ~raced' PROVE RaceInv'
  <2>1. RaceInv /\ D \subseteq index
    BY <1>1, <1>9, Zenon DEF Inv
  <2>. QED
    BY <1>0, <1>1, <1>2, <1>3, <1>4, <2>1, ResetRace, ZenonT(30)
<1>. QED
  BY <1>5, <1>6, <1>7, <1>8, <1>9, ZenonT(30) DEF Inv

\* A precious block moves ahead of the others of its work, and no other moves.
LEMMA PreciousRace ==
    ASSUME Typed, Connects, RaceInv, NEW t \in Thread, ~Overtaken(t), NEW b \in Block,
           pindexMostWork[t] = Out, pindexMostWork' = [pindexMostWork EXCEPT ![t] = None],
           NEW id \in [Block -> Int], \A c \in Block : c # b => id[c] = nSequenceId[c],
           nChainWork[b] >= nChainWork[tip], nSequenceId' = id,
           setBlockIndexCandidates' =
               IF b \in linked \ Failed
               THEN Prune((setBlockIndexCandidates \ {b}) \cup {b}, id, tip)
               ELSE setBlockIndexCandidates \ {b},
           ~tied' => ~tied,
           ~tied' /\ b \in linked => \A c \in linked \ {b} : nChainWork[c] = nChainWork[b] => id[c] > id[b],
           UNCHANGED <<verdict, tip, linked, failedValid, failedChild, pardoned>>
    PROVE  RaceInv' /\ (~tied' /\ pardoned = {} /\ b \in linked \ Failed => setBlockIndexCandidates' # {})
<1>. DEFINE W(x, y) == Worse(nSequenceId, x, y)
            V(x, y) == Worse(id, x, y)
            cands == setBlockIndexCandidates
<1>0. /\ tip \in Block /\ tip \in linked /\ linked \subseteq Block /\ cands \subseteq linked
      /\ nSequenceId \in [Block -> Int] /\ tip \notin Failed
  BY TypedChains, ChainOrder, ZenonT(30) DEF Typed, RaceInv, Clean
<1>1. Failed' = Failed /\ (\A x : Clean(x)' <=> Clean(x))
  BY ZenonT(30) DEF Failed, Clean
<1>2. GoalsInv' /\ BestInv'
  BY NotOvertaken, ZenonT(30)
<1>3. \A x, y \in Block : x # b /\ y # b => (V(x, y) <=> W(x, y))
  BY ZenonT(30) DEF Worse
<1>4. \A x, y, z \in Block : ~V(x, x) /\ (V(x, y) => ~V(y, x)) /\ (V(x, y) /\ V(y, z) => V(x, z))
  BY WorseOrder, ZenonT(30)
<1>5. \A x \in cands : x \in Block /\ ~W(x, tip)
  BY <1>0, ZenonT(30) DEF RaceInv, CandInv
<1>6. Clean(tip)'
  BY <1>1, ZenonT(30) DEF RaceInv
<1>7. ASSUME ~tied', pardoned = {}, NEW x \in linked \ Failed, x \notin cands
      PROVE  \E d \in cands : Clean(d) /\ Sound(d) /\ W(x, d)
  BY <1>7, ZenonT(30) DEF RaceInv, DomInv, Dominated
<1>8. ASSUME NEW x, NEW d \in setBlockIndexCandidates', Clean(d), Sound(d), V(x, d) PROVE Dominated(x)'
  BY <1>1, <1>8, ZenonT(30) DEF Dominated, Sound
<1>9. CASE b \in linked \ Failed
  <2>1. setBlockIndexCandidates' = {x \in cands \cup {b} : ~V(x, tip)}
    BY <1>9, ZenonT(30) DEF Prune
  <2>2. CandInv'
    BY <2>1, ZenonT(30) DEF CandInv
  <2>3. ASSUME ~tied', NEW x \in linked \ {b}, nChainWork[x] <= nChainWork[b] PROVE V(x, b)
    BY <1>0, <1>9, <2>3, WorkStep, SMTT(30) DEF Worse
  <2>4. ASSUME ~tied', NEW x \in linked \ {b}, W(x, b) PROVE V(x, b)
    <3>1. nChainWork[x] <= nChainWork[b]
      BY <1>0, <2>4, WorkStep, SMTT(30) DEF Worse
    <3>. QED
      BY <2>3, <2>4, <3>1, Zenon
  <2>. HIDE DEF W, V
  <2>5. ASSUME ~tied' PROVE b \in setBlockIndexCandidates'
    <3>1. CASE b = tip
      BY <1>0, <1>4, <2>1, <3>1, ZenonT(30)
    <3>2. CASE b # tip
      BY <1>0, <1>4, <1>9, <2>1, <2>3, <2>5, <3>2, ZenonT(30)
    <3>. QED
      BY <3>1, <3>2, Zenon
  <2>6. ASSUME ~tied', NEW x \in cands, x # b, V(x, tip) PROVE tip = b
    BY <1>0, <1>3, <1>5, <2>6, ZenonT(30)
  <2>7. ASSUME ~tied', pardoned = {}, NEW x \in linked \ Failed, x \notin setBlockIndexCandidates'
        PROVE  Dominated(x)'
    <3>0. x # b /\ x \in Block /\ b \in setBlockIndexCandidates' /\ (tip = b => Clean(b) /\ Sound(b))
      BY <1>0, <2>5, <2>7, ZenonT(30) DEF RaceInv, Connects
    <3>1. CASE x \in cands
      <4>1. V(x, tip)
        BY <2>1, <2>7, <3>1, ZenonT(30)
      <4>2. tip = b
        BY <2>6, <2>7, <3>0, <3>1, <4>1, ZenonT(30)
      <4>. QED
        BY <1>8, <3>0, <4>1, <4>2, ZenonT(30)
    <3>2. CASE x \notin cands
      <4>1. PICK d \in cands : Clean(d) /\ Sound(d) /\ W(x, d)
        BY <1>7, <2>7, <3>2, ZenonT(30)
      <4>2. CASE d = b
        BY <1>8, <2>4, <2>7, <3>0, <4>1, <4>2, ZenonT(30)
      <4>3. CASE d # b
        <5>1. V(x, d) /\ d \in Block
          BY <1>3, <1>5, <3>0, <4>1, <4>3, ZenonT(30)
        <5>2. CASE V(d, tip)
          <6>1. tip = b /\ V(x, b)
            BY <1>0, <1>4, <2>6, <2>7, <3>0, <4>3, <5>1, <5>2, ZenonT(30)
          <6>. QED
            BY <1>8, <3>0, <6>1, ZenonT(30)
        <5>3. CASE ~V(d, tip)
          BY <1>8, <2>1, <4>1, <5>1, <5>3, ZenonT(30)
        <5>. QED
          BY <5>2, <5>3, ZenonT(30)
      <4>. QED
        BY <4>2, <4>3, ZenonT(30)
    <3>. QED
      BY <3>1, <3>2, ZenonT(30)
  <2>8. DomInv'
    BY <1>1, <2>7, ZenonT(30) DEF DomInv
  <2>. QED
    BY <1>2, <1>6, <2>2, <2>5, <2>8, ZenonT(30) DEF RaceInv
<1>10. CASE b \notin linked \ Failed
  <2>1. setBlockIndexCandidates' = cands \ {b} /\ tip # b
    BY <1>0, <1>10, ZenonT(30)
  <2>. HIDE DEF W, V
  <2>2. \A x \in setBlockIndexCandidates' : ~V(x, tip)
    BY <1>0, <1>3, <1>5, <2>1, ZenonT(30)
  <2>3. CandInv'
    BY <2>2, ZenonT(30) DEF CandInv, V
  <2>4. ASSUME ~tied', pardoned = {}, NEW x \in linked \ Failed, x \notin setBlockIndexCandidates'
        PROVE  Dominated(x)'
    <3>1. x # b /\ x \in Block /\ x \notin cands
      BY <1>0, <1>10, <2>1, <2>4, ZenonT(30)
    <3>2. PICK d \in cands : Clean(d) /\ Sound(d) /\ W(x, d)
      BY <1>7, <2>4, <3>1, ZenonT(30)
    <3>3. d # b /\ d \in Block
      BY <1>0, <1>5, <1>10, <3>2, ChainOrder, SMTT(30) DEF Clean
    <3>4. V(x, d) /\ d \in setBlockIndexCandidates'
      BY <1>3, <2>1, <3>1, <3>2, <3>3, ZenonT(30)
    <3>. QED
      BY <1>8, <3>2, <3>4, ZenonT(30)
  <2>5. DomInv'
    BY <1>1, <2>4, SMTT(30) DEF DomInv
  <2>. QED
    BY <1>2, <1>6, <1>10, <2>3, <2>5, ZenonT(30) DEF RaceInv
<1>. QED
  BY <1>9, <1>10, ZenonT(30)

LEMMA KeepPrecious ==
    ASSUME Inv, NEW t \in Thread, NEW b \in Block, PreciousBlock(t, b)
    PROVE  Inv'
<1>. USE DEF statusVars, pardonVars
<1>0. Typed /\ MapOK /\ UnlinkedExact /\ Connects /\ Grudges
  BY ZenonT(30) DEF Inv
<1>. DEFINE last == IF nChainWork[tip] > nLastPreciousChainwork THEN -1
                    ELSE nBlockReverseSequenceId
            id == [nSequenceId EXCEPT ![b] = last]
<1>1. /\ Call(t) /\ b \in index /\ nChainWork[b] >= nChainWork[tip] /\ nSequenceId' = id
      /\ nBlockReverseSequenceId' = (IF last > MinSequenceId THEN last - 1 ELSE last)
      /\ setBlockIndexCandidates' =
           IF b \in linked \ Failed
           THEN Prune((setBlockIndexCandidates \ {b}) \cup {b}, id, tip)
           ELSE setBlockIndexCandidates \ {b}
      /\ aborted' => aborted \/ (b \in linked \ Failed /\ setBlockIndexCandidates' = {})
      /\ tied' = (tied \/ \E c \in linked \ {b} :
                     b \in linked /\ nChainWork[c] = nChainWork[b] /\ id[c] <= last)
      /\ raced' = (raced \/ Overtaken(t))
      /\ UNCHANGED <<verdict, index, data, linked, scripts, failedValid, failedChild,
                     nBlockSequenceId, mapBlocksUnlinked, g_failed_blocks, tip,
                     unmarked, pardoned>>
  BY ZenonT(30) DEF PreciousBlock
<1>2. /\ pindexMostWork[t] = Out /\ ~aborted
      /\ pindexMostWork' = [pindexMostWork EXCEPT ![t] = None]
      /\ pindexMostWork' \in [Thread -> linked' \cup {None, Out}]
      /\ calls' \in 0..MaxCalls
  BY <1>0, <1>1, Called, ZenonT(30)
<1>3. Failed' = Failed
  BY <1>1, ZenonT(30) DEF Failed
<1>4. /\ last \in Int /\ nBlockReverseSequenceId' \in Int /\ id \in [Block -> Int] /\ id[b] = last
      /\ \A c \in Block : c # b => id[c] = nSequenceId[c]
  <2>1. last \in Int
    BY <1>0, SMTT(30) DEF Typed
  <2>. HIDE DEF last
  <2>2. nBlockReverseSequenceId' \in Int
    BY <1>1, <2>1, SMTT(30)
  <2>3. nSequenceId \in [Block -> Int]
    BY <1>0, ZenonT(30) DEF Typed
  <2>. QED
    BY <1>1, <2>1, <2>2, <2>3, ZenonT(30)
<1>. HIDE DEF last, id
<1>5. Typed'
  <2>1. setBlockIndexCandidates' \subseteq linked'
    BY <1>0, <1>1, ZenonT(30) DEF Typed, Prune
  <2>2. Failed' \cup g_failed_blocks' \subseteq index' \ {Genesis}
    BY <1>0, <1>1, <1>3, ZenonT(30) DEF Typed
  <2>3. nSequenceId' \in [Block -> Int] /\ nBlockSequenceId' \in Int
    BY <1>0, <1>1, <1>4, ZenonT(30) DEF Typed
  <2>. QED
    BY <1>0, <1>1, <1>2, <1>4, <2>1, <2>2, <2>3, ZenonT(30) DEF Typed
<1>6. MapOK' /\ UnlinkedExact'
  BY <1>0, <1>1, <1>3, UnlinkedSame, ZenonT(30)
<1>7. Connects' /\ Grudges'
  BY <1>0, <1>1, Zenon DEF Connects, Grudges, Sound
<1>8. ASSUME ~raced'
      PROVE  RaceInv' /\ (~tied' /\ pardoned = {} /\ b \in linked \ Failed => setBlockIndexCandidates' # {})
  <2>1. RaceInv /\ ~Overtaken(t)
    BY <1>1, <1>8, ZenonT(30) DEF Inv
  <2>2. ~tied' => ~tied
    BY <1>1, ZenonT(30)
  <2>3. ASSUME ~tied', b \in linked, NEW c \in linked \ {b}, nChainWork[c] = nChainWork[b]
        PROVE  id[c] > id[b]
    <3>1. ~(id[c] <= last)
      BY <1>1, <2>3, ZenonT(30)
    <3>2. id[c] \in Int
      BY <1>0, <1>4, <2>3, TypedChains, ZenonT(30)
    <3>. QED
      BY <1>4, <3>1, <3>2, SMTT(30)
  <2>4. ~tied' /\ b \in linked => \A c \in linked \ {b} : nChainWork[c] = nChainWork[b] => id[c] > id[b]
    BY <2>3, ZenonT(30)
  <2>. QED
    BY <1>0, <1>1, <1>2, <1>4, <2>1, <2>2, <2>4, PreciousRace, ZenonT(30)
<1>9. AbortsExplained'
  BY <1>1, <1>2, <1>8, ZenonT(30) DEF AbortsExplained
<1>. QED
  BY <1>5, <1>6, <1>7, <1>8, <1>9, ZenonT(30) DEF Inv

-----------------------------------------------------------------------------
(* The theorems.                                                           *)

LEMMA InitOK ==
    ASSUME Init
    PROVE  Inv
<1>1. /\ Genesis \in Block /\ Chain[Genesis] = {Genesis} /\ verdict[Genesis] = "valid"
      /\ None # Out /\ None \notin Block /\ Out \notin Block /\ Failed = {}
  BY BestChainAssumption, ChainStep, Zenon DEF Init, Failed
<1>2. Typed
  BY <1>1, BestChainAssumption, SMTT(30) DEF Init, Typed
<1>3. \A b \in Block : mapBlocksUnlinked[b] = << >>
  BY Zenon DEF Init
<1>4. Range(<< >>) = {} /\ IsInjective(<< >>)
  BY SMTT(30) DEF Range, IsInjective
<1>5. MapOK
  <2>1. mapBlocksUnlinked \in [Block -> Seq(data \ linked)]
    BY SMTT(30) DEF Init
  <2>. QED
    BY <1>3, <1>4, <2>1, Zenon DEF MapOK
<1>6. UnlinkedExact
  <2>1. \A b \in Block \ {Genesis} : Prev[b] \in Block
    BY BestChainAssumption, Zenon
  <2>2. Waiting = {}
    BY <1>3, <1>4, <2>1, Zenon DEF Waiting
  <2>3. data = linked
    BY Zenon DEF Init
  <2>. QED
    BY <2>2, <2>3, Zenon DEF UnlinkedExact
<1>7. Connects /\ Grudges /\ AbortsExplained
  BY <1>1, Zenon DEF Init, Connects, Sound, Grudges, AbortsExplained
<1>8. RaceInv
  <2>1. Clean(tip) /\ BestInv /\ DomInv
    BY <1>1, Zenon DEF Init, Clean, BestInv, DomInv
  <2>2. GoalsInv
    BY <1>1, Zenon DEF Init, GoalsInv
  <2>3. CandInv
    BY <1>1, <1>2, Order, ZenonT(30) DEF Init, CandInv
  <2>. QED
    BY <2>1, <2>2, <2>3, Zenon DEF RaceInv
<1>. QED
  BY <1>2, <1>5, <1>6, <1>7, <1>8, ZenonT(30) DEF Inv

LEMMA KeepStill ==
    ASSUME Inv, UNCHANGED vars
    PROVE  Inv'
<1>. USE DEF statusVars, orderVars, setVars, pardonVars, vars
<1>1. Failed' = Failed
  BY Zenon DEF Failed
<1>2. Typed' /\ MapOK' /\ Connects' /\ Grudges' /\ AbortsExplained'
  BY <1>1, Zenon DEF Inv, Typed, MapOK, Connects, Sound, Grudges, AbortsExplained
<1>3. UnlinkedExact'
  BY <1>1, UnlinkedSame, Zenon DEF Inv
<1>4. ASSUME ~raced' PROVE RaceInv'
  <2>1. \A b \in linked : Clean(b)' <=> Clean(b)
    BY <1>1, Zenon DEF Clean
  <2>. QED
    BY <1>1, <1>4, <2>1, RaceSame, ZenonT(30) DEF Inv
<1>. QED
  BY <1>2, <1>3, <1>4, ZenonT(30) DEF Inv

LEMMA Invariance == Spec => []Inv
<1>1. Init => Inv
  BY InitOK, Zenon
<1>2. ASSUME Inv, [Next]_vars PROVE Inv'
  <2>1. CASE \E b \in Block \ {Genesis} : ProcessNewBlockHeaders(b)
    BY <1>2, <2>1, KeepHeader, ZenonT(30)
  <2>2. CASE \E t \in Thread, b \in Block, fRequested \in BOOLEAN : ProcessNewBlock(t, b, fRequested)
    BY <1>2, <2>2, KeepBlock, Zenon
  <2>3. CASE \E t \in Thread : Enter(t)
    BY <1>2, <2>3, KeepEnter, ZenonT(30)
  <2>4. CASE \E t \in Thread : ActivateBestChain(t)
    BY <1>2, <2>4, KeepActivate, ZenonT(30)
  <2>5. CASE \E t \in Thread, b \in Block : InvalidateBlock(t, b)
    BY <1>2, <2>5, KeepInvalidate, Zenon
  <2>6. CASE \E t \in Thread, b \in Block : ResetBlockFailureFlags(t, b)
    BY <1>2, <2>6, KeepReset, ZenonT(30)
  <2>7. CASE \E t \in Thread, b \in Block : PreciousBlock(t, b)
    BY <1>2, <2>7, KeepPrecious, Zenon
  <2>8. CASE Aborted \/ UNCHANGED vars
    BY <1>2, <2>8, KeepStill, Zenon DEF Aborted
  <2>. QED
    BY <1>2, <2>1, <2>2, <2>3, <2>4, <2>5, <2>6, <2>7, <2>8, ZenonT(30) DEF Next
<1>. QED
  BY <1>1, <1>2, PTL DEF Spec

\* What a thread heads for is never unlinked, what is marked is never Genesis or
\* unknown, and a block waits in mapBlocksUnlinked at most once, for its parent,
\* in every tree of blocks and for every order of calls.
THEOREM TypeCorrect == Spec => []TypeOK
<1>1. Inv => TypeOK
  BY Zenon DEF Inv, Typed, MapOK, TypeOK
<1>. QED
  BY <1>1, Invariance, PTL

\* No thread heads for a block, or is about to look for one.
LEMMA QuietBest ==
    ASSUME Typed, RaceInv, Quiet, NEW b \in setBlockIndexCandidates, Clean(b)
    PROVE  b = tip
<1>1. Out \notin Block /\ None # Out
  BY BestChainAssumption, Zenon
<1>. QED
  BY <1>1, Zenon DEF RaceInv, BestInv, Busy, Outdone, Quiet

\* The candidates are those CheckBlockIndex asks for: PruneBlockIndexCandidates
\* leaves none that is worse than the tip, and what ReceivedBlockTransactions,
\* FindMostWorkChain, InvalidateBlock and ResetBlockFailureFlags keep out or take
\* out is worse than a candidate that connects, or has failed.
THEOREM CandidatesAlwaysExact == Spec => []CandidatesExact
<1>1. ASSUME Inv PROVE CandidatesExact
  <2>. SUFFICES ASSUME ~raced PROVE CandidatesExact
    BY Zenon DEF CandidatesExact
  <2>1. Typed /\ RaceInv
    BY <1>1, Zenon DEF Inv
  <2>2. ASSUME Quiet, ~tied, pardoned = {}, NEW b \in linked,
               Chain[b] \cap Failed = {}, ~Worse(nSequenceId, b, tip)
        PROVE  b \in setBlockIndexCandidates
    <3>1. b \notin Failed
      BY <2>1, <2>2, TypedChains, ChainOrder, Zenon
    <3>2. b \in setBlockIndexCandidates \/ Dominated(b)
      BY <2>1, <2>2, <3>1, Zenon DEF RaceInv, DomInv
    <3>. QED
      BY <2>1, <2>2, <3>2, QuietBest, Zenon DEF Dominated
  <2>. QED
    BY <2>1, <2>2, Zenon DEF CandidatesExact, RaceInv, CandInv
<1>. QED
  BY <1>1, Invariance, PTL

\* ActivateBestChain returns only with the best chain that can be reached: a
\* turn that ends the loop has compared all candidates, at that turn or, for a
\* cached pindexMostWork, at the turn that found it.
THEOREM BestAlwaysActivated == Spec => []BestActivated
<1>1. ASSUME Inv PROVE BestActivated
  <2>1. ASSUME Quiet, ~raced, NEW b \in setBlockIndexCandidates \ {tip} PROVE Obstacles(b) # {}
    <3>1. Typed /\ RaceInv
      BY <1>1, <2>1, Zenon DEF Inv
    <3>2. ~Clean(b)
      BY <2>1, <3>1, QuietBest, Zenon
    <3>. QED
      BY <3>1, <3>2, Zenon DEF RaceInv, Clean, Obstacles, After
  <2>. QED
    BY <2>1, Zenon DEF BestActivated
<1>. QED
  BY <1>1, Invariance, PTL

\* No step, of ActivateBestChainStep or an RPC, leaves a failed block in the
\* active chain, so that FindMostWorkChain need not look below the fork.
THEOREM NoFailedEverActive == Spec => []NoFailedActive
<1>1. Inv => NoFailedActive
  BY Zenon DEF Inv, RaceInv, Clean, NoFailedActive
<1>. QED
  BY <1>1, Invariance, PTL

\* ReceivedBlockTransactions links every block that waited for the one that
\* arrives, and loses none that came too early, unless an ancestor had failed.
THEOREM UnlinkedAlwaysExact == Spec => []UnlinkedExact
<1>1. Inv => UnlinkedExact
  BY Zenon DEF Inv
<1>. QED
  BY <1>1, Invariance, PTL

\* Without a race on a cached pindexMostWork, a tie of precious blocks or a
\* reconsiderblock below a failed block, the assertions of
\* PruneBlockIndexCandidates and AcceptBlockHeader cannot fail.
THEOREM AbortsAlwaysExplained == Spec => []AbortsExplained
<1>1. Inv => AbortsExplained
  BY Zenon DEF Inv
<1>. QED
  BY <1>1, Invariance, PTL

\* A turn of ActivateBestChain ends the loop with no less work, or has more
\* work, or marks a block that was not marked.
LEMMA Turn ==
    ASSUME Inv, NEW t \in Thread, ActivateBestChain(t), ~raced'
    PROVE  \/ pindexMostWork'[t] = Out /\ ~(nChainWork[tip'] < nChainWork[tip])
           \/ nChainWork[tip'] > nChainWork[tip]
           \/ failedValid' # failedValid
<1>0. Typed /\ Connects /\ pindexMostWork[t] # Out /\ pindexMostWork \in [Thread -> linked \cup {None, Out}]
  BY Zenon DEF Inv, ActivateBestChain, Typed
<1>1. tip \in Block /\ nChainWork \in [Block -> Nat]
  BY <1>0, TypedChains, WorkStep, ZenonT(30)
<1>2. PICK h : h = Heading(t) /\ (Settle(t, h) \/ Advance(t, h))
  BY Zenon DEF ActivateBestChain
<1>3. CASE Settle(t, h)
  <2>1. pindexMostWork'[t] = Out /\ tip' = tip
    BY <1>0, <1>3, Zenon DEF Settle
  <2>. QED
    BY <1>1, <2>1, Zenon
<1>4. CASE Advance(t, h)
  <2>1. PICK step :
          /\ step = ActivateBestChainStep(h.found) /\ tip' = step.tip
          /\ failedValid' = failedValid \cup step.rejected
          /\ pindexMostWork' = [pindexMostWork EXCEPT ![t] = CacheAfter(step, h.found)]
          /\ ~raced /\ h.found \notin {None, tip}
    BY <1>4, Zenon DEF Advance
  <2>2. RaceInv /\ RaceHead(t, h)
    BY <1>0, <1>2, <2>1, HeadFact, ZenonT(30) DEF Inv
  <2>3. /\ h.found \in Block /\ Clean(h.found) /\ ~Worse(nSequenceId, h.found, tip)
    BY <2>1, <2>2, Zenon DEF RaceHead, RaceInv, CandInv
  <2>4. Worse(nSequenceId, tip, h.found) /\ h.found \notin Chain[tip]
    BY <1>0, <1>1, <2>1, <2>3, Order, ZenonT(30)
  <2>5. StepOK(step, h.found)
    <3>1. Sound(tip) /\ verdict[Genesis] = "valid"
      BY <1>0, BestChainAssumption, ZenonT(30) DEF Connects, Typed
    <3>. QED
      BY <1>1, <2>1, <2>3, <3>1, StepFact, ZenonT(30)
  <2>6. CASE step.rejected = {}
    <3>1. step.tip = h.found \/ nChainWork[step.tip] > nChainWork[tip]
      BY <2>4, <2>5, <2>6, ZenonT(30) DEF StepOK
    <3>2. CASE step.tip = h.found
      <4>1. pindexMostWork'[t] = Out
        BY <1>0, <2>1, <2>6, <3>2, ZenonT(30) DEF CacheAfter
      <4>2. ~(nChainWork[h.found] < nChainWork[tip])
        BY <1>1, <2>3, <2>4, ZenonT(30) DEF Worse
      <4>. QED
        BY <2>1, <3>2, <4>1, <4>2, ZenonT(30)
    <3>. QED
      BY <2>1, <3>1, <3>2, ZenonT(30)
  <2>7. CASE step.rejected # {}
    <3>1. PICK f \in Chain[h.found] : step.rejected = {f}
      BY <2>5, <2>7, ZenonT(30) DEF StepOK
    <3>2. f \notin failedValid
      BY <2>3, <3>1, Zenon DEF Clean, Failed
    <3>. QED
      BY <2>1, <3>1, <3>2, ZenonT(30)
  <2>. QED
    BY <2>6, <2>7, ZenonT(30)
<1>. QED
  BY <1>2, <1>3, <1>4, ZenonT(30)

\* cs_main is released with less work than before only by an RPC, or by a turn
\* of ActivateBestChain that met a block that does not connect.
THEOREM WorkAlwaysKept == Spec => WorkKept
<1>1. ASSUME Inv, [Next]_vars
      PROVE  [nChainWork[tip'] < nChainWork[tip] =>
                 calls' # calls \/ raced' \/ failedValid' # failedValid]_vars
  <2>0. Typed /\ tip \in Block /\ nChainWork[tip] \in Nat /\ calls \in Nat
    BY <1>1, TypedChains, WorkStep, BestChainAssumption, SMTT(30) DEF Inv, Typed
  <2>1. CASE tip' = tip
    BY <2>0, <2>1, SMTT(30)
  <2>2. CASE \E t \in Thread : ActivateBestChain(t)
    <3>1. PICK t \in Thread : ActivateBestChain(t)
      BY <2>2, Zenon
    <3>2. ASSUME ~raced', nChainWork[tip'] > nChainWork[tip]
          PROVE  ~(nChainWork[tip'] < nChainWork[tip])
      <4>1. tip' \in Block
        <5>1. Inv'
          BY <1>1, <3>1, KeepActivate, ZenonT(30)
        <5>. QED
          BY <5>1, Zenon DEF Inv, Typed
      <4>. QED
        BY <2>0, <3>2, <4>1, WorkStep, SMTT(30)
    <3>. QED
      BY <1>1, <3>1, <3>2, Turn, Zenon
  <2>3. CASE calls' # calls
    BY <2>3, Zenon
  <2>4. (\E t \in Thread : Call(t)) => calls' # calls
    BY <2>0, SMTT(30) DEF Call
  <2>5. tip' = tip \/ (\E t \in Thread : ActivateBestChain(t)) \/ (\E t \in Thread : Call(t))
    BY <1>1, Zenon DEF Next, vars, Aborted, ProcessNewBlockHeaders, ProcessNewBlock, Enter,
                InvalidateBlock, ResetBlockFailureFlags, PreciousBlock
  <2>. QED
    BY <2>1, <2>2, <2>3, <2>4, <2>5, ZenonT(30)
<1>. QED
  BY <1>1, Invariance, PTL DEF Spec, WorkKept

\* No turn of the loop of ActivateBestChain is repeated in vain.
THEOREM TurnsAlwaysCount == Spec => TurnsCount
<1>1. ASSUME Inv, [Next]_vars
      PROVE  [\A t \in Thread : ActivateBestChain(t) /\ pindexMostWork'[t] # Out =>
                 nChainWork[tip'] > nChainWork[tip] \/ failedValid' # failedValid \/ raced']_vars
  BY <1>1, Turn, Zenon
<1>. QED
  BY <1>1, Invariance, PTL DEF Spec, TurnsCount

=============================================================================
