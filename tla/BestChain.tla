----------------------------- MODULE BestChain -----------------------------
(***************************************************************************)
(* Chain selection (src/src/validation.cpp): the block index, the set      *)
(* setBlockIndexCandidates of blocks worth switching to, and the loop of   *)
(* ActivateBestChain that switches to the best of them in several steps.   *)
(* cs_main is held during one step and released between two, while the     *)
(* thread keeps the block it is heading for in pindexMostWork; any other   *)
(* thread may then accept a header or a block, or run an RPC               *)
(* (invalidateblock, reconsiderblock, preciousblock) and its own           *)
(* ActivateBestChain.                                                      *)
(*                                                                         *)
(* Block files are not pruned, so that BLOCK_HAVE_DATA, nTx > 0 and        *)
(* BLOCK_VALID_TRANSACTIONS are one fact, and reading a block or           *)
(* disconnecting one does not fail.                                        *)
(***************************************************************************)
EXTENDS Integers, FiniteSets, Sequences, Functions

CONSTANTS
    Block,
    Genesis,
    Prev,       \* pprev of the blocks other than Genesis
    Proof,      \* GetBlockProof of each block
    Address,    \* where the index entry of each block lies in memory
    Verdict,    \* what the checks may find: functions from Block to Finding
    Thread,     \* threads that call ProcessNewBlock or an RPC
    MaxCalls,   \* bound on the calls of the RPCs
    MinSequenceId, \* std::numeric_limits<int32_t>::min()
    None,       \* in ActivateBestChain, with pindexMostWork == nullptr
    Out         \* not in ActivateBestChain

\* What is wrong with a block: nothing, what ContextualCheckBlock finds when
\* the data arrives, or what ConnectBlock finds when the block is connected.
Finding == {"valid", "malformed", "invalid"}

ASSUME BestChainAssumption ==
    /\ IsFiniteSet(Block) /\ Genesis \in Block
    /\ Prev \in [Block \ {Genesis} -> Block]
    /\ Proof \in [Block -> Nat \ {0}]
    /\ IsInjective(Address) /\ Address \in [Block -> Nat]
    /\ Verdict \subseteq {v \in [Block -> Finding] : v[Genesis] = "valid"}
    /\ MaxCalls \in Nat
    /\ MinSequenceId \in Int /\ MinSequenceId < 0
    /\ None # Out /\ None \notin Block /\ Out \notin Block

\* The hash of a parent is part of what a hash is computed from: going back from
\* parent to parent, no set of blocks is left only at Genesis.
ASSUME TreeAssumption ==
    \A S \in SUBSET (Block \ {Genesis}) : S # {} => \E b \in S : Prev[b] \notin S

VARIABLES
    verdict,     \* what is wrong with each block; the node finds out by checking
    index,       \* mapBlockIndex
    data,        \* blocks with BLOCK_HAVE_DATA
    linked,      \* blocks with nChainTx # 0
    scripts,     \* blocks with BLOCK_VALID_SCRIPTS
    failedValid, \* blocks with BLOCK_FAILED_VALID
    failedChild, \* blocks with BLOCK_FAILED_CHILD
    nSequenceId,
    setBlockIndexCandidates,
    mapBlocksUnlinked, \* the children each block leads to, in order of insertion
    g_failed_blocks,
    tip,         \* chainActive.Tip()
    nBlockSequenceId,
    nBlockReverseSequenceId,
    nLastPreciousChainwork,
    pindexMostWork, \* of each thread, or Out
    aborted,     \* an assertion failed and ended the node
    calls,       \* RPCs called
    unmarked,    \* history: the blocks reconsiderblock took a mark from
    pardoned,    \* history: those that were ancestors of the one it was called for
    tied,        \* history: a precious block is not before the others of its work
    raced        \* history: a chain was changed under a cached pindexMostWork

statusVars == <<index, data, linked, scripts, failedValid, failedChild>>
orderVars == <<nSequenceId, nBlockSequenceId, nBlockReverseSequenceId,
               nLastPreciousChainwork>>
setVars == <<setBlockIndexCandidates, mapBlocksUnlinked, g_failed_blocks>>
pardonVars == <<unmarked, pardoned>>
vars == <<verdict, statusVars, orderVars, setVars, tip, pindexMostWork, aborted,
          calls, pardonVars, tied, raced>>

-----------------------------------------------------------------------------
(* The tree of blocks.                                                     *)

\* A block and its ancestors; a later tip stands for the chain chainActive.
Ancestors[b \in Block] ==
    IF b = Genesis THEN {b} ELSE {b} \cup Ancestors[Prev[b]]
Chain == [b \in Block |-> Ancestors[b]]

\* The work of a block and of its ancestors, as AddToBlockIndex adds it up.
WorkTo[b \in Block] ==
    Proof[b] + (IF b = Genesis THEN 0 ELSE WorkTo[Prev[b]])
nChainWork == [b \in Block |-> WorkTo[b]]

\* The blocks of the chain of b after a.
After(a, b) == Chain[b] \ Chain[a]

\* The last and the first of some blocks of one chain.
Last(S) == CHOOSE b \in S : S \subseteq Chain[b]
First(S) == CHOOSE b \in S : \A c \in S : b \in Chain[c]

Failed == failedValid \cup failedChild

\* CBlockIndexWorkComparator: a sorts before b.
Worse(id, a, b) ==
    \/ nChainWork[a] < nChainWork[b]
    \/ /\ nChainWork[a] = nChainWork[b]
       /\ \/ id[a] > id[b]
          \/ id[a] = id[b] /\ Address[a] > Address[b]

\* The last element of setBlockIndexCandidates, were it S.
Best(S) == CHOOSE b \in S : \A c \in S \ {b} : Worse(nSequenceId, c, b)

\* Mutant: the tip is pruned as well.
PruneTip(S, id, t) == {b \in S : Worse(id, t, b)}

\* PruneBlockIndexCandidates.
Prune(S, id, t) == {b \in S : ~Worse(id, b, t)}

Init ==
    /\ verdict \in Verdict
    /\ index = {Genesis}
    /\ data = {Genesis}
    /\ linked = {Genesis}
    /\ scripts = {Genesis}
    /\ failedValid = {}
    /\ failedChild = {}
    /\ nSequenceId = [b \in Block |-> IF b = Genesis THEN 1 ELSE 0]
    /\ setBlockIndexCandidates = {Genesis}
    /\ mapBlocksUnlinked = [b \in Block |-> << >>]
    /\ g_failed_blocks = {}
    /\ tip = Genesis
    /\ nBlockSequenceId = 2
    /\ nBlockReverseSequenceId = -1
    /\ nLastPreciousChainwork = 0
    /\ pindexMostWork = [t \in Thread |-> Out]
    /\ aborted = FALSE
    /\ calls = 0
    /\ unmarked = {}
    /\ pardoned = {}
    /\ tied = FALSE
    /\ raced = FALSE

-----------------------------------------------------------------------------
(* Headers and blocks that arrive.                                         *)

\* The blocks of g_failed_blocks a new header of parent p descends from.
FailedAncestors(p) ==
    IF p \in scripts THEN {} ELSE Chain[p] \cap g_failed_blocks

\* Mutant: the parent is not looked at.
AcceptOrphanHeader(b) == b \notin Failed

\* AcceptBlockHeader returns true for a header that is known and not failed,
\* and for a new one whose parent is known and descends from no failed block.
AcceptBlockHeader(b) ==
    \/ b \in index \ Failed
    \/ /\ b \notin index
       /\ Prev[b] \in index \ Failed
       /\ FailedAncestors(Prev[b]) = {}

\* The failed ancestor it meets first otherwise, going through a set of pointers.
failedit(p) ==
    CHOOSE f \in FailedAncestors(p) :
        \A g \in FailedAncestors(p) : Address[f] <= Address[g]

\* ProcessNewBlockHeaders with one new header.  A header with a failed ancestor
\* is refused, and the blocks after that ancestor are marked.
ProcessNewBlockHeaders(b) ==
    /\ ~aborted
    /\ b \notin index
    /\ Prev[b] \in index \ Failed
    /\ IF AcceptBlockHeader(b)
       THEN index' = index \cup {b} /\ UNCHANGED <<failedChild, aborted>>
       ELSE /\ aborted' = (failedit(Prev[b]) \notin failedValid)
            /\ failedChild' = IF aborted' THEN failedChild
                              ELSE failedChild \cup After(failedit(Prev[b]), Prev[b])
            /\ UNCHANGED index
    /\ UNCHANGED <<verdict, data, linked, scripts, failedValid, orderVars,
                   setVars, tip, pindexMostWork, calls, pardonVars, tied, raced>>

\* Mutant: blocks that came too early are not linked.
LinkingAlone(b) == {b}

\* The blocks in mapBlocksUnlinked, which wait for a parent.
Waiting == {c \in Block \ {Genesis} : c \in Range(mapBlocksUnlinked[Prev[c]])}

\* The blocks that ReceivedBlockTransactions links: b and those that wait for
\* one of them.
Linking(b) == {c \in Block : b \in Chain[c] /\ After(b, c) \subseteq Waiting}

\* The queue holds c before d: breadth first, and the blocks with one parent in
\* the order of mapBlocksUnlinked.
Before(c, d) ==
    \/ Cardinality(Chain[c]) < Cardinality(Chain[d])
    \/ /\ Cardinality(Chain[c]) = Cardinality(Chain[d])
       /\ c # d
       /\ LET x == First(After(d, c))
              y == First(After(c, d))
              children == mapBlocksUnlinked[Prev[x]]
          IN  \E i, j \in DOMAIN children :
                  i < j /\ children[i] = x /\ children[j] = y

\* ReceivedBlockTransactions.
ReceivedBlockTransactions(b) ==
    LET queue == Linking(b)
        id == [c \in Block |->
                 IF c \in queue
                 THEN nBlockSequenceId + Cardinality({d \in queue : Before(d, c)})
                 ELSE nSequenceId[c]]
    IN  /\ data' = data \cup {b}
        /\ IF Prev[b] \in linked
           THEN /\ linked' = linked \cup queue
                /\ nSequenceId' = id
                /\ nBlockSequenceId' = nBlockSequenceId + Cardinality(queue)
                /\ setBlockIndexCandidates' =
                     setBlockIndexCandidates \cup Prune(queue, id, tip)
                /\ mapBlocksUnlinked' =
                     [c \in Block |-> IF c \in queue THEN << >> ELSE mapBlocksUnlinked[c]]
           ELSE /\ mapBlocksUnlinked' =
                     IF Prev[b] \in Failed THEN mapBlocksUnlinked
                     ELSE [mapBlocksUnlinked EXCEPT ![Prev[b]] = Append(@, b)]
                /\ UNCHANGED <<linked, nSequenceId, nBlockSequenceId,
                               setBlockIndexCandidates>>

\* ProcessNewBlock: AcceptBlock under cs_main, then, unless it failed,
\* ActivateBestChain.  A block that was not asked for is stored only if it has
\* more work than the tip.  (One that is too far ahead or below nMinimumChainWork
\* is not stored either: it does what its header and Enter do.  So does, but for
\* Enter, a block whose header AcceptBlockHeader refuses.)
ProcessNewBlock(t, b, fRequested) ==
    /\ ~aborted
    /\ pindexMostWork[t] = Out
    /\ b # Genesis
    /\ AcceptBlockHeader(b)
    /\ index' = index \cup {b}
    /\ IF b \in data \/ (~fRequested /\ nChainWork[b] <= nChainWork[tip])
       THEN /\ pindexMostWork' = [pindexMostWork EXCEPT ![t] = None]
            /\ UNCHANGED <<data, linked, failedValid, nSequenceId,
                           nBlockSequenceId, setBlockIndexCandidates,
                           mapBlocksUnlinked>>
       ELSE IF verdict[b] = "malformed"
       THEN /\ failedValid' = failedValid \cup {b}
            /\ UNCHANGED <<data, linked, nSequenceId, nBlockSequenceId,
                           setBlockIndexCandidates, mapBlocksUnlinked,
                           pindexMostWork>>
       ELSE /\ ReceivedBlockTransactions(b)
            /\ pindexMostWork' = [pindexMostWork EXCEPT ![t] = None]
            /\ UNCHANGED failedValid
    /\ UNCHANGED <<verdict, scripts, failedChild, g_failed_blocks, tip,
                   nBlockReverseSequenceId, nLastPreciousChainwork, aborted,
                   calls, pardonVars, tied, raced>>

-----------------------------------------------------------------------------
(* ActivateBestChain.                                                      *)

\* Mutant: failed blocks on the way are not seen.
ObstaclesIgnored(c) == {}

\* The failed blocks between the active chain and c.
Obstacles(c) == After(tip, c) \cap Failed

\* FindMostWorkChain: the best candidate that no failed block separates from
\* the active chain.  The better ones, and all the blocks after the failed one,
\* are marked and leave the candidates.
FindMostWorkChain ==
    LET usable == {c \in setBlockIndexCandidates : Obstacles(c) = {}}
        found == IF usable = {} THEN None ELSE Best(usable)
        tried == {c \in setBlockIndexCandidates :
                    usable = {} \/ Worse(nSequenceId, found, c)}
        marked == UNION {After(Last(Obstacles(c)), c) : c \in tried}
    IN  [found |-> found, marked |-> marked,
         erased |-> marked \cup {Last(Obstacles(c)) : c \in tried}]

\* Another thread keeps a pindexMostWork that a step of t does not know of.
Overtaken(t) == \E u \in Thread \ {t} : pindexMostWork[u] \in Block

\* Mutant: the lock is released after every block.
StopsAtOnce(path, goal) == path

\* Where connecting the blocks of path may stop: at a block that does not
\* connect, at one that has more work than the tip had, and at goal.
Stops(path, goal) ==
    {b \in path : verdict[b] = "invalid" \/ nChainWork[b] > nChainWork[tip] \/ b = goal}

\* Mutant: a block that does not connect is not marked.
StepUnmarked(goal) ==
    LET fork == Last(Chain[tip] \cap Chain[goal])
        final == First(Stops(After(fork, goal), goal))
    IN  [fork |-> fork, rejected |-> {},
         tip |-> IF verdict[final] = "invalid" THEN Prev[final] ELSE final]

\* ActivateBestChainStep towards goal: back to the fork, then forward as far as
\* the first block where it may stop.
ActivateBestChainStep(goal) ==
    LET fork == Last(Chain[tip] \cap Chain[goal])
        path == After(fork, goal)
        final == First(Stops(path, goal))
    IN  IF path = {} THEN [fork |-> fork, tip |-> fork, rejected |-> {}]
        ELSE IF verdict[final] = "invalid"
        THEN [fork |-> fork, tip |-> Prev[final], rejected |-> {final}]
        ELSE [fork |-> fork, tip |-> final, rejected |-> {}]

\* ActivateBestChain called for itself, as in ProcessGetBlockData.
Enter(t) ==
    /\ ~aborted
    /\ pindexMostWork[t] = Out
    /\ pindexMostWork' = [pindexMostWork EXCEPT ![t] = None]
    /\ UNCHANGED <<verdict, statusVars, orderVars, setVars, tip, aborted, calls,
                   pardonVars, tied, raced>>

\* Where the loop of ActivateBestChain heads for: pindexMostWork if it has one.
Heading(t) ==
    IF pindexMostWork[t] = None THEN FindMostWorkChain
    ELSE [found |-> pindexMostWork[t], marked |-> {}, erased |-> {}]

\* Mutant: the loop ends at a block that does not connect.
CacheAbandoned(step, goal) == IF step.tip = goal \/ step.rejected # {} THEN Out ELSE goal

\* pindexMostWork after a turn of the loop: wiped if a block did not connect.
CacheAfter(step, goal) ==
    IF step.rejected # {} THEN None ELSE IF step.tip = goal THEN Out ELSE goal

\* A turn of the loop that finds nothing to do.
Settle(t, heading) ==
    /\ heading.found \in {None, tip}
    /\ pindexMostWork' = [pindexMostWork EXCEPT ![t] = Out]
    /\ setBlockIndexCandidates' = setBlockIndexCandidates \ heading.erased
    /\ UNCHANGED <<tip, scripts, failedValid, g_failed_blocks, aborted, raced>>

\* A turn that moves the tip.  The candidates are pruned after each block that
\* connects; a block that does not is marked, and the cache wiped.
Advance(t, heading) ==
    /\ heading.found \notin {None, tip}
    /\ \E step \in {ActivateBestChainStep(heading.found)},
          S \in {setBlockIndexCandidates \ heading.erased} :
        LET kept == IF step.tip = step.fork THEN S ELSE Prune(S, nSequenceId, step.tip)
        IN  /\ tip' = step.tip
            /\ scripts' = scripts \cup (After(step.fork, step.tip) \ Failed)
            /\ failedValid' = failedValid \cup step.rejected
            /\ g_failed_blocks' = g_failed_blocks \cup step.rejected
            /\ setBlockIndexCandidates' = kept \ step.rejected
            /\ aborted' = (step.tip # step.fork /\ kept = {})
            /\ pindexMostWork' =
                 [pindexMostWork EXCEPT ![t] = CacheAfter(step, heading.found)]
    /\ raced' = (raced \/ Overtaken(t))

\* One turn of the loop of ActivateBestChain, under cs_main.
ActivateBestChain(t) ==
    /\ ~aborted
    /\ pindexMostWork[t] # Out
    /\ \E heading \in {Heading(t)} :
        /\ failedChild' = failedChild \cup heading.marked
        /\ Settle(t, heading) \/ Advance(t, heading)
    /\ UNCHANGED <<verdict, index, data, linked, orderVars, mapBlocksUnlinked,
                   calls, pardonVars, tied>>

-----------------------------------------------------------------------------
(* The RPCs.  Each ends with ActivateBestChain.                            *)

\* Entering an RPC.
Call(t) ==
    /\ ~aborted
    /\ pindexMostWork[t] = Out
    /\ calls < MaxCalls
    /\ calls' = calls + 1
    /\ pindexMostWork' = [pindexMostWork EXCEPT ![t] = None]

\* The blocks that InvalidateBlock disconnects after b, and marks.
Disconnected(b) == IF b \in Chain[tip] THEN After(b, tip) ELSE {}

\* Mutant: nothing is put back among the candidates.
ReadmitNone(gone, t) == {}

\* The blocks that are as good as the new tip t, once those of gone have failed.
Readmit(gone, t) == Prune(linked \ (Failed \cup gone), nSequenceId, t)

\* invalidateblock: InvalidateBlock.  It disconnects the block if it is in the
\* active chain, marks it and what was disconnected after it, and puts back
\* among the candidates whatever is as good as the new tip.
InvalidateBlock(t, b) ==
    LET newTip == IF b \in Chain[tip] THEN Prev[b] ELSE tip
        gone == Disconnected(b) \cup {b}
    IN  /\ Call(t)
        /\ b \in index \ {Genesis}
        /\ tip' = newTip
        /\ failedChild' = failedChild \cup Disconnected(b)
        /\ failedValid' = failedValid \cup {b}
        /\ g_failed_blocks' = g_failed_blocks \cup {b}
        /\ setBlockIndexCandidates' =
             (setBlockIndexCandidates \ gone) \cup Readmit(gone, newTip)
        /\ raced' = (raced \/ Overtaken(t))
        /\ UNCHANGED <<verdict, index, data, linked, scripts, orderVars,
                       mapBlocksUnlinked, aborted, pardonVars, tied>>

\* reconsiderblock: ResetBlockFailureFlags.  The block and its descendants lose
\* their marks and return to the candidates, and the ancestors lose their marks.
ResetBlockFailureFlags(t, b) ==
    LET descendants == {c \in index : b \in Chain[c] /\ (c \in Failed \/ c \notin data)}
    IN  /\ Call(t)
        /\ b \in index
        /\ failedValid' = failedValid \ (descendants \cup Chain[b])
        /\ failedChild' = failedChild \ (descendants \cup Chain[b])
        /\ g_failed_blocks' = g_failed_blocks \ descendants
        /\ setBlockIndexCandidates' =
             setBlockIndexCandidates \cup
             {c \in descendants \cap linked : Worse(nSequenceId, tip, c)}
        /\ unmarked' = unmarked \cup (Failed \cap (descendants \cup Chain[b]))
        /\ pardoned' = pardoned \cup (Failed \cap (Chain[b] \ {b}))
        /\ UNCHANGED <<verdict, index, data, linked, scripts, orderVars,
                       mapBlocksUnlinked, tip, aborted, tied, raced>>

\* preciousblock: PreciousBlock.  The block is treated as if it had been
\* received before the others of the same work.
PreciousBlock(t, b) ==
    LET last == IF nChainWork[tip] > nLastPreciousChainwork THEN -1
                ELSE nBlockReverseSequenceId
        id == [nSequenceId EXCEPT ![b] = last]
        others == setBlockIndexCandidates \ {b}
    IN  /\ Call(t)
        /\ b \in index
        /\ nChainWork[b] >= nChainWork[tip]
        /\ nSequenceId' = id
        /\ nBlockReverseSequenceId' = IF last > MinSequenceId THEN last - 1 ELSE last
        /\ nLastPreciousChainwork' = nChainWork[tip]
        /\ IF b \in linked \ Failed
           THEN /\ setBlockIndexCandidates' = Prune(others \cup {b}, id, tip)
                /\ aborted' = (setBlockIndexCandidates' = {})
           ELSE setBlockIndexCandidates' = others /\ UNCHANGED aborted
        /\ tied' = (tied \/ \E c \in linked \ {b} :
                       b \in linked /\ nChainWork[c] = nChainWork[b] /\ id[c] <= last)
        /\ raced' = (raced \/ Overtaken(t))
        /\ UNCHANGED <<verdict, statusVars, nBlockSequenceId, mapBlocksUnlinked,
                       g_failed_blocks, tip, pardonVars>>

-----------------------------------------------------------------------------
\* The node has ended.
Aborted == aborted /\ UNCHANGED vars

Next ==
    \/ \E b \in Block \ {Genesis} : ProcessNewBlockHeaders(b)
    \/ \E t \in Thread, b \in Block, fRequested \in BOOLEAN :
          ProcessNewBlock(t, b, fRequested)
    \/ \E t \in Thread : Enter(t)
    \/ \E t \in Thread : ActivateBestChain(t)
    \/ \E t \in Thread, b \in Block : InvalidateBlock(t, b)
    \/ \E t \in Thread, b \in Block : ResetBlockFailureFlags(t, b)
    \/ \E t \in Thread, b \in Block : PreciousBlock(t, b)
    \/ Aborted

Spec == Init /\ [][Next]_vars

-----------------------------------------------------------------------------
\* The status flags grow with what is known of a block (TREE, data, linked,
\* SCRIPTS), an entry of the index has its parent there, candidates are linked,
\* and what waits in mapBlocksUnlinked has data, waits once for its parent, and
\* is not linked.
TypeOK ==
    /\ verdict \in Verdict
    /\ tip \in linked
    /\ scripts \subseteq linked /\ linked \subseteq data
    /\ data \subseteq index /\ index \subseteq Block
    /\ \A b \in index \ {Genesis} : Prev[b] \in index /\ (b \in linked => Prev[b] \in linked)
    /\ Failed \cup g_failed_blocks \subseteq index \ {Genesis}
    /\ setBlockIndexCandidates \subseteq linked
    /\ mapBlocksUnlinked \in [Block -> Seq(data \ linked)]
    /\ \A b \in Block : /\ IsInjective(mapBlocksUnlinked[b])
                        /\ \A c \in Range(mapBlocksUnlinked[b]) : c # Genesis /\ Prev[c] = b
    /\ nSequenceId \in [Block -> Int]
    /\ nBlockSequenceId \in Int /\ nBlockReverseSequenceId \in Int
    /\ pindexMostWork \in [Thread -> linked \cup {None, Out}]
    /\ calls \in 0..MaxCalls

\* No thread is in ActivateBestChain.
Quiet == \A t \in Thread : pindexMostWork[t] = Out

\* What CheckBlockIndex asserts of setBlockIndexCandidates.  A block that sorts
\* worse than the tip is not a candidate, whatever the order in which blocks
\* arrive, are rejected, invalidated or made precious.  And when no activation
\* is under way, a linked block without a failed ancestor that is as good as the
\* tip, the tip included, is one, so that the node can switch (back) to it.
CandidatesExact ==
    ~raced =>
        /\ \A b \in setBlockIndexCandidates : ~Worse(nSequenceId, b, tip)
        /\ Quiet /\ ~tied /\ pardoned = {} => \A b \in linked :
              Chain[b] \cap Failed = {} /\ ~Worse(nSequenceId, b, tip)
                  => b \in setBlockIndexCandidates

\* "The result is either failure or an activated best chain": when every call
\* of ActivateBestChain has returned, no candidate but the tip can be reached
\* from the active chain, also when the way there led through a failed
\* reorganisation.
BestActivated ==
    Quiet /\ ~raced =>
        \A b \in setBlockIndexCandidates \ {tip} : Obstacles(b) # {}

\* The active chain holds no block marked as failed: FindMostWorkChain looks
\* only as far as the active chain and takes the blocks in it as valid.
NoFailedActive == ~raced => Chain[tip] \cap Failed = {}

\* mapBlocksUnlinked holds every block whose data came before that of its
\* parent, unless an ancestor has failed, and none whose parent is linked: no
\* block stays out of the candidates for having come too early.
UnlinkedExact ==
    /\ \A b \in Waiting : Prev[b] \notin linked
    /\ \A b \in data \ linked : b \in Waiting \/ Chain[b] \cap (Failed \cup unmarked) # {}

\* The assertions of PruneBlockIndexCandidates (a candidate is left) and of
\* AcceptBlockHeader (what is in g_failed_blocks is marked) only fail after a
\* race on a cached pindexMostWork or a reconsiderblock below a failed block.
AbortsExplained == aborted => raced \/ tied \/ pardoned # {}

\* The assertion of PruneBlockIndexCandidates: "Either the current tip or a
\* successor of it we're working towards is left in setBlockIndexCandidates."
NeverAborts == ~aborted

\* ActivateBestChain gives up work only on the way to a block that does not
\* connect: cs_main is released with less work than before only then.
WorkKept ==
    [][nChainWork[tip'] < nChainWork[tip] =>
          calls' # calls \/ raced' \/ failedValid' # failedValid]_vars

\* Every turn of the loop of ActivateBestChain that is not the last ends with
\* more work, or with a block marked that was not: the loop cannot go on for
\* ever, since the block that stopped it is not tried again.
TurnsCount ==
    [][\A t \in Thread :
          ActivateBestChain(t) /\ pindexMostWork'[t] # Out =>
             nChainWork[tip'] > nChainWork[tip] \/ failedValid' # failedValid \/ raced']_vars
=============================================================================
