----------------------------- MODULE CoinsFlush -----------------------------
(***************************************************************************)
(* The coin database across flushes and crashes (src/src/txdb.cpp,         *)
(* CCoinsViewDB::BatchWrite, and src/src/validation.cpp, ConnectBlock,     *)
(* DisconnectBlock, FlushStateToDisk and ReplayBlocks).  A flush writes    *)
(* the changed coins in several batches; after a crash between two of them *)
(* the database is a mixture of two UTXO sets, which ReplayBlocks rolls    *)
(* back along the old branch and forward along the new one.                *)
(*                                                                         *)
(* The caches are transparent (see CoinsCache), so pcoinsTip is the map it *)
(* shows.  A block's hash commits to its ancestors, so a block is named by *)
(* the chain of block contents that ends in it; <<>> is the genesis block. *)
(***************************************************************************)
EXTENDS Integers, Sequences

CONSTANTS
    Outpoint,
    Tx,
    Ins,         \* the outpoints each transaction spends
    Outs,        \* the outpoints each transaction creates
    Coinbase,    \* the coinbase of a block of each height (BIP34)
    Body,        \* sequences of transactions that follow a coinbase in a block
    MaxHeight,   \* bound: blocks above genesis
    Null         \* the null block hash

Height == 1..MaxHeight

ASSUME CoinsFlushAssumption ==
    /\ MaxHeight \in Nat
    /\ Ins \in [Tx -> SUBSET Outpoint] /\ Outs \in [Tx -> SUBSET Outpoint]
    /\ Coinbase \in [Height -> Tx] /\ \A h \in Height : Ins[Coinbase[h]] = {}
    /\ Body \subseteq Seq(Tx)

\* An outpoint names the transaction that creates it; the coinbase starts with
\* the height of its block ("bad-cb-height"); the other transactions of a block
\* have inputs ("bad-txns-vin-empty", "bad-cb-multiple").
ASSUME UniqueAssumption ==
    /\ \A t, s \in Tx : t # s => Outs[t] \cap Outs[s] = {}
    /\ \A g, h \in Height : Coinbase[g] = Coinbase[h] => g = h
    /\ \A b \in Body : \A n \in DOMAIN b : Ins[b[n]] # {}

\* The null hash is no block's hash.
ASSUME NullAssumption == \A n \in 0..MaxHeight : Null \notin [1..n -> Body]

VARIABLES
    db,          \* the coins in the database: height of the coin, 0 if none
    best,        \* DB_BEST_BLOCK, Null when erased
    heads,       \* DB_HEAD_BLOCKS: <<>> or <<new, old>>
    coins,       \* pcoinsTip, or the cache of ReplayBlocks
    chain,       \* the block that coins represents
    mode,        \* "down", "replay", "flush", "run"
    todo         \* outpoints whose entry the flush has not passed yet

vars == <<db, best, heads, coins, chain, mode, todo>>

-----------------------------------------------------------------------------
(* Blocks and their effect on coins.                                       *)

\* block.vtx of the last block of chain c.
vtx(c) == <<Coinbase[Len(c)]>> \o c[Len(c)]

\* The block before the last one of c.
pprev(c) == SubSeq(c, 1, Len(c) - 1)

\* GetAncestor: c is d or a block below it.
IsAncestor(c, d) == Len(c) <= Len(d) /\ c = SubSeq(d, 1, Len(c))

\* UpdateCoins: spend the inputs, then add the outputs at this height.
UpdateCoins(u, t, h) ==
    [o \in Outpoint |-> IF o \in Outs[t] THEN h ELSE IF o \in Ins[t] THEN 0 ELSE u[o]]

\* The coins after the first n transactions of a block, applied in order.
AfterTxs(u, c, n) ==
    LET v[i \in 0..Len(vtx(c))] ==
            IF i = 0 THEN u ELSE UpdateCoins(v[i - 1], vtx(c)[i], Len(c))
    IN  v[n]

\* ConnectBlock and RollforwardBlock, as far as coins are concerned.
ConnectBlock(u, c) == AfterTxs(u, c, Len(vtx(c)))

\* HaveInputs of every transaction, each after the ones before it.
CheckTxInputs(u, c) ==
    \A n \in DOMAIN vtx(c) : \A o \in Ins[vtx(c)[n]] : AfterTxs(u, c, n - 1)[o] # 0

\* Reference: the UTXO set that a chain defines.
Utxo(c) ==
    LET u[n \in 0..Len(c)] == IF n = 0 THEN [o \in Outpoint |-> 0]
                              ELSE ConnectBlock(u[n - 1], SubSeq(c, 1, n))
    IN  u[Len(c)]

\* blockUndo.vtxundo: the coins transaction n of the last block of c spent.
\* ConnectBlock wrote them to the undo file when it connected the block.
Undo(c, n) == AfterTxs(Utxo(pprev(c)), c, n - 1)

\* DisconnectBlock of one transaction: spend the outputs, then restore the
\* inputs (ApplyTxInUndo).
UndoTx(u, c, n) ==
    [o \in Outpoint |-> IF o \in Ins[vtx(c)[n]] THEN Undo(c, n)[o]
                        ELSE IF o \in Outs[vtx(c)[n]] THEN 0 ELSE u[o]]

\* The coins after DisconnectBlock has undone the last n transactions.
AfterUndo(u, c, n) ==
    LET v[i \in 0..Len(vtx(c))] ==
            IF i = 0 THEN u ELSE UndoTx(v[i - 1], c, Len(vtx(c)) + 1 - i)
    IN  v[n]

\* Mutant: undoes the transactions in their order.
DisconnectForwards(u, c) ==
    LET v[i \in 0..Len(vtx(c))] == IF i = 0 THEN u ELSE UndoTx(v[i - 1], c, i)
    IN  v[Len(vtx(c))]

DisconnectBlock(u, c) == AfterUndo(u, c, Len(vtx(c)))

\* fClean: every output is there, as the block made it, when it is its turn to
\* be spent, and no input is there when it is its turn to be restored.
Clean(u, c) ==
    \A n \in DOMAIN vtx(c) :
        LET left == AfterUndo(u, c, Len(vtx(c)) - n)
        IN  /\ \A o \in Outs[vtx(c)[n]] : left[o] = Len(c)
            /\ \A o \in Ins[vtx(c)[n]] : left[o] = 0

-----------------------------------------------------------------------------

Init ==
    /\ db = [o \in Outpoint |-> 0]
    /\ best = Null
    /\ heads = <<>>
    /\ coins = db
    /\ chain = <<>>
    /\ mode = "run"
    /\ todo = {}

ConnectTip(b) ==
    /\ mode = "run"
    /\ Len(chain) < MaxHeight
    /\ CheckTxInputs(coins, Append(chain, b))
    /\ chain' = Append(chain, b)
    /\ coins' = ConnectBlock(coins, chain')
    /\ UNCHANGED <<db, best, heads, mode, todo>>

\* DisconnectTip gives up unless DisconnectBlock returns DISCONNECT_OK.
DisconnectTip ==
    /\ mode = "run"
    /\ chain # <<>>
    /\ Clean(coins, chain)
    /\ coins' = DisconnectBlock(coins, chain)
    /\ chain' = pprev(chain)
    /\ UNCHANGED <<db, best, heads, mode, todo>>

-----------------------------------------------------------------------------
(* CCoinsViewDB::BatchWrite(coins, chain)                                  *)

\* FlushStateToDisk(FLUSH_STATE_ALWAYS or the cache is large).
FlushStateToDisk ==
    /\ mode = "run"
    /\ mode' = "flush"
    /\ todo' = Outpoint
    /\ UNCHANGED <<db, best, heads, coins, chain>>

\* Mutant: forgets the head blocks of the flush before.
old_tipBest == best

\* The old tip, which is in the head blocks while blocks are replayed.
old_tip == IF best = Null /\ heads # <<>> THEN heads[2] ELSE best

Batch(S) == [o \in Outpoint |-> IF o \in S THEN coins[o] ELSE db[o]]

\* A batch is full.  The first one also erases the best block and marks the
\* transition.
WritePartial(S) ==
    /\ mode = "flush"
    /\ S # {}
    /\ db' = Batch(S)
    /\ best' = Null
    /\ heads' = <<chain, old_tip>>
    /\ todo' = todo \ S
    /\ UNCHANGED <<coins, chain, mode>>

\* Mutant: leaves the head blocks.
WriteFinalKeepsHeads ==
    /\ mode = "flush"
    /\ db' = Batch(todo)
    /\ best' = chain
    /\ todo' = {}
    /\ mode' = "run"
    /\ UNCHANGED <<coins, chain, heads>>

\* The last batch marks the database as consistent with the new block again.
WriteFinal ==
    /\ mode = "flush"
    /\ db' = Batch(todo)
    /\ best' = chain
    /\ heads' = <<>>
    /\ todo' = {}
    /\ mode' = "run"
    /\ UNCHANGED <<coins, chain>>

-----------------------------------------------------------------------------
(* Crash and recovery                                                      *)

\* Only the database is left.
Crash ==
    /\ mode # "down"
    /\ mode' = "down"
    /\ coins' = db
    /\ chain' = <<>>
    /\ todo' = {}
    /\ UNCHANGED <<db, best, heads>>

\* A null hash stands for no block at all: the first flush was interrupted.
BlockOf(hash) == IF hash = Null THEN <<>> ELSE hash

\* ReplayBlocks returns at once, and LoadChainTip takes the best block.
LoadChainTip ==
    /\ mode = "down"
    /\ heads = <<>>
    /\ mode' = "run"
    /\ chain' = BlockOf(best)
    /\ UNCHANGED <<db, best, heads, coins, todo>>

ReplayBlocks ==
    /\ mode = "down"
    /\ heads # <<>>
    /\ mode' = "replay"
    /\ chain' = BlockOf(heads[2])
    /\ UNCHANGED <<db, best, heads, coins, todo>>

\* Rollback along the old branch; an unclean disconnect will do.
RollbackBlock ==
    /\ mode = "replay"
    /\ ~IsAncestor(chain, heads[1])
    /\ coins' = DisconnectBlock(coins, chain)
    /\ chain' = pprev(chain)
    /\ UNCHANGED <<db, best, heads, mode, todo>>

\* Roll forward from the forking point to the new tip.
RollforwardBlock ==
    /\ mode = "replay"
    /\ IsAncestor(chain, heads[1]) /\ chain # heads[1]
    /\ chain' = SubSeq(heads[1], 1, Len(chain) + 1)
    /\ coins' = ConnectBlock(coins, chain')
    /\ UNCHANGED <<db, best, heads, mode, todo>>

\* Mutant: flushes before the new branch is rolled forward.
ReplayFlushAtFork ==
    /\ mode = "replay"
    /\ IsAncestor(chain, heads[1])
    /\ mode' = "flush"
    /\ todo' = Outpoint
    /\ UNCHANGED <<db, best, heads, coins, chain>>

\* cache.SetBestBlock(new tip) and cache.Flush().
ReplayFlush ==
    /\ mode = "replay"
    /\ chain = heads[1]
    /\ mode' = "flush"
    /\ todo' = Outpoint
    /\ UNCHANGED <<db, best, heads, coins, chain>>

Recover == LoadChainTip \/ ReplayBlocks \/ RollbackBlock \/ RollforwardBlock \/ ReplayFlush

Next ==
    \/ \E b \in Body : ConnectTip(b)
    \/ DisconnectTip \/ FlushStateToDisk
    \/ \E S \in SUBSET todo : WritePartial(S)
    \/ WriteFinal
    \/ Crash
    \/ Recover

Spec == Init /\ [][Next]_vars

\* A node that is down is started again, and a start-up or a flush that has
\* begun goes on unless the node crashes: both are sequential code.
FairSpec == Spec /\ WF_vars(Recover) /\ WF_vars(WriteFinal)

-----------------------------------------------------------------------------

\* What BatchWrite, ReplayBlocks and LoadChainTip rely on.  A database that has
\* a best block holds exactly the UTXO set of that block, whatever crashed
\* before, and one that has none and no head blocks is empty.  While the head
\* blocks are there, and then there is no best block, every coin is the old or
\* the new one, through any number of crashes during the replay's own flush.
DatabaseExact ==
    IF heads = <<>> THEN db = Utxo(BlockOf(best))
    ELSE /\ best = Null
         /\ \A o \in Outpoint : db[o] \in {Utxo(BlockOf(heads[2]))[o], Utxo(heads[1])[o]}

\* The node never works on, or writes, anything but the UTXO set of its block:
\* disconnecting restores the coins exactly, and replaying from a mixture
\* gives the coins of the new tip ("the result is still a version of the UTXO
\* set with the effects of that block undone", ReplayBlocks).
CoinsExact == mode \in {"run", "flush"} => coins = Utxo(chain)

\* DisconnectTip never has to give up: in normal operation DisconnectBlock
\* finds every output as the block made it and no input unspent, even when a
\* transaction was confirmed on both sides of a reorganisation.
DisconnectsCleanly == mode = "run" /\ chain # <<>> => Clean(coins, chain)

\* assert(old_heads[0] == hashBlock) in BatchWrite holds in every flush that
\* finds head blocks.
ReplaysToSameHead == mode = "flush" /\ heads # <<>> => heads[1] = chain

\* An interrupted flush is repaired in the end, if the node does not crash
\* again and again for ever (ReplayBlocks terminates and its flush completes).
EventuallyConsistent == <>[](mode # "down") => [](heads # <<>> => <>(heads = <<>>))
=============================================================================
