-------------------------- MODULE GovernanceChain ---------------------------
(***************************************************************************)
(* How validation.cpp drives the governance database.  ConnectBlock and    *)
(* DisconnectBlock call CGovernance for every governance output of a block *)
(* that spends from the master key.  The calls write to the database at    *)
(* once, whereas the chain they belong to is decided later (a block may    *)
(* still fail, or be only checked) and reaches the disk later still (the   *)
(* coins cache is flushed now and then).  The module follows ConnectTip,   *)
(* DisconnectTip, TestBlockValidity, VerifyDB, the flush of the coins      *)
(* database, crashes, ReplayBlocks and the two kinds of reindex, one       *)
(* governance call per step.                                               *)
(*                                                                         *)
(* A chain is the sequence of its blocks above genesis, so block h is the  *)
(* one of height h.  A block is the sequence of its transactions that      *)
(* spend from the master key.                                              *)
(***************************************************************************)
EXTENDS Governance, Sequences

CONSTANTS
    Block,     \* the blocks that may be mined, at any height
    MasterKey  \* the script of GovernanceMasterAddress()

ListOp == [kind : {"FREEZE", "UNFREEZE", "AUTHORIZATION", "UNAUTHORIZATION"}, script : Script]
CostOp == [kind : {"COST"}, type : CostType, amount : Amount]
FeeOp == [kind : {"FEE"}, script : Script]
GovernanceOutput == ListOp \cup CostOp \cup FeeOp
Tx == [coinstake : BOOLEAN, vout : Seq(GovernanceOutput)]

ASSUME BlockAssumption ==
    /\ IsFiniteSet(Block)
    /\ Block \subseteq Seq(Tx)
    /\ MasterKey \in Script \ {Dummy}

Chain == {c \in Seq(Block) : Len(c) <= MaxHeight}

\* The chain that ends in pindex->pprev, the block below the last one of c.
pprev(c) == SubSeq(c, 1, Len(c) - 1)

Connecting == {"connect", "check", "verifyUp"}
Disconnecting == {"disconnect", "verifyDown", "replay"}
Task == {"idle", "down", "flush"} \cup Connecting \cup Disconnecting

VARIABLES
    chain,   \* chainActive; while the node is down or replays, the chain it will load
    disk,    \* the chain of the coins database: DB_BEST_BLOCK, or the old tip of DB_HEAD_BLOCKS
    diskNew, \* the new tip of DB_HEAD_BLOCKS while a flush is unfinished, disk otherwise
    task,    \* what the thread that holds cs_main is doing
    blk,     \* the block ConnectBlock or DisconnectBlock is working on
    height,  \* its height
    tx,      \* the transaction it has come to
    out,     \* the outputs of that transaction it has dealt with
    \* History of the database, not state of the program:
    stray,   \* entries of the two lists that may differ from what chain says
    wrote,   \* blocks that wrote entries of a height, and were not disconnected since
    whole    \* blocks connected at a height with no entry of that height reverted since

chainVars == <<chain, disk, diskNew>>
workVars == <<task, blk, height, tx, out>>
ghostVars == <<stray, wrote, whole>>
vars == <<govVars, chainVars, workVars, ghostVars>>

-----------------------------------------------------------------------------
(* What a chain says of the governance database: the reference.            *)

\* The key of the database entry an output is about.
Key(op) ==
    CASE op.kind \in {"FREEZE", "UNFREEZE"} -> <<"freeze", op.script>>
      [] op.kind \in {"AUTHORIZATION", "UNAUTHORIZATION"} -> <<"authority", op.script>>
      [] op.kind = "COST" -> <<"cost", op.type>>
      [] op.kind = "FEE" -> <<"fee", "script">>

Lists(op) == op.kind \in {"FREEZE", "AUTHORIZATION"}

\* Mutant: no failsafe.
ObeyedAll(op) == TRUE

\* The failsafe: no output may act on the master key.
Obeyed(op) == op.kind = "COST" \/ op.script # MasterKey

\* The outputs of a block by their place, <<transaction, output>>, and the
\* order in which ConnectBlock comes to them.
Places(b) == UNION {{i} \X DOMAIN b[i].vout : i \in DOMAIN b}
OutputAt(b, p) == b[p[1]].vout[p[2]]
Before(p, q) == p[1] < q[1] \/ (p[1] = q[1] /\ p[2] < q[2])

\* The places of the outputs that DisconnectBlock obeys, and of those that
\* ConnectBlock obeys; of those about one key.
ObeyedPlaces(b) == {p \in Places(b) : Obeyed(OutputAt(b, p))}
ActivePlaces(b) == {p \in ObeyedPlaces(b) : ~b[p[1]].coinstake}
Named(b, key) == {p \in ObeyedPlaces(b) : Key(OutputAt(b, p)) = key}
About(b, key) == {p \in ActivePlaces(b) : Key(OutputAt(b, p)) = key}

\* The list entries a block names, and those that connecting it sets.
ListKey == {"freeze", "authority"} \X Script
KeysOf(b) == {Key(OutputAt(b, p)) : p \in ObeyedPlaces(b)} \cap ListKey
KeysSet(b) == {Key(OutputAt(b, p)) : p \in ActivePlaces(b)} \cap ListKey
KeysAbove(c, h) == UNION {KeysOf(c[i]) : i \in {j \in DOMAIN c : j > h}}

AtInit(key) == key[2] = Dummy \/ (key[1] = "authority" /\ key[2] \in InitAuthorized)

\* The last output of b about the key lists it.
BlockSays(b, key) ==
    \E p \in About(b, key) :
        Lists(OutputAt(b, p)) /\ \A q \in About(b, key) : ~Before(p, q)

\* Whether a script is on a list after the blocks of c: the last output about
\* it decides.
Says(c, key) ==
    LET naming == {h \in DOMAIN c : About(c[h], key) # {}}
    IN  IF naming = {} THEN AtInit(key)
        ELSE \E h \in naming : BlockSays(c[h], key) /\ \A g \in naming : g <= h

\* Reverting block b above c brings an entry back to what c says: each output
\* about it changed the list, and no transaction has two of them.
Reverts(c, b, key) ==
    LET named == Named(b, key)
    IN  /\ \A p \in named : ~b[p[1]].coinstake
        /\ \A p, q \in named : p[1] = q[1] => p = q
        /\ \A p \in named :
              (\A q \in named : ~Before(q, p)) => Lists(OutputAt(b, p)) # Says(c, key)
        /\ \A p, q \in named :
              Before(q, p) /\ (\A r \in named : ~(Before(q, r) /\ Before(r, p)))
                 => Lists(OutputAt(b, p)) # Lists(OutputAt(b, q))

\* The output of b about the key that counts for a cost or the fee script.
FirstAbout(b, key) ==
    OutputAt(b, CHOOSE p \in About(b, key) : \A q \in About(b, key) : ~Before(q, p))

\* The cost and the fee script a block sets: the first output counts.
CostOf(b, t) ==
    IF About(b, <<"cost", t>>) = {} \/ t \notin UpdatableCost THEN NoEntry
    ELSE FirstAbout(b, <<"cost", t>>).amount

FeeOf(b) ==
    IF About(b, <<"fee", "script">>) = {} THEN NoEntry
    ELSE FirstAbout(b, <<"fee", "script">>).script

-----------------------------------------------------------------------------
(* The calls ConnectBlock and DisconnectBlock make for one output.  Their  *)
(* results are ignored.                                                    *)

Call(op, h) ==
    \/ op.kind = "FREEZE" /\ FreezeScript(op.script)
    \/ op.kind = "UNFREEZE" /\ UnfreezeScript(op.script)
    \/ op.kind = "AUTHORIZATION" /\ AuthorizeScript(op.script)
    \/ op.kind = "UNAUTHORIZATION" /\ UnauthorizeScript(op.script)
    \/ op.kind = "COST" /\ UpdateCost(op.amount, op.type, h)
    \/ op.kind = "FEE" /\ UpdateFeeScript(op.script, h)

\* Mutant: reverts freezes and fees only.
RevertCallOfFew(op, h) ==
    \/ op.kind = "FREEZE" /\ RevertFreezeScript(op.script)
    \/ op.kind = "FEE" /\ RevertUpdateFeeScript(h)
    \/ op.kind \notin {"FREEZE", "FEE"} /\ UNCHANGED govVars

\* Mutant: takes the height of the previous block.
RevertCallAtPrev(op, h) ==
    \/ op.kind = "COST" /\ RevertUpdateCost(op.type, h - 1)
    \/ op.kind # "COST" /\ UNCHANGED govVars

RevertCall(op, h) ==
    \/ op.kind = "FREEZE" /\ RevertFreezeScript(op.script)
    \/ op.kind = "UNFREEZE" /\ RevertUnfreezeScript(op.script)
    \/ op.kind = "AUTHORIZATION" /\ RevertAuthorizeScript(op.script)
    \/ op.kind = "UNAUTHORIZATION" /\ RevertUnauthorizeScript(op.script)
    \/ op.kind = "COST" /\ RevertUpdateCost(op.type, h)
    \/ op.kind = "FEE" /\ RevertUpdateFeeScript(h)

-----------------------------------------------------------------------------
(* The loops of ConnectBlock and DisconnectBlock.                          *)

\* Start on block b of height h: transactions are connected in their order and
\* undone in reverse order, their outputs are always taken in their order.
Begin(what, b, h) ==
    /\ task' = what
    /\ blk' = b
    /\ height' = h
    /\ tx' = IF what \in Connecting THEN 1 ELSE Len(b)
    /\ out' = 0

Rest(what) ==
    /\ task' = what
    /\ blk' = <<>>
    /\ height' = 0
    /\ tx' = 0
    /\ out' = 0

BlockDone == tx \notin DOMAIN blk

NextTx ==
    /\ tx \in DOMAIN blk
    /\ out = Len(blk[tx].vout)
    /\ tx' = IF task \in Connecting THEN tx + 1 ELSE tx - 1
    /\ out' = 0
    /\ UNCHANGED <<govVars, chainVars, task, blk, height, ghostVars>>

ConnectOutput ==
    /\ task \in Connecting
    /\ tx \in DOMAIN blk
    /\ out < Len(blk[tx].vout)
    /\ LET op == blk[tx].vout[out + 1]
       IN  IF Obeyed(op) /\ ~blk[tx].coinstake THEN Call(op, height) ELSE UNCHANGED govVars
    /\ out' = out + 1
    /\ wrote' = [wrote EXCEPT ![height] = @ \cup {blk}]
    /\ UNCHANGED <<chainVars, task, blk, height, tx, stray, whole>>

DisconnectOutput ==
    /\ task \in Disconnecting
    /\ tx \in DOMAIN blk
    /\ out < Len(blk[tx].vout)
    /\ LET op == blk[tx].vout[out + 1]
       IN  IF Obeyed(op) THEN RevertCall(op, height) ELSE UNCHANGED govVars
    /\ out' = out + 1
    /\ whole' = [whole EXCEPT ![height] = {}]
    /\ UNCHANGED <<chainVars, task, blk, height, tx, stray, wrote>>

\* List entries that VerifyDB has undone and not redone yet.
UndoneKeys == IF task \in {"verifyDown", "verifyUp"} THEN KeysAbove(chain, height) ELSE {}

\* Either function may give up before it comes to the outputs of a transaction,
\* or after the last one: a failed check, bad undo data.  What it has written
\* stays.
Fail ==
    /\ task \in Connecting \cup Disconnecting
    /\ out = 0
    /\ Rest(IF task = "replay" THEN "down" ELSE "idle")
    /\ stray' = stray \cup KeysOf(blk) \cup UndoneKeys
    /\ UNCHANGED <<govVars, chainVars, wrote, whole>>

-----------------------------------------------------------------------------
(* Connecting and disconnecting the tip, and checking a block.             *)

ConnectTip(b) ==
    /\ task = "idle"
    /\ Len(chain) < MaxHeight
    /\ Begin("connect", b, Len(chain) + 1)
    /\ UNCHANGED <<govVars, chainVars, ghostVars>>

ConnectTipDone ==
    /\ task = "connect"
    /\ BlockDone
    /\ chain' = Append(chain, blk)
    /\ stray' = stray \ KeysSet(blk)
    /\ wrote' = [wrote EXCEPT ![height] = @ \cup {blk}]
    /\ whole' = [whole EXCEPT ![height] = @ \cup {blk}]
    /\ Rest("idle")
    /\ UNCHANGED <<govVars, disk, diskNew>>

DisconnectTip ==
    /\ task = "idle"
    /\ chain # <<>>
    /\ Begin("disconnect", chain[Len(chain)], Len(chain))
    /\ UNCHANGED <<govVars, chainVars, ghostVars>>

DisconnectTipDone ==
    /\ task = "disconnect"
    /\ BlockDone
    /\ chain' = pprev(chain)
    /\ stray' = stray \cup {key \in KeysOf(blk) : ~Reverts(pprev(chain), blk, key)}
    /\ wrote' = [wrote EXCEPT ![height] = @ \ {blk}]
    /\ Rest("idle")
    /\ UNCHANGED <<govVars, disk, diskNew, whole>>

\* The miner and getblocktemplate run ConnectBlock with fJustCheck, which
\* returns after the governance calls.
TestBlockValidity(b) ==
    /\ task = "idle"
    /\ Len(chain) < MaxHeight
    /\ Begin("check", b, Len(chain) + 1)
    /\ UNCHANGED <<govVars, chainVars, ghostVars>>

TestBlockValidityDone ==
    /\ task = "check"
    /\ BlockDone
    /\ stray' = stray \cup KeysOf(blk)
    /\ Rest("idle")
    /\ UNCHANGED <<govVars, chainVars, wrote, whole>>

-----------------------------------------------------------------------------
(* VerifyDB, at startup or for verifychain: level 3 disconnects some       *)
(* blocks from the tip downwards, level 4 connects them again.             *)

VerifyDB ==
    /\ task = "idle"
    /\ chain # <<>>
    /\ Begin("verifyDown", chain[Len(chain)], Len(chain))
    /\ UNCHANGED <<govVars, chainVars, ghostVars>>

VerifyNext ==
    /\ task = "verifyDown"
    /\ BlockDone
    /\ height > 1
    /\ Begin("verifyDown", chain[height - 1], height - 1)
    /\ UNCHANGED <<govVars, chainVars, ghostVars>>

\* Level 3, or a shutdown is requested.
VerifyStop ==
    /\ task = "verifyDown"
    /\ BlockDone
    /\ Rest("idle")
    /\ stray' = stray \cup KeysAbove(chain, height - 1)
    /\ UNCHANGED <<govVars, chainVars, wrote, whole>>

VerifyTurn ==
    /\ task = "verifyDown"
    /\ BlockDone
    /\ Begin("verifyUp", chain[height], height)
    /\ UNCHANGED <<govVars, chainVars, ghostVars>>

VerifyReconnected ==
    /\ task = "verifyUp"
    /\ BlockDone
    /\ IF height < Len(chain)
         THEN Begin("verifyUp", chain[height + 1], height + 1)
         ELSE Rest("idle")
    /\ wrote' = [wrote EXCEPT ![height] = @ \cup {blk}]
    /\ whole' = [whole EXCEPT ![height] = @ \cup {blk}]
    /\ stray' = (stray \cup KeysOf(blk)) \ KeysSet(blk)
    /\ UNCHANGED <<govVars, chainVars>>

-----------------------------------------------------------------------------
(* The coins database and restarts.                                        *)

\* The height of LastCommonAncestor.
Common(c, d, h) == \A i \in 1 .. h : i \in DOMAIN d /\ c[i] = d[i]
Fork(c, d) ==
    CHOOSE h \in 0 .. Len(c) :
        Common(c, d, h) /\ \A g \in 0 .. Len(c) : Common(c, d, g) => g <= h

\* CCoinsViewDB::BatchWrite replaces DB_BEST_BLOCK by DB_HEAD_BLOCKS in its
\* first batch and puts it back in its last one.
FlushBegin ==
    /\ task = "idle"
    /\ disk # chain
    /\ diskNew' = chain
    /\ Rest("flush")
    /\ UNCHANGED <<govVars, chain, disk, ghostVars>>

FlushEnd ==
    /\ task = "flush"
    /\ disk' = diskNew
    /\ Rest("idle")
    /\ UNCHANGED <<govVars, chain, diskNew, ghostVars>>

\* The chain in memory is lost, the governance database is not.
Crash ==
    /\ task # "down"
    /\ Rest("down")
    /\ chain' = diskNew
    /\ stray' = stray \cup KeysOf(blk) \cup UndoneKeys
                   \cup LET d == Fork(disk, chain)
                        IN  KeysAbove(disk, d) \cup
                            (IF disk = diskNew THEN KeysAbove(chain, d) ELSE {})
    /\ UNCHANGED <<govVars, disk, diskNew, wrote, whole>>

\* AppInitMain: ReplayBlocks rolls the old branch of an unfinished flush back
\* with DisconnectBlock, and the new branch forward without governance.
Replayed(h) ==
    IF h > Fork(disk, diskNew)
      THEN /\ Begin("replay", disk[h], h)
           /\ UNCHANGED disk
      ELSE /\ Rest("idle")
           /\ disk' = diskNew

Restart ==
    /\ task = "down"
    /\ Replayed(Len(disk))
    /\ UNCHANGED <<govVars, chain, diskNew, ghostVars>>

ReplayNext ==
    /\ task = "replay"
    /\ BlockDone
    /\ Replayed(height - 1)
    /\ UNCHANGED <<govVars, chain, diskNew, ghostVars>>

\* -reindex wipes both databases, -reindex-chainstate the coins database only.
EmptyCoinsDB ==
    /\ chain' = <<>>
    /\ disk' = <<>>
    /\ diskNew' = <<>>
    /\ Rest("idle")

Reindex ==
    /\ task = "down"
    /\ EmptyCoinsDB
    /\ Wipe
    /\ stray' = {}
    /\ wrote' = [h \in Height |-> {}]
    /\ whole' = [h \in Height |-> {}]

ReindexChainState ==
    /\ task = "down"
    /\ EmptyCoinsDB
    /\ stray' = stray \cup KeysAbove(chain, 0)
    /\ UNCHANGED <<govVars, wrote, whole>>

-----------------------------------------------------------------------------
Init ==
    /\ GovInit
    /\ chain = <<>>
    /\ disk = <<>>
    /\ diskNew = <<>>
    /\ task = "idle"
    /\ blk = <<>>
    /\ height = 0
    /\ tx = 0
    /\ out = 0
    /\ stray = {}
    /\ wrote = [h \in Height |-> {}]
    /\ whole = [h \in Height |-> {}]

Next ==
    \/ \E b \in Block : ConnectTip(b) \/ TestBlockValidity(b)
    \/ ConnectOutput \/ DisconnectOutput \/ NextTx \/ Fail
    \/ ConnectTipDone \/ TestBlockValidityDone
    \/ DisconnectTip \/ DisconnectTipDone
    \/ VerifyDB \/ VerifyNext \/ VerifyStop \/ VerifyTurn \/ VerifyReconnected
    \/ FlushBegin \/ FlushEnd
    \/ Crash \/ Restart \/ ReplayNext \/ Reindex \/ ReindexChainState

Spec == Init /\ [][Next]_vars

-----------------------------------------------------------------------------
(* Properties.                                                             *)

WorkTypeOK ==
    /\ chain \in Chain /\ disk \in Chain /\ diskNew \in Chain
    /\ task \in Task
    /\ blk \in Block \cup {<<>>}
    /\ tx \in Int
    /\ out \in Nat
    /\ task \in {"connect", "check"} => height = Len(chain) + 1 /\ Len(chain) < MaxHeight
    /\ task = "disconnect" => height = Len(chain) /\ chain # <<>>
    /\ task \in {"verifyDown", "verifyUp"} => height \in 1 .. Len(chain)
    /\ task = "replay" => height \in 1 .. Len(disk)
    /\ task \in Connecting \cup Disconnecting => blk \in Block

GhostTypeOK ==
    /\ stray \subseteq ListKey
    /\ wrote \in [Height -> SUBSET Block]
    /\ whole \in [Height -> SUBSET Block]

\* Type invariant, with the place of the block being worked on in its chain.
TypeOK == GovTypeOK /\ WorkTypeOK /\ GhostTypeOK

\* The cost and fee entries of a height are exactly the ones the block of the
\* active chain at that height sets, unless another block has left entries
\* there (a failed or a merely checked block, a block lost in a crash) or the
\* entries were reverted without the block being disconnected (VerifyDB at
\* level 3, a rollback in ReplayBlocks).  A height above the tip has entries
\* only where a block has left them.  So a crash, a failure or a check harms
\* no other height, and connecting the same block again repairs its own.
EntriesFollowChain ==
    task = "idle" =>
      \A h \in Height \ {0} :
        /\ h > Len(chain) /\ wrote[h] = {} =>
              /\ \A t \in CostType : cost[t][h] = NoEntry
              /\ fee[h] = NoEntry
        /\ h <= Len(chain) /\ wrote[h] \subseteq {chain[h]} /\ chain[h] \in whole[h] =>
              /\ \A t \in CostType : cost[t][h] = CostOf(chain[h], t)
              /\ fee[h] = FeeOf(chain[h])

\* A script is on the freeze list, or on the list of stakers, exactly when the
\* last output of the active chain about it says so, through connects,
\* disconnects, reorganizations and level 4 runs of VerifyDB, unless a
\* disturbance touched that very script since the last connected block that
\* names it.
ListsFollowChain ==
    task = "idle" =>
      \A s \in Script :
        /\ <<"freeze", s>> \notin stray => (s \in Frozen <=> Says(chain, <<"freeze", s>>))
        /\ <<"authority", s>> \notin stray => (CanStake(s) <=> Says(chain, <<"authority", s>>))

\* The failsafe holds in both directions: neither a freeze of the master key
\* nor the revert of an unfreeze of it ever stops the master key from
\* spending, which would end governance for good.
MasterKeyCanSend == CanSend(MasterKey)

\* What the comments of RevertFreezeScript and RevertAuthorizeScript say: a
\* revert takes a script off the list only if the chain put it there once.
TimesListed(key) ==
    Cardinality({hp \in UNION {{h} \X About(chain[h], key) : h \in DOMAIN chain} :
                    Lists(OutputAt(chain[hp[1]], hp[2]))})

RevertOnlyIfListedOnce ==
    [][task = "disconnect" =>
          \A s \in Script :
             s \in Frozen /\ s \notin Frozen' => TimesListed(<<"freeze", s>>) = 1]_vars

\* What the comment on level 3 of VerifyDB says: it disconnects in memory only.
VerifyInMemoryOnly == [][task = "verifyDown" => UNCHANGED govVars]_vars

\* What the comment in ConnectTip says: the block is applied atomically.  A
\* ConnectTip that fails leaves no cost at the height of its block.
ConnectTipAtomic ==
    [][task = "connect" /\ task' = "idle" /\ chain' = chain =>
          \A t \in CostType : cost[t][height] = NoEntry]_vars

=============================================================================
