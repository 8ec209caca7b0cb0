----------------------- MODULE GovernanceChainProofs ------------------------
(***************************************************************************)
(* Proofs about GovernanceChain: the types of the database and of the work *)
(* of validation, that all validation does to the database is a behaviour  *)
(* of Governance, the failsafe of the master key, and which outputs of a   *)
(* block the loops of validation have passed.                              *)
(***************************************************************************)
EXTENDS GovernanceChain, WellFoundedInduction, TLAPS

-----------------------------------------------------------------------------
(* The database: its types under any sequence of calls.                    *)

\* Every reachable database is well typed: the counters stay unsigned ints and
\* every table stays total, whatever calls are made in whatever order.
THEOREM GovTypeCorrect == GovSpec => []GovTypeOK
\* Inc and Dec stay in the range of an unsigned int.
<1>CounterType.
    ASSUME NEW n \in UInt
    PROVE  Inc(n) \in UInt /\ Dec(n) \in UInt
  BY NumberAssumption DEF Inc, Dec, UInt
<1>GovTypeInit. GovInit => GovTypeOK
  <2>. 0 \in UInt
    BY NumberAssumption DEF UInt
  <2>. QED
    BY ScriptAssumption, CostAssumption, NumberAssumption
       DEF GovInit, GovTypeOK, FreezeAtInit, AuthorityAtInit, CostAtInit, FeeAtInit,
           Listing, CostType, Height
\* What Read leaves in `number`, incremented or decremented, is an unsigned int.
<1>ReadNumberType.
    ASSUME nAuthorized \in UInt \cup {NoEntry}, NEW n \in ReadNumber(nAuthorized)
    PROVE  n \in UInt /\ Inc(n) \in UInt /\ Dec(n) \in UInt
  <2>. USE <1>ReadNumberType
  <2>1. n \in UInt
    BY DEF ReadNumber
  <2>. QED
    BY <2>1, <1>CounterType
<1>FreezeListType.
    ASSUME GovTypeOK, NEW s \in Script,
           \/ FreezeScript(s)
           \/ UnfreezeScript(s)
           \/ RevertFreezeScript(s)
           \/ RevertUnfreezeScript(s)
    PROVE  GovTypeOK'
  <2>. USE <1>FreezeListType
  <2>1. Inc(nFrozen) \in UInt /\ Dec(nFrozen) \in UInt
    BY <1>CounterType DEF GovTypeOK
  <2>. QED
    BY <2>1 DEF GovTypeOK, Listing, FreezeScript, UnfreezeScript, RevertFreezeScript,
                RevertUnfreezeScript, authorityVars, govVars
<1>AuthorityListType.
    ASSUME GovTypeOK, NEW s \in Script,
           \/ AuthorizeScript(s)
           \/ UnauthorizeScript(s)
           \/ RevertAuthorizeScript(s)
           \/ RevertUnauthorizeScript(s)
    PROVE  GovTypeOK'
  <2>. USE <1>AuthorityListType
  <2>1. \A n \in ReadNumber(nAuthorized) : Inc(n) \in UInt /\ Dec(n) \in UInt
    BY <1>ReadNumberType DEF GovTypeOK
  <2>. QED
    BY <2>1 DEF GovTypeOK, Listing, AuthorizeScript, UnauthorizeScript, RevertAuthorizeScript,
                RevertUnauthorizeScript, freezeVars, govVars
<1>HeightTableType.
    ASSUME GovTypeOK, NEW h \in Height,
           \/ \E t \in CostType, a \in Amount : UpdateCost(a, t, h)
           \/ \E t \in CostType : RevertUpdateCost(t, h)
           \/ \E s \in Script : UpdateFeeScript(s, h)
           \/ RevertUpdateFeeScript(h)
    PROVE  GovTypeOK'
  BY <1>HeightTableType DEF GovTypeOK, UpdateCost, RevertUpdateCost, UpdateFeeScript, RevertUpdateFeeScript,
           freezeVars, authorityVars
<1>WipeType. ASSUME Wipe PROVE GovTypeOK'
  <2>. USE <1>WipeType
  <2>. 0 \in UInt
    BY NumberAssumption DEF UInt
  <2>. QED
    BY ScriptAssumption, CostAssumption, NumberAssumption
       DEF Wipe, GovTypeOK, FreezeAtInit, AuthorityAtInit, CostAtInit, FeeAtInit,
           Listing, CostType, Height
<1>GovTypeNext. ASSUME GovTypeOK, [GovNext]_govVars PROVE GovTypeOK'
  <2>. USE <1>GovTypeNext
  <2>1. CASE Wipe
    BY <2>1, <1>WipeType
  <2>2. CASE UNCHANGED govVars
    BY <2>2 DEF GovTypeOK, govVars
  <2>3. CASE GovNext /\ ~Wipe
    BY <2>3, <1>FreezeListType, <1>AuthorityListType, <1>HeightTableType DEF GovNext
  <2>. QED
    BY <2>1, <2>2, <2>3
<1>1. GovTypeOK /\ [GovNext]_govVars => GovTypeOK'
  BY <1>GovTypeNext
<1>. QED
  BY <1>GovTypeInit, <1>1, PTL DEF GovSpec

-----------------------------------------------------------------------------
(* Chains and blocks.                                                      *)

LEMMA MaxHeightNat == MaxHeight \in Nat
  BY NumberAssumption

LEMMA EmptyChain == <<>> \in Chain
  BY MaxHeightNat DEF Chain

LEMMA AppendChain ==
    ASSUME NEW c \in Chain, NEW b \in Block, Len(c) < MaxHeight
    PROVE  Append(c, b) \in Chain
  BY MaxHeightNat DEF Chain

LEMMA PrevChain ==
    ASSUME NEW c \in Chain, c # <<>>
    PROVE  pprev(c) \in Chain /\ c[Len(c)] \in Block /\ Len(c) \in 1 .. MaxHeight
  BY MaxHeightNat DEF Chain, pprev

LEMMA ChainBlock ==
    ASSUME NEW c \in Chain, NEW h \in 1 .. Len(c)
    PROVE  c[h] \in Block /\ h \in Height \ {0}
  BY MaxHeightNat DEF Chain, Height

\* Every set of numbers that is not empty has a least one.
LEMMA Least ==
    ASSUME NEW T \in SUBSET Nat, T # {}
    PROVE  \E x \in T : \A y \in T : x <= y
<1>1. PICK x \in T : \A y \in T : <<y, x>> \notin OpToRel(<, Nat)
  BY WFMin, NatLessThanWellFounded, Zenon
<1>2. \A y \in T : y \in Nat /\ x \in Nat
  OBVIOUS
<1>3. \A y \in T : ~(y < x)
  BY <1>1, <1>2, Zenon DEF OpToRel
<1>4. \A y \in T : x <= y
  BY <1>2, <1>3
<1>. QED
  BY <1>4

\* The common part of two chains ends at their fork.
LEMMA ForkCommon ==
    ASSUME NEW c \in Chain, NEW d \in Chain
    PROVE  /\ Fork(c, d) \in 0 .. Len(c)
           /\ \A i \in 1 .. Fork(c, d) : i \in DOMAIN d /\ c[i] = d[i]
           /\ c = d => Fork(c, d) = Len(c)
<1>. DEFINE away == {Len(c) - h : h \in {g \in 0 .. Len(c) : Common(c, d, g)}}
<1>1. Len(c) \in Nat /\ DOMAIN c = 1 .. Len(c) /\ Len(d) \in Nat /\ DOMAIN d = 1 .. Len(d)
  BY DEF Chain
<1>2. away \in SUBSET Nat
  BY <1>1
<1>3. Common(c, d, 0) /\ 0 \in 0 .. Len(c)
  BY <1>1 DEF Common
<1>4. away # {}
  BY <1>3
<1>5. PICK n \in away : \A m \in away : n <= m
  <2>. HIDE DEF away
  <2>. QED
    BY <1>2, <1>4, Least, Zenon
<1>6. PICK h \in 0 .. Len(c) : n = Len(c) - h /\ Common(c, d, h)
  BY <1>5
<1>7. \A g \in 0 .. Len(c) : Common(c, d, g) => g <= h
  <2>. SUFFICES ASSUME NEW g \in 0 .. Len(c), Common(c, d, g) PROVE g <= h
    OBVIOUS
  <2>1. Len(c) - g \in away
    OBVIOUS
  <2>2. Len(c) - h <= Len(c) - g
    BY <1>5, <1>6, <2>1
  <2>. QED
    BY <1>1, <2>2
<1>8. /\ Fork(c, d) \in 0 .. Len(c) /\ Common(c, d, Fork(c, d))
      /\ \A g \in 0 .. Len(c) : Common(c, d, g) => g <= Fork(c, d)
  BY <1>6, <1>7 DEF Fork
<1>9. c = d => Common(c, d, Len(c)) /\ Len(c) \in 0 .. Len(c)
  BY <1>1 DEF Common
<1>10. c = d => Fork(c, d) = Len(c)
  BY <1>1, <1>8, <1>9
<1>11. \A i \in 1 .. Fork(c, d) : i \in DOMAIN d /\ c[i] = d[i]
  BY <1>8 DEF Common
<1>. QED
  BY <1>8, <1>10, <1>11

LEMMA ForkNat == ASSUME NEW c \in Chain, NEW d \in Chain PROVE Fork(c, d) \in Nat
<1>1. Len(c) \in Nat
  BY DEF Chain
<1>. QED
  BY <1>1, ForkCommon

\* A block that is being worked on, and its outputs.
LEMMA BlockOutput ==
    ASSUME WorkTypeOK, blk \in Block, tx \in DOMAIN blk
    PROVE  /\ blk[tx] \in Tx
           /\ Len(blk[tx].vout) \in Nat
           /\ out < Len(blk[tx].vout) => blk[tx].vout[out + 1] \in GovernanceOutput
<1>1. blk \in Seq(Tx)
  BY BlockAssumption
<1>2. blk[tx] \in Tx
  BY <1>1
<1>3. blk[tx].vout \in Seq(GovernanceOutput)
  BY <1>2 DEF Tx
<1>4. out \in Nat
  BY DEF WorkTypeOK
<1>. QED
  BY <1>2, <1>3, <1>4

\* The height of the block being worked on is one of a block above genesis.
LEMMA WorkHeight ==
    ASSUME WorkTypeOK, task \in Connecting \cup Disconnecting
    PROVE  height \in Height \ {0} /\ blk \in Block
<1>1. Len(chain) \in Nat /\ Len(chain) <= MaxHeight /\ Len(disk) \in Nat /\ Len(disk) <= MaxHeight
  BY DEF WorkTypeOK, Chain
<1>2. chain # <<>> => Len(chain) > 0
  BY DEF WorkTypeOK, Chain
<1>. QED
  BY <1>1, <1>2, MaxHeightNat DEF WorkTypeOK, Connecting, Disconnecting, Height

-----------------------------------------------------------------------------
(* The work in hand.                                                       *)

LEMMA WorkTypeCorrect == Spec => []WorkTypeOK
<1>RestType.
    ASSUME NEW what \in {"idle", "down", "flush"}, Rest(what),
           chain' \in Chain, disk' \in Chain, diskNew' \in Chain
    PROVE  WorkTypeOK'
  BY <1>RestType DEF Rest, WorkTypeOK, Task, Connecting, Disconnecting
\* Starting on a block of the right height.
<1>BeginType.
    ASSUME NEW what \in Connecting \cup Disconnecting, NEW b \in Block, NEW h, Begin(what, b, h),
           chain' \in Chain, disk' \in Chain, diskNew' \in Chain,
           what \in {"connect", "check"} => h = Len(chain') + 1 /\ Len(chain') < MaxHeight,
           what = "disconnect" => h = Len(chain') /\ chain' # <<>>,
           what \in {"verifyDown", "verifyUp"} => h \in 1 .. Len(chain'),
           what = "replay" => h \in 1 .. Len(disk')
    PROVE  WorkTypeOK'
  <2>. USE <1>BeginType
  <2>1. Len(b) \in Nat
    BY BlockAssumption
  <2>. QED
    BY <2>1 DEF Begin, WorkTypeOK, Task, Connecting, Disconnecting
\* Going on with the same block.
<1>GoOnType.
    ASSUME WorkTypeOK, UNCHANGED <<chainVars, task, blk, height>>, tx' \in Int, out' \in Nat
    PROVE  WorkTypeOK'
  BY <1>GoOnType DEF WorkTypeOK, chainVars
<1>WorkTypeInit. Init => WorkTypeOK
  BY EmptyChain DEF Init, WorkTypeOK, Task, Connecting, Disconnecting
\* ReplayBlocks, from height h downwards.
<1>ReplayedType.
    ASSUME WorkTypeOK, NEW h \in 0 .. Len(disk), Replayed(h), UNCHANGED <<chain, diskNew>>
    PROVE  WorkTypeOK'
  <2>. USE <1>ReplayedType
  <2>1. Fork(disk, diskNew) \in Nat
    BY ForkNat DEF WorkTypeOK
  <2>2. CASE h > Fork(disk, diskNew)
    <3>1. h \in 1 .. Len(disk)
      BY <2>1, <2>2 DEF WorkTypeOK, Chain
    <3>2. disk[h] \in Block
      BY <3>1, ChainBlock DEF WorkTypeOK
    <3>3. Begin("replay", disk[h], h) /\ disk' = disk
      BY <2>2 DEF Replayed
    <3>. QED
      BY <3>1, <3>2, <3>3, <1>BeginType DEF WorkTypeOK, Connecting, Disconnecting
  <2>3. CASE ~(h > Fork(disk, diskNew))
    <3>1. Rest("idle") /\ disk' = diskNew
      BY <2>3 DEF Replayed
    <3>. QED
      BY <3>1, <1>RestType DEF WorkTypeOK
  <2>. QED
    BY <2>2, <2>3
<1>WorkTypeNext.
    ASSUME WorkTypeOK, [Next]_vars
    PROVE  WorkTypeOK'
  <2>. USE <1>WorkTypeNext
  <2>. USE DEF WorkTypeOK
  <2>1. ASSUME NEW b \in Block, ConnectTip(b) \/ TestBlockValidity(b) PROVE WorkTypeOK'
    <3>1. Len(chain) < MaxHeight /\ UNCHANGED chainVars
      BY <2>1 DEF ConnectTip, TestBlockValidity
    <3>2. Begin("connect", b, Len(chain) + 1) \/ Begin("check", b, Len(chain) + 1)
      BY <2>1 DEF ConnectTip, TestBlockValidity
    <3>. QED
      BY <3>1, <3>2, <1>BeginType DEF chainVars, Connecting, Disconnecting
  <2>2. CASE ConnectOutput \/ DisconnectOutput
    BY <2>2, <1>GoOnType DEF ConnectOutput, DisconnectOutput
  <2>3. CASE NextTx
    BY <2>3, <1>GoOnType DEF NextTx
  <2>4. CASE Fail
    BY <2>4, <1>RestType DEF Fail, chainVars
  <2>5. CASE ConnectTipDone
    <3>1. blk \in Block /\ Len(chain) < MaxHeight
      BY <2>5 DEF ConnectTipDone, Connecting
    <3>2. Append(chain, blk) \in Chain
      BY <3>1, AppendChain
    <3>. QED
      BY <2>5, <3>2, <1>RestType DEF ConnectTipDone
  <2>6. CASE TestBlockValidityDone
    BY <2>6, <1>RestType DEF TestBlockValidityDone, chainVars
  <2>7. CASE DisconnectTip
    <3>1. chain[Len(chain)] \in Block
      BY <2>7, PrevChain DEF DisconnectTip
    <3>2. Begin("disconnect", chain[Len(chain)], Len(chain)) /\ UNCHANGED chainVars /\ chain # <<>>
      BY <2>7 DEF DisconnectTip
    <3>. QED
      BY <3>1, <3>2, <1>BeginType DEF chainVars, Connecting, Disconnecting
  <2>8. CASE DisconnectTipDone
    <3>1. pprev(chain) \in Chain
      BY <2>8, PrevChain DEF DisconnectTipDone
    <3>. QED
      BY <2>8, <3>1, <1>RestType DEF DisconnectTipDone
  <2>9. CASE VerifyDB
    <3>1. chain[Len(chain)] \in Block /\ Len(chain) \in 1 .. MaxHeight
      BY <2>9, PrevChain DEF VerifyDB
    <3>2. Begin("verifyDown", chain[Len(chain)], Len(chain)) /\ UNCHANGED chainVars
      BY <2>9 DEF VerifyDB
    <3>3. Len(chain) \in 1 .. Len(chain)
      BY <3>1
    <3>. QED
      BY <3>1, <3>2, <3>3, <1>BeginType DEF chainVars, Connecting, Disconnecting
  <2>10. CASE VerifyNext
    <3>1. height - 1 \in 1 .. Len(chain)
      BY <2>10 DEF VerifyNext, Chain
    <3>2. chain[height - 1] \in Block
      BY <3>1, ChainBlock
    <3>3. Begin("verifyDown", chain[height - 1], height - 1) /\ UNCHANGED chainVars
      BY <2>10 DEF VerifyNext
    <3>. QED
      BY <3>1, <3>2, <3>3, <1>BeginType DEF chainVars, Connecting, Disconnecting
  <2>11. CASE VerifyStop
    BY <2>11, <1>RestType DEF VerifyStop, chainVars
  <2>12. CASE VerifyTurn
    <3>1. height \in 1 .. Len(chain) /\ chain[height] \in Block
      BY <2>12, ChainBlock DEF VerifyTurn
    <3>2. Begin("verifyUp", chain[height], height) /\ UNCHANGED chainVars
      BY <2>12 DEF VerifyTurn
    <3>. QED
      BY <3>1, <3>2, <1>BeginType DEF chainVars, Connecting, Disconnecting
  <2>13. CASE VerifyReconnected
    <3>1. CASE height < Len(chain)
      <4>1. height + 1 \in 1 .. Len(chain)
        BY <2>13, <3>1 DEF VerifyReconnected, Chain
      <4>2. chain[height + 1] \in Block
        BY <4>1, ChainBlock
      <4>3. Begin("verifyUp", chain[height + 1], height + 1) /\ UNCHANGED chainVars
        BY <2>13, <3>1 DEF VerifyReconnected
      <4>. QED
        BY <4>1, <4>2, <4>3, <1>BeginType DEF chainVars, Connecting, Disconnecting
    <3>2. CASE ~(height < Len(chain))
      BY <2>13, <3>2, <1>RestType DEF VerifyReconnected, chainVars
    <3>. QED
      BY <3>1, <3>2
  <2>14. CASE FlushBegin \/ FlushEnd
    BY <2>14, <1>RestType DEF FlushBegin, FlushEnd
  <2>15. CASE Crash
    BY <2>15, <1>RestType DEF Crash
  <2>16. CASE Restart
    <3>1. Len(disk) \in 0 .. Len(disk)
      BY DEF Chain
    <3>. QED
      BY <2>16, <3>1, <1>ReplayedType DEF Restart
  <2>17. CASE ReplayNext
    <3>1. height - 1 \in 0 .. Len(disk)
      BY <2>17 DEF ReplayNext, Chain
    <3>. QED
      BY <2>17, <3>1, <1>ReplayedType DEF ReplayNext
  <2>18. CASE Reindex \/ ReindexChainState
    BY <2>18, <1>RestType, EmptyChain DEF Reindex, ReindexChainState, EmptyCoinsDB
  <2>19. CASE UNCHANGED vars
    BY <2>19 DEF vars, chainVars, workVars
  <2>. QED
    BY <2>1, <2>2, <2>3, <2>4, <2>5, <2>6, <2>7, <2>8, <2>9, <2>10, <2>11, <2>12, <2>13,
       <2>14, <2>15, <2>16, <2>17, <2>18, <2>19, ZenonT(30) DEF Next
<1>1. WorkTypeOK /\ [Next]_vars => WorkTypeOK'
  BY <1>WorkTypeNext
<1>. QED
  BY <1>WorkTypeInit, <1>1, PTL DEF Spec

-----------------------------------------------------------------------------
(* Refinement: validation only ever makes calls of CGovernance.            *)

\* What a step does to the database: nothing, a wipe, or the call or the
\* revert of one output that the failsafe lets through.
LEMMA StepCases ==
    ASSUME WorkTypeOK, [Next]_vars
    PROVE  \/ UNCHANGED govVars
           \/ Wipe
           \/ \E op \in GovernanceOutput, h \in Height \ {0} :
                 Obeyed(op) /\ (Call(op, h) \/ RevertCall(op, h))
<1>1. CASE ConnectOutput
  <2>1. task \in Connecting \cup Disconnecting /\ tx \in DOMAIN blk /\ out < Len(blk[tx].vout)
    BY <1>1 DEF ConnectOutput
  <2>2. height \in Height \ {0} /\ blk[tx].vout[out + 1] \in GovernanceOutput
    BY <2>1, WorkHeight, BlockOutput
  <2>. QED
    BY <1>1, <2>2 DEF ConnectOutput
<1>2. CASE DisconnectOutput
  <2>1. task \in Connecting \cup Disconnecting /\ tx \in DOMAIN blk /\ out < Len(blk[tx].vout)
    BY <1>2 DEF DisconnectOutput
  <2>2. height \in Height \ {0} /\ blk[tx].vout[out + 1] \in GovernanceOutput
    BY <2>1, WorkHeight, BlockOutput
  <2>. QED
    BY <1>2, <2>2 DEF DisconnectOutput
<1>3. CASE Reindex
  BY <1>3 DEF Reindex
<1>4. CASE UNCHANGED govVars
  BY <1>4
<1>5. ASSUME NEW b \in Block, ConnectTip(b) \/ TestBlockValidity(b) PROVE UNCHANGED govVars
  BY <1>5 DEF ConnectTip, TestBlockValidity
<1>6. CASE NextTx \/ Fail \/ ConnectTipDone \/ TestBlockValidityDone
             \/ DisconnectTip \/ DisconnectTipDone
  BY <1>6 DEF NextTx, Fail, ConnectTipDone, TestBlockValidityDone, DisconnectTip,
              DisconnectTipDone
<1>7. CASE VerifyDB \/ VerifyNext \/ VerifyStop \/ VerifyTurn \/ VerifyReconnected
  BY <1>7 DEF VerifyDB, VerifyNext, VerifyStop, VerifyTurn, VerifyReconnected
<1>8. CASE FlushBegin \/ FlushEnd \/ Crash \/ Restart \/ ReplayNext \/ ReindexChainState
  BY <1>8 DEF FlushBegin, FlushEnd, Crash, Restart, ReplayNext, ReindexChainState
<1>9. CASE UNCHANGED vars
  BY <1>9 DEF vars
<1>. QED
  BY <1>1, <1>2, <1>3, <1>4, <1>5, <1>6, <1>7, <1>8, <1>9 DEF Next

\* Whatever ConnectTip, DisconnectTip, TestBlockValidity, VerifyDB,
\* ReplayBlocks, crashes and reindexes do to the governance database is a
\* behaviour of CGovernance as Governance specifies it.
THEOREM ImplementsGovernance == Spec => GovSpec
<1>CallIsGovNext.
    ASSUME NEW op \in GovernanceOutput, NEW h \in Height \ {0}, Call(op, h)
    PROVE  GovNext
  <2>. USE <1>CallIsGovNext
  <2>1. CASE op \in ListOp
    <3>1. op.script \in Script /\ op.kind \notin {"COST", "FEE"}
      BY <2>1 DEF ListOp
    <3>. QED
      BY <3>1 DEF Call, GovNext
  <2>2. CASE op \in CostOp
    <3>1. op.kind = "COST" /\ op.type \in CostType /\ op.amount \in Amount
      BY <2>2 DEF CostOp
    <3>2. UpdateCost(op.amount, op.type, h)
      BY <3>1 DEF Call
    <3>. QED
      BY <3>1, <3>2 DEF GovNext
  <2>3. CASE op \in FeeOp
    <3>1. op.kind = "FEE" /\ op.script \in Script
      BY <2>3 DEF FeeOp
    <3>2. UpdateFeeScript(op.script, h)
      BY <3>1 DEF Call
    <3>. QED
      BY <3>1, <3>2 DEF GovNext
  <2>. QED
    BY <2>1, <2>2, <2>3 DEF GovernanceOutput
<1>RevertCallIsGovNext.
    ASSUME NEW op \in GovernanceOutput, NEW h \in Height \ {0}, RevertCall(op, h)
    PROVE  GovNext
  <2>. USE <1>RevertCallIsGovNext
  <2>1. CASE op \in ListOp
    <3>1. op.script \in Script /\ op.kind \notin {"COST", "FEE"}
      BY <2>1 DEF ListOp
    <3>. QED
      BY <3>1 DEF RevertCall, GovNext
  <2>2. CASE op \in CostOp
    <3>1. op.kind = "COST" /\ op.type \in CostType
      BY <2>2 DEF CostOp
    <3>2. RevertUpdateCost(op.type, h)
      BY <3>1 DEF RevertCall
    <3>. QED
      BY <3>1, <3>2 DEF GovNext
  <2>3. CASE op \in FeeOp
    <3>1. op.kind = "FEE"
      BY <2>3 DEF FeeOp
    <3>2. RevertUpdateFeeScript(h)
      BY <3>1 DEF RevertCall
    <3>. QED
      BY <3>2 DEF GovNext
  <2>. QED
    BY <2>1, <2>2, <2>3 DEF GovernanceOutput
<1>1. Init => GovInit
  BY DEF Init
<1>2. WorkTypeOK /\ [Next]_vars => [GovNext]_govVars
  <2>. SUFFICES ASSUME WorkTypeOK, [Next]_vars PROVE [GovNext]_govVars
    OBVIOUS
  <2>1. Wipe => GovNext
    BY DEF GovNext
  <2>. QED
    BY <2>1, StepCases, <1>CallIsGovNext, <1>RevertCallIsGovNext
<1>. QED
  BY <1>1, <1>2, WorkTypeCorrect, PTL DEF Spec, GovSpec

-----------------------------------------------------------------------------
(* The failsafe of the master key.                                         *)

\* The freeze list never holds an entry for the master key.
MasterKeyUnknown == freeze[MasterKey] = "unknown"

\* The failsafe of ConnectBlock and DisconnectBlock protects the master key in
\* every history: it can always spend.
THEOREM MasterKeySafe == Spec => []MasterKeyCanSend
<1>MasterKeyStep.
    ASSUME GovTypeOK, MasterKeyUnknown, WorkTypeOK, [Next]_vars
    PROVE  MasterKeyUnknown'
  <2>. USE <1>MasterKeyStep
  <2>1. CASE UNCHANGED govVars
    BY <2>1 DEF govVars, MasterKeyUnknown
  <2>2. CASE Wipe
    BY <2>2, BlockAssumption DEF Wipe, FreezeAtInit, MasterKeyUnknown
  <2>3. ASSUME NEW op \in GovernanceOutput, NEW h \in Height \ {0}, Obeyed(op),
               Call(op, h) \/ RevertCall(op, h)
        PROVE  MasterKeyUnknown'
    <3>1. op.kind # "COST" => op.script # MasterKey
      BY <2>3 DEF Obeyed
    <3>2. MasterKey \in Script /\ freeze \in [Script -> Listing]
      BY BlockAssumption DEF GovTypeOK
    <3>3. CASE Call(op, h)
      BY <3>1, <3>2, <3>3 DEF Call, FreezeScript, UnfreezeScript, AuthorizeScript,
         UnauthorizeScript, UpdateCost, UpdateFeeScript, freezeVars, MasterKeyUnknown
    <3>4. CASE RevertCall(op, h)
      BY <3>1, <3>2, <3>4 DEF RevertCall, RevertFreezeScript, RevertUnfreezeScript,
         RevertAuthorizeScript, RevertUnauthorizeScript, RevertUpdateCost,
         RevertUpdateFeeScript, freezeVars, govVars, MasterKeyUnknown
    <3>. QED
      BY <2>3, <3>3, <3>4
  <2>. QED
    BY <2>1, <2>2, <2>3, StepCases
<1>1. Init => MasterKeyUnknown
  BY BlockAssumption DEF Init, GovInit, FreezeAtInit, MasterKeyUnknown
<1>2. GovTypeOK /\ MasterKeyUnknown /\ WorkTypeOK /\ [Next]_vars => MasterKeyUnknown'
  BY <1>MasterKeyStep
<1>3. MasterKeyUnknown => MasterKeyCanSend
  BY DEF MasterKeyUnknown, MasterKeyCanSend, CanSend
<1>. QED
  BY <1>1, <1>2, <1>3, WorkTypeCorrect, ImplementsGovernance, GovTypeCorrect, PTL DEF Spec

-----------------------------------------------------------------------------
(* The type invariant.                                                     *)

\* The database and the work of validation keep their types, and the block
\* being worked on keeps its place in the chain it belongs to.
THEOREM ChainTypeCorrect == Spec => []TypeOK
<1>KeysOfType. ASSUME NEW b PROVE KeysOf(b) \subseteq ListKey
  BY DEF KeysOf
<1>KeysAboveType.
    ASSUME NEW c, NEW h
    PROVE  KeysAbove(c, h) \subseteq ListKey
  BY <1>KeysOfType DEF KeysAbove
<1>WorkKeysType.
    ASSUME WorkTypeOK
    PROVE  KeysOf(blk) \subseteq ListKey /\ UndoneKeys \subseteq ListKey
  BY <1>WorkKeysType, <1>KeysOfType, <1>KeysAboveType DEF UndoneKeys, WorkTypeOK
<1>GhostTypeNext.
    ASSUME WorkTypeOK, GhostTypeOK, [Next]_vars
    PROVE  GhostTypeOK'
  <2>. USE <1>GhostTypeNext
  <2>. USE DEF GhostTypeOK
  <2>1. ASSUME NEW b \in Block, ConnectTip(b) \/ TestBlockValidity(b) PROVE GhostTypeOK'
    BY <2>1 DEF ConnectTip, TestBlockValidity, ghostVars
  <2>2. CASE ConnectOutput
    <3>1. height \in Height /\ blk \in Block
      BY <2>2, WorkHeight DEF ConnectOutput
    <3>. QED
      BY <2>2, <3>1 DEF ConnectOutput
  <2>3. CASE DisconnectOutput
    BY <2>3, Zenon DEF DisconnectOutput
  <2>4. CASE NextTx \/ DisconnectTip \/ VerifyDB \/ VerifyNext \/ VerifyTurn
               \/ FlushBegin \/ FlushEnd \/ Restart \/ ReplayNext
    BY <2>4 DEF NextTx, DisconnectTip, VerifyDB, VerifyNext, VerifyTurn, FlushBegin, FlushEnd,
                Restart, ReplayNext, ghostVars
  <2>5. CASE Fail \/ TestBlockValidityDone
    BY <2>5, <1>WorkKeysType DEF Fail, TestBlockValidityDone
  <2>6. CASE ConnectTipDone \/ VerifyReconnected
    <3>1. height \in Height /\ blk \in Block
      BY <2>6, WorkHeight DEF ConnectTipDone, VerifyReconnected, Connecting
    <3>. QED
      BY <2>6, <3>1, <1>WorkKeysType DEF ConnectTipDone, VerifyReconnected
  <2>7. CASE DisconnectTipDone
    BY <2>7, <1>WorkKeysType, Zenon DEF DisconnectTipDone
  <2>8. CASE VerifyStop
    BY <2>8, <1>KeysAboveType DEF VerifyStop, WorkTypeOK
  <2>9. CASE Crash
    BY <2>9, <1>WorkKeysType, <1>KeysAboveType DEF Crash, WorkTypeOK
  <2>10. CASE Reindex
    BY <2>10 DEF Reindex
  <2>11. CASE ReindexChainState
    BY <2>11, <1>KeysAboveType DEF ReindexChainState, WorkTypeOK
  <2>12. CASE UNCHANGED vars
    BY <2>12 DEF vars, ghostVars
  <2>. QED
    BY <2>1, <2>2, <2>3, <2>4, <2>5, <2>6, <2>7, <2>8, <2>9, <2>10, <2>11, <2>12 DEF Next
<1>1. Init => GhostTypeOK
  BY DEF Init, GhostTypeOK
<1>2. WorkTypeOK /\ GhostTypeOK /\ [Next]_vars => GhostTypeOK'
  BY <1>GhostTypeNext
<1>. QED
  BY <1>1, <1>2, WorkTypeCorrect, ImplementsGovernance, GovTypeCorrect, PTL DEF Spec, TypeOK

-----------------------------------------------------------------------------
(* The outputs of the block in hand, and how far its loops have come.      *)

\* The outputs of blk that ConnectBlock has dealt with, and those that
\* DisconnectBlock has undone: last transaction first, outputs in their order.
Passed == {p \in Places(blk) : p[1] < tx \/ (p[1] = tx /\ p[2] <= out)}
Undone == {p \in Places(blk) : p[1] > tx \/ (p[1] = tx /\ p[2] <= out)}

\* Where the loops over the transactions and the outputs are.
LoopsOK ==
    /\ task \in Connecting => tx \in 1 .. Len(blk) + 1
    /\ task \in Disconnecting => tx \in 0 .. Len(blk)
    /\ out # 0 => tx \in DOMAIN blk /\ out <= Len(blk[tx].vout)

LEMMA BlockShape ==
    ASSUME NEW b \in Block
    PROVE  /\ Len(b) \in Nat
           /\ DOMAIN b = 1 .. Len(b)
           /\ \A i \in DOMAIN b : /\ b[i] \in Tx
                                  /\ Len(b[i].vout) \in Nat
                                  /\ DOMAIN b[i].vout = 1 .. Len(b[i].vout)
                                  /\ b[i].vout \in Seq(GovernanceOutput)
<1>1. b \in Seq(Tx)
  BY BlockAssumption
<1>2. \A i \in DOMAIN b : b[i] \in Tx
  BY <1>1
<1>3. \A i \in DOMAIN b : b[i].vout \in Seq(GovernanceOutput)
  BY <1>2 DEF Tx
<1>. QED
  BY <1>1, <1>2, <1>3

\* A place is the number of a transaction and of one of its outputs.
LEMMA PlaceShape ==
    ASSUME NEW b \in Block
    PROVE  /\ \A p \in Places(b) : /\ p = <<p[1], p[2]>>
                                   /\ p[1] \in 1 .. Len(b)
                                   /\ p[2] \in 1 .. Len(b[p[1]].vout)
                                   /\ OutputAt(b, p) \in GovernanceOutput
           /\ \A i \in 1 .. Len(b) : \A j \in 1 .. Len(b[i].vout) : <<i, j>> \in Places(b)
<1>1. \A p \in Places(b) : \E i \in DOMAIN b : \E j \in DOMAIN b[i].vout : p = <<i, j>>
  BY DEF Places
<1>2. \A i \in DOMAIN b : \A j \in DOMAIN b[i].vout : <<i, j>> \in Places(b)
  BY DEF Places
<1>3. \A i \in DOMAIN b : \A j \in DOMAIN b[i].vout : b[i].vout[j] \in GovernanceOutput
  BY BlockShape
<1>. QED
  BY <1>1, <1>2, <1>3, BlockShape DEF OutputAt

\* ConnectBlock comes to every two different places in one order.
PlacesOrdered(b) ==
    /\ \A p \in Places(b) : ~Before(p, p)
    /\ \A p, q \in Places(b) : p = q \/ Before(p, q) \/ Before(q, p)
    /\ \A p, q \in Places(b) : ~(Before(p, q) /\ Before(q, p))

LEMMA PlaceOrder == ASSUME NEW b \in Block PROVE PlacesOrdered(b)
<1>1. \A p \in Places(b) : p[1] \in Int /\ p[2] \in Int /\ p = <<p[1], p[2]>>
  <2>1. Len(b) \in Nat /\ \A i \in 1 .. Len(b) : Len(b[i].vout) \in Nat
    BY BlockShape
  <2>. QED
    BY <2>1, PlaceShape
<1>2. \A p, q \in Places(b) : p[1] = q[1] /\ p[2] = q[2] => p = q
  BY <1>1, Zenon
<1>. QED
  BY <1>1, <1>2 DEF Before, PlacesOrdered

\* The place of the output that comes next is the first one not passed, and
\* the first of its transaction not undone.
NextIs(here) ==
    /\ here \in Places(blk) /\ OutputAt(blk, here) = blk[tx].vout[out + 1]
    /\ Passed' = Passed \cup {here} /\ here \notin Passed
    /\ \A p \in Passed : Before(p, here)
    /\ Undone' = Undone \cup {here} /\ here \notin Undone
    /\ \A p \in Places(blk) \ Undone : p[1] < tx \/ (p[1] = tx /\ p[2] > out)
    /\ \A p \in Places(blk) : p[1] < tx => p \notin Undone'

LEMMA NextPlace ==
    ASSUME WorkTypeOK, LoopsOK, blk \in Block, tx \in DOMAIN blk, out < Len(blk[tx].vout),
           UNCHANGED <<blk, tx>>, out' = out + 1
    PROVE  NextIs(<<tx, out + 1>>)
<1>1. tx \in 1 .. Len(blk) /\ Len(blk) \in Nat /\ Len(blk[tx].vout) \in Nat /\ out \in Nat
  BY BlockShape DEF WorkTypeOK
<1>2. out + 1 \in 1 .. Len(blk[tx].vout)
  BY <1>1
<1>3. <<tx, out + 1>> \in Places(blk)
  BY <1>1, <1>2, PlaceShape
<1>4. \A p \in Places(blk) : p = <<p[1], p[2]>> /\ p[1] \in Int /\ p[2] \in Int
  <2>1. \A i \in 1 .. Len(blk) : Len(blk[i].vout) \in Nat
    BY BlockShape
  <2>. QED
    BY <1>1, <2>1, PlaceShape
<1>5. \A p \in Places(blk) : p[1] = tx => (p[2] <= out + 1 <=> p[2] <= out \/ p = <<tx, out + 1>>)
  <2>1. \A p \in Places(blk) : p[1] = tx /\ p[2] = out + 1 => p = <<tx, out + 1>>
    BY <1>4, Zenon
  <2>2. \A p \in Places(blk) : p = <<tx, out + 1>> => p[2] = out + 1
    OBVIOUS
  <2>. QED
    BY <1>1, <1>4, <2>1, <2>2
<1>6. Places(blk)' = Places(blk)
  BY DEF Places
<1>7. Passed' = {p \in Places(blk) : p[1] < tx \/ (p[1] = tx /\ p[2] <= out + 1)}
  BY <1>6 DEF Passed
<1>8. Undone' = {p \in Places(blk) : p[1] > tx \/ (p[1] = tx /\ p[2] <= out + 1)}
  BY <1>6 DEF Undone
<1>9. Passed' = Passed \cup {<<tx, out + 1>>} /\ <<tx, out + 1>> \notin Passed
  BY <1>1, <1>3, <1>4, <1>5, <1>7 DEF Passed
<1>10. Undone' = Undone \cup {<<tx, out + 1>>} /\ <<tx, out + 1>> \notin Undone
  BY <1>1, <1>3, <1>4, <1>5, <1>8 DEF Undone
<1>11. \A p \in Passed : Before(p, <<tx, out + 1>>)
  BY <1>1, <1>4 DEF Passed, Before
<1>12. \A p \in Places(blk) \ Undone : p[1] < tx \/ (p[1] = tx /\ p[2] > out)
  BY <1>1, <1>4 DEF Undone
<1>13. \A p \in Places(blk) : p[1] < tx => p \notin Undone'
  BY <1>1, <1>4, <1>8
<1>14. OutputAt(blk, <<tx, out + 1>>) = blk[tx].vout[out + 1]
  BY DEF OutputAt
<1>. QED
  BY <1>3, <1>9, <1>10, <1>11, <1>12, <1>13, <1>14 DEF NextIs

\* Going on to the next transaction passes and undoes nothing.
LEMMA NextTxPlaces ==
    ASSUME WorkTypeOK, LoopsOK, NextTx, task \in Connecting \cup Disconnecting
    PROVE  /\ task \in Connecting => Passed' = Passed
           /\ task \in Disconnecting => Undone' = Undone
<1>1. tx \in DOMAIN blk /\ out = Len(blk[tx].vout) /\ blk' = blk /\ out' = 0 /\ blk \in Block
  BY DEF NextTx, WorkTypeOK
<1>2. \A p \in Places(blk) : /\ p[1] \in Int /\ p[2] \in Int /\ p[2] > 0
                             /\ p[1] = tx => p[2] <= out
  <2>1. Len(blk) \in Nat /\ \A i \in 1 .. Len(blk) : Len(blk[i].vout) \in Nat
    BY <1>1, BlockShape
  <2>. QED
    BY <1>1, <2>1, PlaceShape
<1>3. Places(blk)' = Places(blk) /\ tx \in Int
  BY <1>1, BlockShape DEF Places, WorkTypeOK
<1>4. ASSUME task \in Connecting PROVE Passed' = Passed
  <2>1. tx' = tx + 1
    BY <1>4 DEF NextTx
  <2>2. Passed' = {p \in Places(blk) : p[1] < tx + 1 \/ (p[1] = tx + 1 /\ p[2] <= 0)}
    BY <1>1, <1>3, <2>1 DEF Passed
  <2>. QED
    BY <1>2, <1>3, <2>2 DEF Passed
<1>5. ASSUME task \in Disconnecting PROVE Undone' = Undone
  <2>1. tx' = tx - 1
    BY <1>5 DEF NextTx, Connecting, Disconnecting
  <2>2. Undone' = {p \in Places(blk) : p[1] > tx - 1 \/ (p[1] = tx - 1 /\ p[2] <= 0)}
    BY <1>1, <1>3, <2>1 DEF Undone
  <2>. QED
    BY <1>2, <1>3, <2>2 DEF Undone
<1>. QED
  BY <1>4, <1>5

\* At the start of a block nothing is passed or undone, at its end everything.
LEMMA BeginPlaces ==
    ASSUME NEW what \in Connecting \cup Disconnecting, NEW b \in Block, NEW h, Begin(what, b, h)
    PROVE  /\ what \in Connecting => Passed' = {}
           /\ what \in Disconnecting => Undone' = {}
<1>1. \A p \in Places(b) : p[1] \in 1 .. Len(b) /\ p[2] \in Int /\ p[2] > 0
  <2>1. Len(b) \in Nat /\ \A i \in 1 .. Len(b) : Len(b[i].vout) \in Nat
    BY BlockShape
  <2>. QED
    BY <2>1, PlaceShape
<1>2. Len(b) \in Nat
  BY BlockShape
<1>3. Passed' = {p \in Places(b) : p[1] < tx' \/ (p[1] = tx' /\ p[2] <= 0)}
  BY DEF Passed, Begin, Places
<1>4. Undone' = {p \in Places(b) : p[1] > tx' \/ (p[1] = tx' /\ p[2] <= 0)}
  BY DEF Undone, Begin, Places
<1>5. what \in Connecting => tx' = 1
  BY DEF Begin
<1>6. what \in Disconnecting => tx' = Len(b)
  BY DEF Begin, Connecting, Disconnecting
<1>. QED
  BY <1>1, <1>2, <1>3, <1>4, <1>5, <1>6

LEMMA DonePlaces ==
    ASSUME WorkTypeOK, LoopsOK, BlockDone, task \in Connecting \cup Disconnecting
    PROVE  /\ task \in Connecting => Passed = Places(blk)
           /\ task \in Disconnecting => Undone = Places(blk)
<1>1. blk \in Block
  BY DEF WorkTypeOK
<1>2. Len(blk) \in Nat /\ DOMAIN blk = 1 .. Len(blk)
  BY <1>1, BlockShape
<1>3. \A p \in Places(blk) : p[1] \in 1 .. Len(blk)
  BY <1>1, PlaceShape
<1>4. task \in Connecting => tx = Len(blk) + 1
  BY <1>2 DEF BlockDone, LoopsOK
<1>5. task \in Disconnecting => tx = 0
  BY <1>2 DEF BlockDone, LoopsOK
<1>. QED
  BY <1>2, <1>3, <1>4, <1>5 DEF Passed, Undone

\* A step takes up a block, puts it down, goes on with it or leaves it alone.
TakesUp ==
    \E what \in Connecting \cup Disconnecting, b \in Block, h \in Height : Begin(what, b, h)
PutsDown == \E what \in {"idle", "down", "flush"} : Rest(what)

LEMMA WorkStep ==
    ASSUME WorkTypeOK, [Next]_vars
    PROVE  TakesUp \/ PutsDown \/ NextTx \/ ConnectOutput \/ DisconnectOutput \/ UNCHANGED vars
<1>. DEFINE Goal == \/ \E what \in Connecting \cup Disconnecting, b \in Block, h \in Height :
                          Begin(what, b, h)
                    \/ \E what \in {"idle", "down", "flush"} : Rest(what)
                    \/ NextTx \/ ConnectOutput \/ DisconnectOutput \/ UNCHANGED vars
<1>. SUFFICES Goal
  BY DEF TakesUp, PutsDown
<1>0. Len(chain) \in Nat /\ Len(chain) <= MaxHeight /\ chain \in Chain /\ MaxHeight \in Nat
  BY MaxHeightNat DEF WorkTypeOK, Chain
<1>1. ASSUME NEW b \in Block, ConnectTip(b) \/ TestBlockValidity(b) PROVE Goal
  BY <1>0, <1>1 DEF ConnectTip, TestBlockValidity, Connecting, Height
<1>2. CASE Fail \/ ConnectTipDone \/ TestBlockValidityDone \/ DisconnectTipDone \/ VerifyStop
  BY <1>2 DEF Fail, ConnectTipDone, TestBlockValidityDone, DisconnectTipDone, VerifyStop
<1>3. CASE DisconnectTip \/ VerifyDB
  <2>1. chain[Len(chain)] \in Block /\ Len(chain) \in Height
    BY <1>0, <1>3, PrevChain DEF DisconnectTip, VerifyDB, Height
  <2>2. Begin("disconnect", chain[Len(chain)], Len(chain))
          \/ Begin("verifyDown", chain[Len(chain)], Len(chain))
    BY <1>3 DEF DisconnectTip, VerifyDB
  <2>. QED
    BY <2>1, <2>2, SMTT(30) DEF Disconnecting
<1>4. CASE VerifyNext \/ VerifyTurn \/ VerifyReconnected
  <2>1. height \in 1 .. Len(chain)
    BY <1>4 DEF WorkTypeOK, VerifyNext, VerifyTurn, VerifyReconnected
  <2>2. \A h \in 1 .. Len(chain) : chain[h] \in Block /\ h \in Height
    BY <1>0, ChainBlock
  <2>3. CASE VerifyNext
    <3>1. height - 1 \in 1 .. Len(chain) /\ Begin("verifyDown", chain[height - 1], height - 1)
      BY <1>0, <2>1, <2>3 DEF VerifyNext
    <3>. QED
      BY <2>2, <3>1, Zenon DEF Disconnecting
  <2>4. CASE VerifyTurn
    BY <1>0, <2>1, <2>2, <2>4 DEF VerifyTurn, Connecting
  <2>5. CASE VerifyReconnected
    BY <1>0, <2>1, <2>2, <2>5 DEF VerifyReconnected, Connecting
  <2>. QED
    BY <1>4, <2>3, <2>4, <2>5
<1>5. ASSUME NEW h \in 0 .. Len(disk), Replayed(h) PROVE Goal
  <2>1. Fork(disk, diskNew) \in Nat /\ Len(disk) \in Nat /\ disk \in Chain
    BY ForkNat DEF WorkTypeOK, Chain
  <2>2. CASE h > Fork(disk, diskNew)
    <3>1. h \in 1 .. Len(disk)
      BY <2>1, <2>2
    <3>2. disk[h] \in Block /\ h \in Height
      BY <2>1, <3>1, ChainBlock
    <3>. QED
      BY <1>5, <2>2, <3>2, Zenon DEF Replayed, Disconnecting
  <2>. QED
    BY <1>5, <2>2 DEF Replayed
<1>6. CASE Restart \/ ReplayNext
  <2>1. Len(disk) \in 0 .. Len(disk)
    BY DEF WorkTypeOK, Chain
  <2>2. task = "replay" => height - 1 \in 0 .. Len(disk)
    BY <2>1 DEF WorkTypeOK
  <2>. QED
    BY <1>5, <1>6, <2>1, <2>2 DEF Restart, ReplayNext
<1>7. CASE FlushBegin \/ FlushEnd \/ Crash \/ Reindex \/ ReindexChainState
  BY <1>7 DEF FlushBegin, FlushEnd, Crash, Reindex, ReindexChainState, EmptyCoinsDB
<1>8. CASE NextTx \/ ConnectOutput \/ DisconnectOutput
  BY <1>8
<1>9. CASE UNCHANGED vars
  BY <1>9
<1>. QED
  BY <1>1, <1>2, <1>3, <1>4, <1>6, <1>7, <1>8, <1>9 DEF Next

LEMMA PlaceSubsets ==
    ASSUME NEW b, NEW k
    PROVE  About(b, k) \subseteq Named(b, k) /\ Named(b, k) \subseteq Places(b)
  BY DEF About, Named, ActivePlaces, ObeyedPlaces

LEMMA LoopsCorrect == Spec => []LoopsOK
<1>LoopsStep.
    ASSUME WorkTypeOK, LoopsOK, [Next]_vars
    PROVE  LoopsOK'
  <2>. USE <1>LoopsStep
  <2>1. ASSUME NEW what, Rest(what), what \in {"idle", "down", "flush"} PROVE LoopsOK'
    BY <2>1 DEF Rest, LoopsOK, Connecting, Disconnecting
  <2>2. ASSUME NEW what \in Connecting \cup Disconnecting, NEW b \in Block, NEW h, Begin(what, b, h)
        PROVE  LoopsOK'
    <3>1. Len(b) \in Nat
      BY BlockShape
    <3>. QED
      BY <2>2, <3>1 DEF Begin, LoopsOK, Connecting, Disconnecting
  <2>3. ASSUME task \in Connecting \cup Disconnecting, UNCHANGED <<task, blk, tx>>,
               tx \in DOMAIN blk, out < Len(blk[tx].vout), out' = out + 1
        PROVE  LoopsOK'
    <3>1. Len(blk[tx].vout) \in Nat /\ out \in Nat
      BY <2>3, BlockShape DEF WorkTypeOK
    <3>2. out + 1 <= Len(blk[tx].vout)
      BY <2>3, <3>1
    <3>. QED
      BY <2>3, <3>2 DEF LoopsOK
  <2>4. CASE NextTx
    <3>1. CASE task \in Connecting \cup Disconnecting
      <4>1. Len(blk) \in Nat /\ tx \in 1 .. Len(blk)
        BY <2>4, <3>1, BlockShape DEF NextTx, WorkTypeOK
      <4>. QED
        BY <2>4, <3>1, <4>1 DEF NextTx, LoopsOK, Connecting, Disconnecting
    <3>2. CASE task \notin Connecting \cup Disconnecting
      BY <2>4, <3>2 DEF NextTx, LoopsOK
    <3>. QED
      BY <3>1, <3>2
  <2>5. CASE ConnectOutput \/ DisconnectOutput
    BY <2>3, <2>5 DEF ConnectOutput, DisconnectOutput
  <2>6. CASE UNCHANGED vars
    BY <2>6 DEF vars, workVars, LoopsOK
  <2>. QED
    BY <2>1, <2>2, <2>4, <2>5, <2>6, WorkStep DEF TakesUp, PutsDown
<1>1. Init => LoopsOK
  BY DEF Init, LoopsOK, Connecting, Disconnecting
<1>2. WorkTypeOK /\ LoopsOK /\ [Next]_vars => LoopsOK'
  BY <1>LoopsStep
<1>. QED
  BY <1>1, <1>2, WorkTypeCorrect, PTL DEF Spec

=============================================================================
