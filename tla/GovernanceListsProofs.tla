----------------------- MODULE GovernanceListsProofs ------------------------
(***************************************************************************)
(* Proofs about GovernanceChain: the freeze list and the list of stakers   *)
(* follow the active chain.                                                *)
(***************************************************************************)
EXTENDS GovernanceChainProofs

-----------------------------------------------------------------------------
(* The freeze list and the list of stakers.                                *)

\* The entry of a script on a list, and what an output makes of it.
Entry(key) == IF key[1] = "freeze" THEN freeze[key[2]] ELSE authority[key[2]]
Verdict(op) == IF Lists(op) THEN "listed" ELSE "unlisted"

\* An entry e for the key is what the chain c says, and there is one if c has
\* an output about it.
Agrees(e, key, c) ==
    /\ e = "listed" <=> Says(c, key)
    /\ \A h \in DOMAIN c : About(c[h], key) # {} => e # "unknown"

\* The chain on disk is the one a crash goes back to, and what a replay is
\* going to undo is disturbed already.
DiskInv ==
    /\ task \in {"flush", "down", "replay"} => chain = diskNew
    /\ task \notin {"flush", "down", "replay"} => disk = diskNew
    /\ task \in {"down", "replay"} => KeysAbove(disk, Fork(disk, diskNew)) \subseteq stray
    /\ task = "disconnect" => blk = chain[Len(chain)]
    /\ task \in {"verifyDown", "verifyUp"} => blk = chain[height]
    /\ task = "replay" => blk = disk[height] /\ height > Fork(disk, diskNew)

\* The entries the work in hand may have changed.
Pending ==
    CASE task \in {"connect", "check"} -> KeysSet(blk)
      [] task = "disconnect" -> KeysOf(blk)
      [] task \in {"verifyDown", "verifyUp"} -> KeysAbove(chain, height - 1)
      [] OTHER -> {}

\* All other entries agree with the chain.
Settled(key) == key \notin stray \cup Pending => Agrees(Entry(key), key, chain)

\* While a block is being connected, the last output obeyed decides.
LastConnected(key) ==
    task \in Connecting /\ About(blk, key) \cap Passed # {} =>
       \E p \in About(blk, key) \cap Passed :
          /\ Entry(key) = Verdict(OutputAt(blk, p))
          /\ \A q \in About(blk, key) \cap Passed : ~Before(p, q)

\* While the tip is being disconnected, the last output not yet undone decides;
\* when none is left, the chain below the tip does.
LastLeft(key) ==
    task = "disconnect" /\ key \in KeysOf(blk) \ stray /\ Reverts(pprev(chain), blk, key) =>
       LET left == Named(blk, key) \ Undone
       IN  /\ left = {} => Agrees(Entry(key), key, pprev(chain))
           /\ \A p \in left : (\A q \in left : ~Before(p, q)) =>
                 Entry(key) = Verdict(OutputAt(blk, p))

ListsInv == \A key \in ListKey : Settled(key) /\ LastConnected(key) /\ LastLeft(key)

LEMMA EntryType == ASSUME GovTypeOK, NEW key \in ListKey PROVE Entry(key) \in Listing
<1>1. key[2] \in Script
  BY DEF ListKey
<1>. QED
  BY <1>1 DEF GovTypeOK, Entry

\* What the call of an output does to an entry of a list, and what its revert
\* does.
LEMMA CallList ==
    ASSUME GovTypeOK, NEW op \in GovernanceOutput, NEW h, Call(op, h), NEW key \in ListKey
    PROVE  Entry(key)' = IF Key(op) = key THEN Verdict(op) ELSE Entry(key)
<1>. USE DEF Entry, Verdict, Lists
<1>1. CASE op \in ListOp
  <2>1. op.kind \in {"FREEZE", "UNFREEZE", "AUTHORIZATION", "UNAUTHORIZATION"} /\ op.script \in Script
    BY <1>1 DEF ListOp
  <2>2. PICK s \in Script : key \in {<<"freeze", s>>, <<"authority", s>>}
    BY DEF ListKey
  <2>3. CASE op.kind = "FREEZE"
    <3>1. freeze' = [freeze EXCEPT ![op.script] = "listed"] /\ authority' = authority
      BY <2>3 DEF Call, FreezeScript, authorityVars
    <3>2. Key(op) = <<"freeze", op.script>>
      BY <2>3 DEF Key
    <3>. QED
      BY <2>1, <2>2, <2>3, <3>1, <3>2 DEF GovTypeOK
  <2>4. CASE op.kind = "UNFREEZE"
    <3>1. freeze' = [freeze EXCEPT ![op.script] = "unlisted"] /\ authority' = authority
      BY <2>4 DEF Call, UnfreezeScript, authorityVars
    <3>2. Key(op) = <<"freeze", op.script>>
      BY <2>4 DEF Key
    <3>. QED
      BY <2>1, <2>2, <2>4, <3>1, <3>2 DEF GovTypeOK
  <2>5. CASE op.kind = "AUTHORIZATION"
    <3>1. authority' = [authority EXCEPT ![op.script] = "listed"] /\ freeze' = freeze
      BY <2>5 DEF Call, AuthorizeScript, freezeVars
    <3>2. Key(op) = <<"authority", op.script>>
      BY <2>5 DEF Key
    <3>. QED
      BY <2>1, <2>2, <2>5, <3>1, <3>2 DEF GovTypeOK
  <2>6. CASE op.kind = "UNAUTHORIZATION"
    <3>1. authority' = [authority EXCEPT ![op.script] = "unlisted"] /\ freeze' = freeze
      BY <2>6 DEF Call, UnauthorizeScript, freezeVars
    <3>2. Key(op) = <<"authority", op.script>>
      BY <2>6 DEF Key
    <3>. QED
      BY <2>1, <2>2, <2>6, <3>1, <3>2 DEF GovTypeOK
  <2>. QED
    BY <2>1, <2>3, <2>4, <2>5, <2>6
<1>2. CASE op \in CostOp \cup FeeOp
  <2>1. op.kind \in {"COST", "FEE"}
    BY <1>2 DEF CostOp, FeeOp
  <2>2. UNCHANGED <<freeze, authority>>
    BY <2>1 DEF Call, UpdateCost, UpdateFeeScript, freezeVars, authorityVars
  <2>3. Key(op)[1] \in {"cost", "fee"}
    BY <2>1 DEF Key
  <2>4. key[1] \in {"freeze", "authority"}
    BY DEF ListKey
  <2>. QED
    BY <2>2, <2>3, <2>4
<1>. QED
  BY <1>1, <1>2 DEF GovernanceOutput

LEMMA RevertList ==
    ASSUME GovTypeOK, NEW op \in GovernanceOutput, NEW h, RevertCall(op, h), NEW key \in ListKey
    PROVE  /\ Key(op) # key => Entry(key)' = Entry(key)
           /\ Key(op) = key /\ Entry(key) = Verdict(op) =>
                 Entry(key)' = IF Lists(op) THEN "unlisted" ELSE "listed"
<1>. USE DEF Entry, Verdict, Lists
<1>1. CASE op \in ListOp
  <2>1. op.kind \in {"FREEZE", "UNFREEZE", "AUTHORIZATION", "UNAUTHORIZATION"} /\ op.script \in Script
    BY <1>1 DEF ListOp
  <2>2. PICK s \in Script : key \in {<<"freeze", s>>, <<"authority", s>>}
    BY DEF ListKey
  <2>3. CASE op.kind = "FREEZE"
    <3>1. /\ authority' = authority
          /\ freeze' = IF freeze[op.script] = "listed"
                         THEN [freeze EXCEPT ![op.script] = "unlisted"] ELSE freeze
      BY <2>3 DEF RevertCall, RevertFreezeScript, authorityVars, govVars
    <3>2. Key(op) = <<"freeze", op.script>>
      BY <2>3 DEF Key
    <3>. QED
      BY <2>1, <2>2, <2>3, <3>1, <3>2 DEF GovTypeOK
  <2>4. CASE op.kind = "UNFREEZE"
    <3>1. /\ authority' = authority
          /\ freeze' = IF freeze[op.script] = "unlisted"
                         THEN [freeze EXCEPT ![op.script] = "listed"] ELSE freeze
      BY <2>4 DEF RevertCall, RevertUnfreezeScript, authorityVars, govVars
    <3>2. Key(op) = <<"freeze", op.script>>
      BY <2>4 DEF Key
    <3>. QED
      BY <2>1, <2>2, <2>4, <3>1, <3>2 DEF GovTypeOK
  <2>5. CASE op.kind = "AUTHORIZATION"
    <3>1. /\ freeze' = freeze
          /\ authority' = IF authority[op.script] = "listed"
                            THEN [authority EXCEPT ![op.script] = "unlisted"] ELSE authority
      BY <2>5 DEF RevertCall, RevertAuthorizeScript, freezeVars, govVars
    <3>2. Key(op) = <<"authority", op.script>>
      BY <2>5 DEF Key
    <3>. QED
      BY <2>1, <2>2, <2>5, <3>1, <3>2 DEF GovTypeOK
  <2>6. CASE op.kind = "UNAUTHORIZATION"
    <3>1. /\ freeze' = freeze
          /\ authority' = IF authority[op.script] = "unlisted"
                            THEN [authority EXCEPT ![op.script] = "listed"] ELSE authority
      BY <2>6 DEF RevertCall, RevertUnauthorizeScript, freezeVars, govVars
    <3>2. Key(op) = <<"authority", op.script>>
      BY <2>6 DEF Key
    <3>. QED
      BY <2>1, <2>2, <2>6, <3>1, <3>2 DEF GovTypeOK
  <2>. QED
    BY <2>1, <2>3, <2>4, <2>5, <2>6
<1>2. CASE op \in CostOp \cup FeeOp
  <2>1. op.kind \in {"COST", "FEE"}
    BY <1>2 DEF CostOp, FeeOp
  <2>2. UNCHANGED <<freeze, authority>>
    BY <2>1 DEF RevertCall, RevertUpdateCost, RevertUpdateFeeScript, freezeVars, authorityVars
  <2>3. Key(op)[1] \in {"cost", "fee"}
    BY <2>1 DEF Key
  <2>4. key[1] \in {"freeze", "authority"}
    BY DEF ListKey
  <2>. QED
    BY <2>2, <2>3, <2>4
<1>. QED
  BY <1>1, <1>2 DEF GovernanceOutput

\* The keys of a block are those that its outputs are about.
LEMMA KeysOfNamed ==
    ASSUME NEW b, NEW key \in ListKey
    PROVE  /\ key \in KeysOf(b) <=> Named(b, key) # {}
           /\ key \in KeysSet(b) <=> About(b, key) # {}
           /\ key \notin KeysOf(b) => About(b, key) = {}
           /\ KeysSet(b) \subseteq KeysOf(b)
  BY DEF KeysOf, KeysSet, Named, About, ActivePlaces

\* What a chain says of an entry, from its last block that is about it.
LEMMA SaysLast ==
    ASSUME NEW c \in Chain, NEW key, NEW h \in DOMAIN c, About(c[h], key) # {},
           \A g \in DOMAIN c : g > h => About(c[g], key) = {}
    PROVE  Says(c, key) <=> BlockSays(c[h], key)
<1>1. DOMAIN c = 1 .. Len(c) /\ Len(c) \in Nat
  BY DEF Chain
<1>2. \A g \in DOMAIN c : About(c[g], key) # {} => g <= h
  BY <1>1
<1>3. \A g \in DOMAIN c : h <= g /\ g <= h => g = h
  BY <1>1
<1>. QED
  BY <1>2, <1>3 DEF Says

\* Chains that have the same blocks about an entry say the same of it.
SameAbout(c, d, key) ==
    /\ \A h \in DOMAIN c : About(c[h], key) # {} => h \in DOMAIN d /\ d[h] = c[h]
    /\ \A h \in DOMAIN d : About(d[h], key) # {} => h \in DOMAIN c /\ d[h] = c[h]

LEMMA SaysSame ==
    ASSUME NEW c \in Chain, NEW d \in Chain, NEW key,
           SameAbout(c, d, key)
    PROVE  Says(c, key) <=> Says(d, key)
<1>1. {h \in DOMAIN c : About(c[h], key) # {}} = {h \in DOMAIN d : About(d[h], key) # {}}
  BY DEF SameAbout
<1>2. \A h \in {g \in DOMAIN c : About(c[g], key) # {}} : c[h] = d[h]
  BY DEF SameAbout
<1>. QED
  BY <1>1, <1>2, Zenon DEF Says

LEMMA AgreesSame ==
    ASSUME NEW c \in Chain, NEW d \in Chain, NEW key,
           SameAbout(c, d, key),
           NEW e, Agrees(e, key, c)
    PROVE  Agrees(e, key, d)
<1>1. Says(c, key) <=> Says(d, key)
  BY SaysSame
<1>. QED
  BY <1>1 DEF Agrees, SameAbout

\* When the last output about an entry has been obeyed, the chain agrees.
LEMMA AgreesLast ==
    ASSUME NEW c \in Chain, NEW key, NEW h \in DOMAIN c,
           \A g \in DOMAIN c : g > h => About(c[g], key) = {},
           NEW p \in About(c[h], key), \A q \in About(c[h], key) : ~Before(p, q),
           NEW e, e = Verdict(OutputAt(c[h], p))
    PROVE  Agrees(e, key, c)
<1>1. Says(c, key) <=> BlockSays(c[h], key)
  BY SaysLast
<1>2. c[h] \in Block
  <2>1. h \in 1 .. Len(c)
    BY DEF Chain
  <2>. QED
    BY <2>1, ChainBlock
<1>3. BlockSays(c[h], key) <=> Lists(OutputAt(c[h], p))
  <2>1. About(c[h], key) \subseteq Places(c[h])
    BY PlaceSubsets
  <2>2. \A q \in About(c[h], key) : (\A r \in About(c[h], key) : ~Before(q, r)) => q = p
    BY <1>2, <2>1, PlaceOrder DEF PlacesOrdered
  <2>. QED
    BY <2>2 DEF BlockSays
<1>. QED
  BY <1>1, <1>3 DEF Agrees, Verdict

\* The keys above a height.
LEMMA KeysAboveIn ==
    ASSUME NEW c \in Chain, NEW h \in Nat
    PROVE  /\ \A i \in DOMAIN c : i > h => KeysOf(c[i]) \subseteq KeysAbove(c, h)
           /\ h >= Len(c) => KeysAbove(c, h) = {}
           /\ h >= 1 => KeysAbove(c, h) \subseteq KeysAbove(c, h - 1)
           /\ h \in DOMAIN c => KeysAbove(c, h - 1) = KeysOf(c[h]) \cup KeysAbove(c, h)
<1>1. Len(c) \in Nat /\ DOMAIN c = 1 .. Len(c)
  BY DEF Chain
<1>2. \A i \in DOMAIN c : i > h - 1 <=> i = h \/ i > h
  BY <1>1
<1>3. h >= Len(c) => {j \in DOMAIN c : j > h} = {}
  BY <1>1
<1>4. \A key, g : key \in KeysAbove(c, g) <=> \E i \in DOMAIN c : i > g /\ key \in KeysOf(c[i])
  BY DEF KeysAbove
<1>5. \A i \in DOMAIN c : i > h => KeysOf(c[i]) \subseteq KeysAbove(c, h)
  BY <1>4
<1>6. h >= Len(c) => KeysAbove(c, h) = {}
  BY <1>3 DEF KeysAbove
<1>7. KeysAbove(c, h) \subseteq KeysAbove(c, h - 1)
  BY <1>2, <1>4
<1>8. h \in DOMAIN c => KeysAbove(c, h - 1) = KeysOf(c[h]) \cup KeysAbove(c, h)
  <2>. SUFFICES ASSUME h \in DOMAIN c, NEW key
                PROVE  key \in KeysAbove(c, h - 1) <=> key \in KeysOf(c[h]) \cup KeysAbove(c, h)
    OBVIOUS
  <2>. QED
    BY <1>2, <1>4
<1>. QED
  BY <1>5, <1>6, <1>7, <1>8

LEMMA DiskStep ==
    ASSUME WorkTypeOK, DiskInv, [Next]_vars
    PROVE  DiskInv'
<1>. USE DEF DiskInv
<1>1. ASSUME NEW b \in Block, ConnectTip(b) \/ TestBlockValidity(b) PROVE DiskInv'
  BY <1>1 DEF ConnectTip, TestBlockValidity, chainVars, ghostVars, Begin
<1>2. CASE ConnectOutput \/ DisconnectOutput \/ NextTx
  BY <1>2 DEF ConnectOutput, DisconnectOutput, NextTx, chainVars, ghostVars
<1>3. CASE Fail
  <2>1. CASE task = "replay"
    BY <1>3, <2>1 DEF Fail, chainVars, Rest
  <2>2. CASE task # "replay"
    BY <1>3, <2>2 DEF Fail, chainVars, Rest, Connecting, Disconnecting
  <2>. QED
    BY <2>1, <2>2
<1>4. CASE ConnectTipDone \/ TestBlockValidityDone \/ DisconnectTipDone \/ VerifyStop
  BY <1>4 DEF ConnectTipDone, TestBlockValidityDone, DisconnectTipDone, VerifyStop, chainVars, Rest
<1>5. CASE DisconnectTip \/ VerifyDB
  BY <1>5 DEF DisconnectTip, VerifyDB, chainVars, ghostVars, Begin
<1>6. CASE VerifyNext \/ VerifyTurn
  BY <1>6 DEF VerifyNext, VerifyTurn, chainVars, ghostVars, Begin
<1>7. CASE VerifyReconnected
  BY <1>7 DEF VerifyReconnected, chainVars, Begin, Rest
<1>8. CASE FlushBegin \/ FlushEnd
  BY <1>8 DEF FlushBegin, FlushEnd, Rest
<1>9. CASE Crash
  <2>1. /\ task' = "down" /\ chain' = diskNew /\ UNCHANGED <<disk, diskNew>>
        /\ KeysAbove(disk, Fork(disk, chain)) \subseteq stray'
    BY <1>9 DEF Crash, Rest
  <2>2. CASE task \in {"flush", "down", "replay"}
    BY <2>1, <2>2
  <2>3. CASE task \notin {"flush", "down", "replay"}
    <3>1. disk = diskNew /\ disk \in Chain /\ Len(disk) \in Nat
      BY <2>3 DEF WorkTypeOK, Chain
    <3>2. Fork(disk, diskNew) = Len(disk)
      BY <3>1, ForkCommon
    <3>3. KeysAbove(disk, Fork(disk, diskNew)) = {}
      BY <3>1, <3>2, KeysAboveIn
    <3>. QED
      BY <2>1, <3>3
  <2>. QED
    BY <2>2, <2>3
<1>10. ASSUME NEW h, Replayed(h), UNCHANGED <<chain, diskNew, stray>>, task \in {"down", "replay"}
       PROVE  DiskInv'
  BY <1>10 DEF Replayed, Begin, Rest
<1>11. CASE Restart \/ ReplayNext
  BY <1>10, <1>11 DEF Restart, ReplayNext, ghostVars
<1>12. CASE Reindex \/ ReindexChainState
  BY <1>12 DEF Reindex, ReindexChainState, EmptyCoinsDB, Rest
<1>13. CASE UNCHANGED vars
  BY <1>13 DEF vars, chainVars, workVars, ghostVars
<1>. QED
  BY <1>1, <1>2, <1>3, <1>4, <1>5, <1>6, <1>7, <1>8, <1>9, <1>11, <1>12, <1>13, ZenonT(30) DEF Next

\* A block in hand has no output about an entry that is neither disturbed nor
\* pending.
LEMMA NotPending ==
    ASSUME WorkTypeOK, DiskInv, NEW key \in ListKey, key \notin stray \cup Pending
    PROVE  /\ task \in Connecting => About(blk, key) = {}
           /\ task \in Disconnecting => Named(blk, key) = {}
<1>1. CASE task \in {"connect", "check"}
  BY <1>1, KeysOfNamed DEF Pending, Connecting, Disconnecting
<1>2. CASE task = "disconnect"
  BY <1>2, KeysOfNamed DEF Pending, Connecting, Disconnecting
<1>3. CASE task \in {"verifyDown", "verifyUp"}
  <2>1. blk = chain[height] /\ chain \in Chain /\ height \in 1 .. Len(chain) /\ Len(chain) \in Nat
    BY <1>3 DEF DiskInv, WorkTypeOK, Chain
  <2>2. height \in DOMAIN chain /\ height \in Nat
    BY <2>1 DEF Chain
  <2>3. key \notin KeysAbove(chain, height - 1)
    BY <1>3 DEF Pending
  <2>4. key \notin KeysOf(blk)
    BY <2>1, <2>2, <2>3, KeysAboveIn
  <2>. QED
    BY <2>4, KeysOfNamed
<1>4. CASE task = "replay"
  <2>1. /\ blk = disk[height] /\ disk \in Chain /\ height \in 1 .. Len(disk) /\ Len(disk) \in Nat
        /\ height > Fork(disk, diskNew) /\ KeysAbove(disk, Fork(disk, diskNew)) \subseteq stray
    BY <1>4 DEF DiskInv, WorkTypeOK, Chain
  <2>2. height \in DOMAIN disk
    BY <2>1 DEF Chain
  <2>3. Fork(disk, diskNew) \in Nat
    BY ForkNat DEF WorkTypeOK
  <2>4. key \notin KeysOf(blk)
    BY <2>1, <2>2, <2>3, KeysAboveIn
  <2>. QED
    BY <2>4, KeysOfNamed
<1>. QED
  BY <1>1, <1>2, <1>3, <1>4 DEF Connecting, Disconnecting

\* What may be pending is what a failure or a crash puts down as disturbed.
LEMMA PendingCovered ==
    ASSUME WorkTypeOK, DiskInv
    PROVE  Pending \subseteq KeysOf(blk) \cup UndoneKeys
<1>1. CASE task \in {"connect", "check", "disconnect"}
  <2>1. KeysSet(blk) \subseteq KeysOf(blk)
    BY DEF KeysSet, KeysOf, ActivePlaces
  <2>. QED
    BY <1>1, <2>1 DEF Pending
<1>2. CASE task \in {"verifyDown", "verifyUp"}
  <2>1. blk = chain[height] /\ chain \in Chain /\ height \in 1 .. Len(chain) /\ Len(chain) \in Nat
    BY <1>2 DEF DiskInv, WorkTypeOK, Chain
  <2>2. height \in DOMAIN chain /\ height \in Nat
    BY <2>1 DEF Chain
  <2>3. KeysAbove(chain, height - 1) = KeysOf(blk) \cup KeysAbove(chain, height)
    BY <2>1, <2>2, KeysAboveIn
  <2>. QED
    BY <1>2, <2>3 DEF Pending, UndoneKeys
<1>3. CASE task \notin {"connect", "check", "disconnect", "verifyDown", "verifyUp"}
  BY <1>3 DEF Pending
<1>. QED
  BY <1>1, <1>2, <1>3

LEMMA ListsConnectOutput ==
    ASSUME GovTypeOK, WorkTypeOK, LoopsOK, DiskInv, NEW key \in ListKey,
           Settled(key), LastConnected(key), ConnectOutput
    PROVE  Settled(key)' /\ LastConnected(key)' /\ LastLeft(key)'
<1>. DEFINE here == <<tx, out + 1>>
            op == OutputAt(blk, here)
<1>1. /\ task \in Connecting /\ task # "disconnect" /\ tx \in DOMAIN blk
      /\ out < Len(blk[tx].vout) /\ out' = out + 1
      /\ UNCHANGED <<chain, task, blk, height, tx, stray>>
  BY DEF ConnectOutput, Connecting, chainVars
<1>2. blk \in Block
  BY <1>1, WorkHeight
<1>3. /\ here \in Places(blk) /\ op = blk[tx].vout[out + 1]
      /\ Passed' = Passed \cup {here} /\ here \notin Passed
      /\ \A p \in Passed : Before(p, here)
  BY <1>1, <1>2, NextPlace DEF NextIs
<1>4. op \in GovernanceOutput /\ here[1] = tx
  BY <1>2, <1>3, PlaceShape
<1>5. here \in ActivePlaces(blk) <=> Obeyed(op) /\ ~blk[tx].coinstake
  BY <1>3, <1>4 DEF ActivePlaces, ObeyedPlaces
<1>6. here \in About(blk, key) <=> here \in ActivePlaces(blk) /\ Key(op) = key
  BY DEF About
<1>7. IF here \in ActivePlaces(blk) THEN Call(op, height) ELSE UNCHANGED govVars
  BY <1>3, <1>5 DEF ConnectOutput
<1>8. Entry(key)' = IF here \in About(blk, key) THEN Verdict(op) ELSE Entry(key)
  <2>1. CASE here \in ActivePlaces(blk)
    <3>1. Call(op, height)
      BY <1>7, <2>1
    <3>. HIDE DEF op, here
    <3>. QED
      BY <1>4, <1>6, <2>1, <3>1, CallList
  <2>2. CASE here \notin ActivePlaces(blk)
    BY <1>6, <1>7, <2>2 DEF govVars, Entry
  <2>. QED
    BY <2>1, <2>2
<1>9. Settled(key)'
  <2>1. Pending' = Pending
    BY <1>1 DEF Pending
  <2>. SUFFICES ASSUME key \notin stray \cup Pending PROVE Agrees(Entry(key)', key, chain)
    BY <1>1, <2>1 DEF Settled
  <2>2. About(blk, key) = {}
    BY <1>1, NotPending
  <2>. QED
    BY <1>8, <2>2 DEF Settled
<1>10. LastConnected(key)'
  <2>. SUFFICES ASSUME About(blk, key) \cap Passed' # {}
                PROVE  \E p \in About(blk, key) \cap Passed' :
                          /\ Entry(key)' = Verdict(OutputAt(blk, p))
                          /\ \A q \in About(blk, key) \cap Passed' : ~Before(p, q)
    BY <1>1 DEF LastConnected
  <2>1. CASE here \in About(blk, key)
    <3>1. \A q \in About(blk, key) \cap Passed' : ~Before(here, q)
      <4>1. About(blk, key) \subseteq Places(blk)
        BY PlaceSubsets
      <4>. QED
        BY <1>2, <1>3, <4>1, PlaceOrder DEF PlacesOrdered
    <3>. QED
      BY <1>3, <1>8, <2>1, <3>1
  <2>2. CASE here \notin About(blk, key)
    <3>1. About(blk, key) \cap Passed' = About(blk, key) \cap Passed
      BY <1>3, <2>2
    <3>. QED
      BY <1>1, <1>8, <2>2, <3>1 DEF LastConnected
  <2>. QED
    BY <2>1, <2>2
<1>11. LastLeft(key)'
  BY <1>1 DEF LastLeft
<1>. QED
  BY <1>9, <1>10, <1>11

\* DisconnectTip undoes an output: of those left about the entry it is the
\* last, since no transaction has two, and undoing it brings the entry back to
\* what the one before it said.
LEMMA UndoLast ==
    ASSUME NEW b \in Block, NEW key \in ListKey, NEW c, Reverts(c, b, key),
           NEW left \in SUBSET Named(b, key), NEW p \in left,
           \A q \in Named(b, key) : q[1] < p[1] <=> q \in left \ {p},
           NEW e, e = IF Lists(OutputAt(b, p)) THEN "unlisted" ELSE "listed"
    PROVE  /\ \A q \in left : ~Before(p, q)
           /\ left = {p} => (e = "listed" <=> Says(c, key)) /\ e # "unknown"
           /\ \A q \in left \ {p} : (\A r \in left \ {p} : ~Before(q, r)) =>
                 e = Verdict(OutputAt(b, q))
<1>. DEFINE named == Named(b, key)
<1>0. named \subseteq Places(b)
  BY PlaceSubsets
<1>1. \A q \in named : q[1] \in Int /\ q[2] \in Int
  <2>1. Len(b) \in Nat /\ \A i \in 1 .. Len(b) : Len(b[i].vout) \in Nat
    BY BlockShape
  <2>. QED
    BY <1>0, <2>1, PlaceShape
<1>2. /\ \A q, r \in named : q[1] = r[1] => q = r
      /\ \A q \in named : (\A r \in named : ~Before(r, q)) => Lists(OutputAt(b, q)) # Says(c, key)
      /\ \A q, r \in named : Before(r, q) /\ (\A s \in named : ~(Before(r, s) /\ Before(s, q)))
            => Lists(OutputAt(b, q)) # Lists(OutputAt(b, r))
  BY DEF Reverts
<1>3. \A q \in named : Before(q, p) <=> q \in left \ {p}
  BY <1>1, <1>2 DEF Before
<1>4. \A q \in left : ~Before(p, q)
  BY <1>0, <1>3, PlaceOrder DEF PlacesOrdered
<1>5. Says(c, key) \in BOOLEAN /\ \A q : Lists(OutputAt(b, q)) \in BOOLEAN
  <2>1. AtInit(key) \in BOOLEAN
    BY DEF AtInit
  <2>2. \A q : Lists(OutputAt(b, q)) \in BOOLEAN
    BY DEF Lists
  <2>3. Says(c, key) \in BOOLEAN
    BY <2>1, Zenon DEF Says
  <2>. QED
    BY <2>2, <2>3
<1>6. left = {p} => (e = "listed" <=> Says(c, key)) /\ e # "unknown"
  <2>1. left = {p} => Lists(OutputAt(b, p)) # Says(c, key)
    BY <1>2, <1>3
  <2>. QED
    BY <1>5, <2>1
<1>7. ASSUME NEW q \in left \ {p}, \A r \in left \ {p} : ~Before(q, r)
      PROVE  e = Verdict(OutputAt(b, q))
  <2>1. \A s \in named : ~(Before(q, s) /\ Before(s, p))
    BY <1>3, <1>7
  <2>2. Lists(OutputAt(b, p)) # Lists(OutputAt(b, q))
    BY <1>2, <1>3, <2>1
  <2>. QED
    BY <1>5, <2>2 DEF Verdict
<1>. QED
  BY <1>4, <1>6, <1>7

LEMMA ListsDisconnectOutput ==
    ASSUME GovTypeOK, WorkTypeOK, LoopsOK, DiskInv, NEW key \in ListKey,
           Settled(key), LastLeft(key), DisconnectOutput
    PROVE  Settled(key)' /\ LastConnected(key)' /\ LastLeft(key)'
<1>. DEFINE here == <<tx, out + 1>>
            op == OutputAt(blk, here)
<1>1. /\ task \in Disconnecting /\ task \notin Connecting /\ tx \in DOMAIN blk
      /\ out < Len(blk[tx].vout) /\ out' = out + 1
      /\ UNCHANGED <<chain, task, blk, height, tx, stray>>
  BY DEF DisconnectOutput, Connecting, Disconnecting, chainVars
<1>2. blk \in Block
  BY <1>1, WorkHeight
<1>3. /\ here \in Places(blk) /\ op = blk[tx].vout[out + 1]
      /\ Undone' = Undone \cup {here} /\ here \notin Undone
      /\ \A p \in Places(blk) \ Undone : p[1] < tx \/ (p[1] = tx /\ p[2] > out)
      /\ \A p \in Places(blk) : p[1] < tx => p \notin Undone'
  BY <1>1, <1>2, NextPlace DEF NextIs
<1>4. op \in GovernanceOutput /\ here[1] = tx /\ tx \in Int
  BY <1>2, <1>3, PlaceShape DEF WorkTypeOK
<1>5. here \in Named(blk, key) <=> Obeyed(op) /\ Key(op) = key
  BY <1>3 DEF Named, ObeyedPlaces
<1>6. IF Obeyed(op) THEN RevertCall(op, height) ELSE UNCHANGED govVars
  BY <1>3 DEF DisconnectOutput
<1>7. /\ here \notin Named(blk, key) => Entry(key)' = Entry(key)
      /\ here \in Named(blk, key) /\ Entry(key) = Verdict(op) =>
            Entry(key)' = IF Lists(op) THEN "unlisted" ELSE "listed"
  <2>1. CASE Obeyed(op)
    <3>1. RevertCall(op, height)
      BY <1>6, <2>1
    <3>. HIDE DEF op, here
    <3>. QED
      BY <1>4, <1>5, <2>1, <3>1, RevertList
  <2>2. CASE ~Obeyed(op)
    BY <1>5, <1>6, <2>2 DEF govVars, Entry
  <2>. QED
    BY <2>1, <2>2
<1>8. Settled(key)'
  <2>1. Pending' = Pending
    BY <1>1 DEF Pending
  <2>. SUFFICES ASSUME key \notin stray \cup Pending PROVE Agrees(Entry(key)', key, chain)
    BY <1>1, <2>1 DEF Settled
  <2>2. Named(blk, key) = {}
    BY <1>1, NotPending
  <2>. QED
    BY <1>7, <2>2 DEF Settled
<1>9. LastConnected(key)'
  BY <1>1 DEF LastConnected
<1>10. LastLeft(key)'
  <2>. DEFINE left == Named(blk, key) \ Undone
  <2>. SUFFICES ASSUME task = "disconnect", key \in KeysOf(blk) \ stray,
                       Reverts(pprev(chain), blk, key)
                PROVE  /\ left \ {here} = {} => Agrees(Entry(key)', key, pprev(chain))
                       /\ \A p \in left \ {here} : (\A q \in left \ {here} : ~Before(p, q)) =>
                             Entry(key)' = Verdict(OutputAt(blk, p))
    <3>1. Named(blk, key) \ Undone' = left \ {here}
      BY <1>3
    <3>. QED
      BY <1>1, <3>1 DEF LastLeft
  <2>1. /\ left = {} => Agrees(Entry(key), key, pprev(chain))
        /\ \A p \in left : (\A q \in left : ~Before(p, q)) => Entry(key) = Verdict(OutputAt(blk, p))
    BY DEF LastLeft
  <2>2. CASE here \notin Named(blk, key)
    <3>1. left \ {here} = left
      BY <2>2
    <3>. QED
      BY <1>7, <2>1, <2>2, <3>1
  <2>3. CASE here \in Named(blk, key)
    <3>1. here \in left /\ left \in SUBSET Named(blk, key) /\ Named(blk, key) \subseteq Places(blk)
      BY <1>3, <2>3, PlaceSubsets
    <3>2. \A q \in Named(blk, key) : q[1] = tx => q = here
      BY <1>4, <2>3 DEF Reverts
    <3>3. \A q \in Named(blk, key) : q[1] < here[1] <=> q \in left \ {here}
      <4>1. \A q \in Named(blk, key) : q[1] < tx => q \notin Undone /\ q # here
        BY <1>3, <1>4, <3>1
      <4>2. \A q \in left \ {here} : q[1] < tx
        BY <1>3, <3>1, <3>2
      <4>. QED
        BY <1>4, <4>1, <4>2
    <3>4. PICK e : e = IF Lists(op) THEN "unlisted" ELSE "listed"
      OBVIOUS
    <3>5. PICK c : c = pprev(chain)
      OBVIOUS
    <3>6. PICK L : L = left
      BY Zenon
    <3>7. PICK p : p = here
      BY ZenonT(30)
    <3>8. /\ Reverts(c, blk, key) /\ L \in SUBSET Named(blk, key) /\ p \in L
          /\ \A q \in Named(blk, key) : q[1] < p[1] <=> q \in L \ {p}
          /\ e = IF Lists(OutputAt(blk, p)) THEN "unlisted" ELSE "listed"
      BY <3>1, <3>3, <3>4, <3>5, <3>6, <3>7
    <3>9. /\ \A q \in L : ~Before(p, q)
          /\ L = {p} => (e = "listed" <=> Says(c, key)) /\ e # "unknown"
          /\ \A q \in L \ {p} : (\A r \in L \ {p} : ~Before(q, r)) => e = Verdict(OutputAt(blk, q))
      BY <1>2, <3>8, UndoLast
    <3>10. Entry(key)' = e
      BY <1>7, <2>1, <2>3, <3>1, <3>4, <3>6, <3>7, <3>9, ZenonT(30)
    <3>11. left \ {here} = {} => Agrees(e, key, c)
      <4>1. left \ {here} = {} => L = {p}
        BY <3>1, <3>6, <3>7
      <4>. QED
        BY <3>9, <4>1 DEF Agrees
    <3>. QED
      BY <3>5, <3>6, <3>7, <3>9, <3>10, <3>11
  <2>. QED
    BY <2>2, <2>3
<1>. QED
  BY <1>8, <1>9, <1>10

\* A block just taken up has connected nothing; only DisconnectTip starts to
\* disconnect the tip.
LEMMA ListsWork ==
    ASSUME NEW key \in ListKey, TakesUp \/ PutsDown
    PROVE  LastConnected(key)' /\ (task' # "disconnect" => LastLeft(key)')
<1>1. ASSUME NEW what \in Connecting \cup Disconnecting, NEW b \in Block, NEW h \in Height,
             Begin(what, b, h)
      PROVE  LastConnected(key)'
  <2>1. task' = what /\ (what \in Connecting => Passed' = {})
    BY <1>1, BeginPlaces DEF Begin
  <2>. QED
    BY <2>1 DEF LastConnected
<1>2. ASSUME NEW what \in {"idle", "down", "flush"}, Rest(what)
      PROVE  LastConnected(key)'
  BY <1>2 DEF LastConnected, Rest, Connecting
<1>3. task' # "disconnect" => LastLeft(key)'
  BY DEF LastLeft
<1>. QED
  BY <1>1, <1>2, <1>3 DEF TakesUp, PutsDown

\* A chain is its last block on top of the chain below it.
LEMMA ChainTop ==
    ASSUME NEW c \in Chain, c # <<>>
    PROVE  /\ pprev(c) \in Chain /\ Len(c) \in DOMAIN c /\ DOMAIN pprev(c) = 1 .. Len(c) - 1
           /\ \A i \in DOMAIN c : i \in DOMAIN pprev(c) \/ i = Len(c)
           /\ \A i \in DOMAIN pprev(c) : i \in DOMAIN c /\ i < Len(c) /\ pprev(c)[i] = c[i]
<1>1. c \in Seq(Block) /\ Len(c) \in Nat /\ Len(c) > 0 /\ DOMAIN c = 1 .. Len(c)
  BY DEF Chain
<1>2. DOMAIN pprev(c) = 1 .. Len(c) - 1 /\ \A i \in 1 .. Len(c) - 1 : pprev(c)[i] = c[i]
  BY <1>1 DEF pprev
<1>. QED
  BY <1>1, <1>2, PrevChain

\* DisconnectTip starts from an entry that agrees with the chain.
LEMMA ListsDisconnectTip ==
    ASSUME GovTypeOK, WorkTypeOK, NEW key \in ListKey, Settled(key), DisconnectTip
    PROVE  LastLeft(key)'
<1>1. /\ task = "idle" /\ chain # <<>> /\ Begin("disconnect", chain[Len(chain)], Len(chain))
      /\ UNCHANGED <<chain, stray, freeze, authority>> /\ chain \in Chain
      /\ task' = "disconnect" /\ blk' = chain[Len(chain)]
  BY DEF DisconnectTip, chainVars, ghostVars, govVars, WorkTypeOK, Begin
<1>2. PICK b \in Block : b = chain[Len(chain)]
  BY <1>1, PrevChain
<1>3. Undone' = {}
  BY <1>1, <1>2, BeginPlaces, ZenonT(30) DEF Disconnecting
<1>4. Entry(key)' = Entry(key)
  BY <1>1 DEF Entry
<1>. SUFFICES ASSUME key \in KeysOf(b) \ stray, Reverts(pprev(chain), b, key)
              PROVE  /\ Named(b, key) # {}
                     /\ \A p \in Named(b, key) : (\A q \in Named(b, key) : ~Before(p, q)) =>
                           Entry(key) = Verdict(OutputAt(b, p))
  BY <1>1, <1>2, <1>3, <1>4 DEF LastLeft
<1>5. Named(b, key) # {}
  BY KeysOfNamed
<1>6. About(b, key) = Named(b, key)
  BY Zenon DEF About, Named, ActivePlaces, Reverts
<1>7. Agrees(Entry(key), key, chain)
  BY <1>1 DEF Settled, Pending
<1>8. Len(chain) \in DOMAIN chain /\ \A g \in DOMAIN chain : ~(g > Len(chain))
  BY <1>1 DEF Chain
<1>9. Says(chain, key) <=> BlockSays(b, key)
  BY <1>1, <1>2, <1>5, <1>6, <1>8, SaysLast
<1>10. ASSUME NEW p \in Named(b, key), \A q \in Named(b, key) : ~Before(p, q)
       PROVE  Entry(key) = Verdict(OutputAt(b, p))
  <2>1. Named(b, key) \subseteq Places(b)
    BY PlaceSubsets
  <2>2. \A q \in Named(b, key) : (\A r \in Named(b, key) : ~Before(q, r)) => q = p
    BY <1>2, <1>10, <2>1, PlaceOrder DEF PlacesOrdered
  <2>3. BlockSays(b, key) <=> Lists(OutputAt(b, p))
    BY <1>6, <1>10, <2>2 DEF BlockSays
  <2>4. Entry(key) # "unknown"
    BY <1>2, <1>5, <1>6, <1>7, <1>8 DEF Agrees
  <2>5. Entry(key) = "listed" <=> Lists(OutputAt(b, p))
    BY <1>7, <1>9, <2>3 DEF Agrees
  <2>. QED
    BY <2>4, <2>5, EntryType DEF Verdict, Listing
<1>. QED
  BY <1>5, <1>10

\* A connected block settles the entries it sets and leaves the others as they
\* were.
LEMMA SettledConnected ==
    ASSUME WorkTypeOK, LoopsOK, DiskInv, NEW key \in ListKey, Settled(key), LastConnected(key),
           ConnectTipDone
    PROVE  Settled(key)'
<1>1. /\ task = "connect" /\ BlockDone /\ chain' = Append(chain, blk) /\ chain \in Chain
      /\ stray' = stray \ KeysSet(blk) /\ task' = "idle" /\ UNCHANGED <<freeze, authority>>
      /\ blk \in Block /\ Len(chain) < MaxHeight
  BY DEF ConnectTipDone, WorkTypeOK, Rest, govVars, Connecting
<1>2. PICK c \in Chain : c = Append(chain, blk)
  BY <1>1, AppendChain, Zenon
<1>3. /\ DOMAIN chain = 1 .. Len(chain) /\ Len(chain) \in Nat /\ DOMAIN c = 1 .. Len(chain) + 1
      /\ c[Len(chain) + 1] = blk /\ \A i \in DOMAIN chain : c[i] = chain[i]
  <2>1. chain \in Seq(Block) /\ Len(chain) \in Nat /\ DOMAIN chain = 1 .. Len(chain)
    BY <1>1 DEF Chain
  <2>2. Len(c) = Len(chain) + 1 /\ DOMAIN c = 1 .. Len(c)
    BY <1>1, <1>2, <2>1
  <2>3. c[Len(chain) + 1] = blk
    BY <1>1, <1>2, <2>1
  <2>4. \A i \in DOMAIN chain : c[i] = chain[i]
    BY <1>1, <1>2, <2>1
  <2>. QED
    BY <2>1, <2>2, <2>3, <2>4
<1>4. Entry(key)' = Entry(key)
  BY <1>1 DEF Entry
<1>. SUFFICES ASSUME key \notin stray \ KeysSet(blk) PROVE Agrees(Entry(key), key, c)
  BY <1>1, <1>2, <1>4 DEF Settled, Pending
<1>5. CASE key \in KeysSet(blk)
  <2>1. Passed = Places(blk)
    BY <1>1, DonePlaces DEF Connecting
  <2>2. About(blk, key) \cap Passed = About(blk, key) /\ About(blk, key) # {}
    BY <1>5, <2>1, PlaceSubsets, KeysOfNamed
  <2>3. PICK p \in About(blk, key) : /\ Entry(key) = Verdict(OutputAt(blk, p))
                                     /\ \A q \in About(blk, key) : ~Before(p, q)
    BY <1>1, <2>2 DEF LastConnected, Connecting
  <2>4. PICK h \in DOMAIN c : h = Len(chain) + 1
    BY <1>3
  <2>5. c[h] = blk
    BY <1>3, <2>4
  <2>6. \A g \in DOMAIN c : ~(g > h)
    BY <1>3, <2>4
  <2>. QED
    BY <2>3, <2>5, <2>6, AgreesLast
<1>6. CASE key \notin KeysSet(blk)
  <2>1. About(blk, key) = {}
    BY <1>6, KeysOfNamed
  <2>2. Agrees(Entry(key), key, chain)
    BY <1>1, <1>6 DEF Settled, Pending
  <2>3. \A h \in DOMAIN c : h \in DOMAIN chain \/ c[h] = blk
    BY <1>3
  <2>4. \A h \in DOMAIN chain : h \in DOMAIN c /\ c[h] = chain[h]
    BY <1>3
  <2>. QED
    BY <1>1, <2>1, <2>2, <2>3, <2>4, AgreesSame DEF SameAbout
<1>. QED
  BY <1>5, <1>6

\* A disconnected tip takes the entries back to the chain below it, but for
\* those it could not revert.
LEMMA SettledDisconnected ==
    ASSUME WorkTypeOK, LoopsOK, DiskInv, NEW key \in ListKey, Settled(key), LastLeft(key),
           DisconnectTipDone
    PROVE  Settled(key)'
<1>1. /\ task = "disconnect" /\ BlockDone /\ chain' = pprev(chain) /\ chain \in Chain
      /\ stray' = stray \cup {k \in KeysOf(blk) : ~Reverts(pprev(chain), blk, k)}
      /\ task' = "idle" /\ UNCHANGED <<freeze, authority>>
      /\ chain # <<>> /\ blk = chain[Len(chain)]
  BY DEF DisconnectTipDone, WorkTypeOK, Rest, govVars, DiskInv
<1>2. Entry(key)' = Entry(key)
  BY <1>1 DEF Entry
<1>3. PICK c \in Chain : c = pprev(chain)
  BY <1>1, PrevChain
<1>. SUFFICES ASSUME key \notin stray, key \in KeysOf(blk) => Reverts(c, blk, key)
              PROVE  Agrees(Entry(key), key, c)
  BY <1>1, <1>2, <1>3 DEF Settled, Pending
<1>4. CASE key \in KeysOf(blk)
  <2>1. Undone = Places(blk)
    BY <1>1, DonePlaces DEF Disconnecting
  <2>2. Named(blk, key) \ Undone = {}
    BY <2>1, PlaceSubsets
  <2>. QED
    BY <1>1, <1>3, <1>4, <2>2 DEF LastLeft
<1>5. CASE key \notin KeysOf(blk)
  <2>1. About(blk, key) = {}
    BY <1>5, KeysOfNamed
  <2>2. Agrees(Entry(key), key, chain)
    BY <1>1, <1>5 DEF Settled, Pending
  <2>3. \A h \in DOMAIN chain : About(chain[h], key) # {} => h \in DOMAIN c /\ c[h] = chain[h]
    BY <1>1, <1>3, <2>1, ChainTop
  <2>4. \A h \in DOMAIN c : h \in DOMAIN chain /\ c[h] = chain[h]
    BY <1>1, <1>3, ChainTop
  <2>. QED
    BY <1>1, <2>2, <2>3, <2>4, AgreesSame DEF SameAbout
<1>. QED
  BY <1>4, <1>5

\* VerifyDB connects a block again: what it sets is settled, unless a block
\* above it is still to be connected.
LEMMA SettledReconnected ==
    ASSUME WorkTypeOK, LoopsOK, DiskInv, NEW key \in ListKey, Settled(key), LastConnected(key),
           VerifyReconnected
    PROVE  Settled(key)'
<1>1. /\ task = "verifyUp" /\ BlockDone /\ chain' = chain /\ chain \in Chain
      /\ stray' = (stray \cup KeysOf(blk)) \ KeysSet(blk) /\ UNCHANGED <<freeze, authority>>
      /\ blk = chain[height] /\ height \in 1 .. Len(chain)
  BY DEF VerifyReconnected, WorkTypeOK, chainVars, govVars, DiskInv
<1>2. Entry(key)' = Entry(key)
  BY <1>1 DEF Entry
<1>3. Len(chain) \in Nat /\ DOMAIN chain = 1 .. Len(chain) /\ height \in DOMAIN chain /\ height \in Nat
  BY <1>1 DEF Chain
<1>4. Pending' = KeysAbove(chain, height)
  <2>1. CASE height < Len(chain)
    <3>1. task' = "verifyUp" /\ height' = height + 1
      BY <2>1 DEF VerifyReconnected, Begin
    <3>2. (height + 1) - 1 = height
      BY <1>3
    <3>3. Pending' = KeysAbove(chain, height' - 1)
      BY <1>1, <3>1 DEF Pending
    <3>. QED
      BY <3>1, <3>2, <3>3
  <2>2. CASE ~(height < Len(chain))
    <3>1. task' = "idle"
      BY <2>2 DEF VerifyReconnected, Rest
    <3>2. KeysAbove(chain, height) = {}
      BY <1>1, <1>3, <2>2, KeysAboveIn
    <3>. QED
      BY <3>1, <3>2 DEF Pending
  <2>. QED
    BY <2>1, <2>2
<1>. SUFFICES ASSUME key \notin (stray \cup KeysOf(blk)) \ KeysSet(blk), key \notin KeysAbove(chain, height)
              PROVE  Agrees(Entry(key), key, chain)
  BY <1>1, <1>2, <1>4 DEF Settled
<1>5. CASE key \in KeysSet(blk)
  <2>1. Passed = Places(blk)
    BY <1>1, DonePlaces DEF Connecting
  <2>2. About(blk, key) \cap Passed = About(blk, key) /\ About(blk, key) # {}
    BY <1>5, <2>1, PlaceSubsets, KeysOfNamed
  <2>3. PICK p \in About(blk, key) : /\ Entry(key) = Verdict(OutputAt(blk, p))
                                     /\ \A q \in About(blk, key) : ~Before(p, q)
    BY <1>1, <2>2 DEF LastConnected, Connecting
  <2>4. \A g \in DOMAIN chain : g > height => key \notin KeysOf(chain[g])
    BY <1>1, <1>3, KeysAboveIn
  <2>5. \A g \in DOMAIN chain : g > height => About(chain[g], key) = {}
    BY <2>4, KeysOfNamed
  <2>. QED
    BY <1>1, <1>3, <2>3, <2>5, AgreesLast
<1>6. CASE key \notin KeysSet(blk)
  <2>1. key \notin stray \cup KeysOf(blk) \cup KeysAbove(chain, height)
    BY <1>6
  <2>2. Pending = KeysOf(blk) \cup KeysAbove(chain, height)
    BY <1>1, <1>3, KeysAboveIn DEF Pending
  <2>. QED
    BY <2>1, <2>2 DEF Settled
<1>. QED
  BY <1>5, <1>6

\* Going over to a chain d leaves an entry settled that no block above the
\* fork is about.
LEMMA AgreesAcrossFork ==
    ASSUME NEW c \in Chain, NEW d \in Chain, NEW key \in ListKey,
           key \notin KeysAbove(c, Fork(c, d)), key \notin KeysAbove(d, Fork(c, d)),
           NEW e, Agrees(e, key, d)
    PROVE  Agrees(e, key, c)
<1>1. Fork(c, d) \in Nat
  BY ForkNat
<1>2. Len(c) \in Nat /\ DOMAIN c = 1 .. Len(c) /\ Len(d) \in Nat /\ DOMAIN d = 1 .. Len(d)
  BY DEF Chain
<1>3. \A h \in DOMAIN c : h > Fork(c, d) => key \notin KeysOf(c[h])
  BY <1>1, KeysAboveIn
<1>4. \A h \in DOMAIN d : h > Fork(c, d) => key \notin KeysOf(d[h])
  BY <1>1, KeysAboveIn
<1>5. \A h \in DOMAIN c : About(c[h], key) # {} => h \in 1 .. Fork(c, d)
  BY <1>1, <1>2, <1>3, KeysOfNamed
<1>6. \A h \in DOMAIN d : About(d[h], key) # {} => h \in 1 .. Fork(c, d)
  BY <1>1, <1>2, <1>4, KeysOfNamed
<1>7. \A h \in 1 .. Fork(c, d) : h \in DOMAIN c /\ h \in DOMAIN d /\ c[h] = d[h]
  BY <1>1, <1>2, ForkCommon
<1>. QED
  BY <1>5, <1>6, <1>7, AgreesSame DEF SameAbout

LEMMA SettledCrash ==
    ASSUME WorkTypeOK, DiskInv, NEW key \in ListKey, Settled(key), Crash
    PROVE  Settled(key)'
<1>. DEFINE d == Fork(disk, chain)
<1>1. /\ chain' = diskNew /\ task' = "down" /\ UNCHANGED <<freeze, authority>> /\ task # "down"
      /\ stray' = stray \cup KeysOf(blk) \cup UndoneKeys \cup KeysAbove(disk, d)
                    \cup (IF disk = diskNew THEN KeysAbove(chain, d) ELSE {})
      /\ chain \in Chain /\ disk \in Chain
  BY DEF Crash, Rest, govVars, WorkTypeOK
<1>2. Entry(key)' = Entry(key)
  BY <1>1, Zenon DEF Entry
<1>. SUFFICES ASSUME key \notin stray' PROVE Agrees(Entry(key), key, diskNew)
  BY <1>1, <1>2 DEF Settled
<1>3. Agrees(Entry(key), key, chain)
  BY <1>1, PendingCovered DEF Settled
<1>4. CASE task \in {"flush", "replay"}
  BY <1>3, <1>4 DEF DiskInv
<1>5. CASE task \notin {"flush", "replay"}
  <2>1. disk = diskNew
    BY <1>1, <1>5 DEF DiskInv
  <2>2. key \notin KeysAbove(disk, d) /\ key \notin KeysAbove(chain, d)
    BY <1>1, <2>1
  <2>. QED
    BY <1>1, <1>3, <2>1, <2>2, AgreesAcrossFork
<1>. QED
  BY <1>4, <1>5

\* An empty chain says what Init writes.
LEMMA AgreesAtInit ==
    ASSUME freeze = FreezeAtInit, authority = AuthorityAtInit, NEW key \in ListKey
    PROVE  Agrees(Entry(key), key, <<>>)
<1>1. Says(<<>>, key) <=> AtInit(key)
  BY DEF Says
<1>2. PICK s \in Script : key \in {<<"freeze", s>>, <<"authority", s>>}
  BY DEF ListKey
<1>3. Entry(key) = "listed" <=> AtInit(key)
  BY <1>2 DEF Entry, AtInit, FreezeAtInit, AuthorityAtInit
<1>. QED
  BY <1>1, <1>3 DEF Agrees

\* A step that changes neither the lists nor the chain, and puts every entry
\* that was pending down as disturbed or keeps it pending.
LEMMA SettledKept ==
    ASSUME NEW key \in ListKey, Settled(key), UNCHANGED <<freeze, authority, chain>>,
           stray \cup Pending \subseteq stray' \cup Pending'
    PROVE  Settled(key)'
<1>1. Entry(key)' = Entry(key)
  BY DEF Entry
<1>. SUFFICES ASSUME key \notin stray' \cup Pending' PROVE Agrees(Entry(key), key, chain)
  BY <1>1 DEF Settled
<1>. QED
  BY DEF Settled

LEMMA SettledStep ==
    ASSUME WorkTypeOK, LoopsOK, DiskInv, NEW key \in ListKey,
           Settled(key), LastConnected(key), LastLeft(key), Next,
           ~NextTx, ~ConnectOutput, ~DisconnectOutput
    PROVE  Settled(key)'
<1>1. ASSUME NEW b \in Block, ConnectTip(b) \/ TestBlockValidity(b) PROVE Settled(key)'
  <2>1. UNCHANGED <<freeze, authority, chain, stray>> /\ Pending = {}
    BY <1>1 DEF ConnectTip, TestBlockValidity, govVars, chainVars, ghostVars, Pending
  <2>. QED
    BY <2>1, SettledKept
<1>2. CASE Fail \/ TestBlockValidityDone
  <2>1. UNCHANGED <<freeze, authority, chain>>
    BY <1>2 DEF Fail, TestBlockValidityDone, govVars, chainVars
  <2>2. UndoneKeys \subseteq stray' \/ task = "check"
    BY <1>2 DEF Fail, TestBlockValidityDone
  <2>3. task = "check" => UndoneKeys = {}
    BY DEF UndoneKeys
  <2>4. stray \cup KeysOf(blk) \subseteq stray'
    BY <1>2 DEF Fail, TestBlockValidityDone
  <2>. QED
    BY <2>1, <2>2, <2>3, <2>4, PendingCovered, SettledKept
<1>3. CASE DisconnectTip \/ VerifyDB
  <2>1. UNCHANGED <<freeze, authority, chain, stray>> /\ Pending = {}
    BY <1>3 DEF DisconnectTip, VerifyDB, govVars, chainVars, ghostVars, Pending
  <2>. QED
    BY <2>1, SettledKept
<1>4. CASE VerifyNext \/ VerifyTurn
  <2>1. /\ UNCHANGED <<freeze, authority, chain, stray>> /\ task = "verifyDown"
        /\ chain \in Chain /\ height \in 1 .. Len(chain) /\ Len(chain) \in Nat
    BY <1>4 DEF VerifyNext, VerifyTurn, govVars, chainVars, ghostVars, WorkTypeOK, Chain
  <2>2. Pending = KeysAbove(chain, height - 1)
    BY <2>1 DEF Pending
  <2>3. task' \in {"verifyDown", "verifyUp"} => Pending' = KeysAbove(chain, height' - 1)
    BY <2>1 DEF Pending
  <2>4. CASE VerifyTurn
    <3>1. task' = "verifyUp" /\ height' = height
      BY <2>4 DEF VerifyTurn, Begin
    <3>. QED
      BY <2>1, <2>2, <2>3, <3>1, SettledKept
  <2>5. CASE VerifyNext
    <3>1. task' = "verifyDown" /\ height' = height - 1 /\ height > 1
      BY <2>5 DEF VerifyNext, Begin
    <3>2. height - 1 \in Nat /\ height - 1 >= 1
      BY <2>1, <3>1
    <3>3. KeysAbove(chain, height - 1) \subseteq KeysAbove(chain, (height - 1) - 1)
      BY <2>1, <3>2, KeysAboveIn
    <3>. QED
      BY <2>1, <2>2, <2>3, <3>1, <3>3, SettledKept
  <2>. QED
    BY <1>4, <2>4, <2>5
<1>5. CASE VerifyStop
  <2>1. UNCHANGED <<freeze, authority, chain>> /\ stray' = stray \cup Pending
    BY <1>5 DEF VerifyStop, govVars, chainVars, Pending
  <2>. QED
    BY <2>1, SettledKept
<1>6. CASE FlushBegin \/ FlushEnd \/ Restart \/ ReplayNext
  <2>1. UNCHANGED <<freeze, authority, chain, stray>> /\ Pending = {}
    BY <1>6 DEF FlushBegin, FlushEnd, Restart, ReplayNext, govVars, ghostVars, Pending
  <2>. QED
    BY <2>1, SettledKept
<1>7. CASE Reindex
  <2>1. freeze' = FreezeAtInit /\ authority' = AuthorityAtInit /\ chain' = <<>>
    BY <1>7 DEF Reindex, Wipe, EmptyCoinsDB
  <2>2. Agrees(Entry(key)', key, <<>>)
    <3>1. Says(<<>>, key) <=> AtInit(key)
      BY DEF Says
    <3>2. PICK s \in Script : key \in {<<"freeze", s>>, <<"authority", s>>}
      BY DEF ListKey
    <3>3. Entry(key)' = "listed" <=> AtInit(key)
      BY <2>1, <3>2 DEF Entry, AtInit, FreezeAtInit, AuthorityAtInit
    <3>. QED
      BY <3>1, <3>3 DEF Agrees
  <2>. QED
    BY <2>1, <2>2 DEF Settled
<1>8. CASE ReindexChainState
  <2>1. /\ UNCHANGED <<freeze, authority>> /\ chain' = <<>> /\ task = "down"
        /\ stray' = stray \cup KeysAbove(chain, 0) /\ chain \in Chain
    BY <1>8 DEF ReindexChainState, EmptyCoinsDB, govVars, WorkTypeOK
  <2>2. Entry(key)' = Entry(key)
    BY <2>1 DEF Entry
  <2>. SUFFICES ASSUME key \notin stray, key \notin KeysAbove(chain, 0)
                PROVE  Agrees(Entry(key), key, <<>>)
    BY <2>1, <2>2 DEF Settled
  <2>3. \A h \in DOMAIN chain : key \notin KeysOf(chain[h])
    <3>1. \A h \in DOMAIN chain : h > 0
      BY <2>1 DEF Chain
    <3>. QED
      BY <2>1, <3>1, KeysAboveIn
  <2>4. \A h \in DOMAIN chain : About(chain[h], key) = {}
    BY <2>3, KeysOfNamed
  <2>5. Agrees(Entry(key), key, chain)
    BY <2>1 DEF Settled, Pending
  <2>6. PICK none \in Chain : none = <<>>
    BY EmptyChain
  <2>7. Agrees(Entry(key), key, none)
    BY <2>1, <2>4, <2>5, <2>6, AgreesSame DEF SameAbout
  <2>. QED
    BY <2>6, <2>7
<1>. QED
  BY <1>1, <1>2, <1>3, <1>4, <1>5, <1>6, <1>7, <1>8, SettledConnected, SettledDisconnected,
     SettledReconnected, SettledCrash DEF Next

LEMMA ListsStep ==
    ASSUME GovTypeOK, WorkTypeOK, LoopsOK, DiskInv, ListsInv, [Next]_vars
    PROVE  ListsInv'
<1>. SUFFICES ASSUME NEW key \in ListKey
              PROVE  Settled(key)' /\ LastConnected(key)' /\ LastLeft(key)'
  BY DEF ListsInv
<1>0. Settled(key) /\ LastConnected(key) /\ LastLeft(key)
  BY DEF ListsInv
<1>1. TakesUp \/ PutsDown \/ NextTx \/ ConnectOutput \/ DisconnectOutput \/ UNCHANGED vars
  BY WorkStep
<1>2. CASE ConnectOutput
  BY <1>0, <1>2, ListsConnectOutput
<1>3. CASE DisconnectOutput
  BY <1>0, <1>3, ListsDisconnectOutput
<1>4. ASSUME UNCHANGED <<govVars, chain, task, blk, height, stray>>,
             task \in Connecting => Passed' = Passed,
             task \in Disconnecting => Undone' = Undone
      PROVE  Settled(key)' /\ LastConnected(key)' /\ LastLeft(key)'
  <2>1. Entry(key)' = Entry(key) /\ Pending' = Pending
    BY <1>4 DEF Entry, Pending, govVars
  <2>2. Settled(key)'
    BY <1>0, <1>4, <2>1 DEF Settled
  <2>3. LastConnected(key)'
    BY <1>0, <1>4, <2>1 DEF LastConnected
  <2>4. LastLeft(key)'
    BY <1>0, <1>4, <2>1 DEF LastLeft, Disconnecting
  <2>. QED
    BY <2>2, <2>3, <2>4
<1>5. CASE NextTx
  <2>1. UNCHANGED <<govVars, chain, task, blk, height, stray>>
    BY <1>5 DEF NextTx, chainVars, ghostVars
  <2>2. CASE task \in Connecting \cup Disconnecting
    BY <1>4, <1>5, <2>1, <2>2, NextTxPlaces
  <2>3. CASE task \notin Connecting \cup Disconnecting
    BY <1>4, <2>1, <2>3
  <2>. QED
    BY <2>2, <2>3
<1>6. CASE UNCHANGED vars
  <2>1. UNCHANGED <<govVars, chain, task, blk, height, stray>> /\ Passed' = Passed /\ Undone' = Undone
    BY <1>6 DEF vars, chainVars, workVars, ghostVars, Passed, Undone
  <2>. QED
    BY <1>4, <2>1
<1>7. CASE Next /\ (TakesUp \/ PutsDown) /\ ~NextTx /\ ~ConnectOutput /\ ~DisconnectOutput
  <2>1. LastConnected(key)' /\ (task' # "disconnect" => LastLeft(key)')
    BY <1>7, ListsWork
  <2>2. Settled(key)'
    BY <1>0, <1>7, SettledStep
  <2>3. task' = "disconnect" => DisconnectTip
    <3>1. ASSUME NEW b \in Block, ConnectTip(b) \/ TestBlockValidity(b) PROVE task' # "disconnect"
      BY <3>1 DEF ConnectTip, TestBlockValidity, Begin
    <3>2. CASE Fail \/ ConnectTipDone \/ TestBlockValidityDone \/ DisconnectTipDone
      BY <3>2 DEF Fail, ConnectTipDone, TestBlockValidityDone, DisconnectTipDone, Rest
    <3>3. CASE VerifyDB \/ VerifyNext \/ VerifyStop \/ VerifyTurn \/ VerifyReconnected
      BY <3>3 DEF VerifyDB, VerifyNext, VerifyStop, VerifyTurn, VerifyReconnected, Begin, Rest
    <3>4. CASE FlushBegin \/ FlushEnd \/ Crash \/ Reindex \/ ReindexChainState
      BY <3>4, ZenonT(30) DEF FlushBegin, FlushEnd, Crash, Reindex, ReindexChainState, EmptyCoinsDB, Rest
    <3>5. CASE Restart \/ ReplayNext
      BY <3>5 DEF Restart, ReplayNext, Replayed, Begin, Rest
    <3>. QED
      BY <1>7, <3>1, <3>2, <3>3, <3>4, <3>5 DEF Next
  <2>. QED
    BY <1>0, <2>1, <2>2, <2>3, ListsDisconnectTip
<1>. QED
  BY <1>1, <1>2, <1>3, <1>5, <1>6, <1>7

\* The freeze list and the list of stakers follow the active chain: after any
\* mix of connects, disconnects, checks, failures, crashes, replays and runs of
\* VerifyDB, an entry that no such disturbance touched is what the last output
\* of the chain about it says.
THEOREM ListsAlwaysFollowChain == Spec => []ListsFollowChain
<1>1. Init => DiskInv
  BY DEF Init, DiskInv
<1>2. WorkTypeOK /\ DiskInv /\ [Next]_vars => DiskInv'
  BY DiskStep
<1>3. Init => ListsInv
  <2>. SUFFICES ASSUME Init PROVE ListsInv
    OBVIOUS
  <2>1. \A key \in ListKey : Agrees(Entry(key), key, chain)
    BY AgreesAtInit DEF Init, GovInit
  <2>2. task \notin Connecting /\ task # "disconnect"
    BY DEF Init, Connecting
  <2>. QED
    BY <2>1, <2>2 DEF ListsInv, Settled, LastConnected, LastLeft
<1>4. GovTypeOK /\ WorkTypeOK /\ LoopsOK /\ DiskInv /\ ListsInv /\ [Next]_vars => ListsInv'
  BY ListsStep
<1>5. TypeOK => GovTypeOK /\ WorkTypeOK
  BY DEF TypeOK
<1>6. ListsInv => ListsFollowChain
  <2>. SUFFICES ASSUME ListsInv, task = "idle", NEW s \in Script
                PROVE  /\ <<"freeze", s>> \notin stray => (s \in Frozen <=> Says(chain, <<"freeze", s>>))
                       /\ <<"authority", s>> \notin stray => (CanStake(s) <=> Says(chain, <<"authority", s>>))
    BY Zenon DEF ListsFollowChain
  <2>1. Pending = {}
    BY DEF Pending
  <2>2. \A key \in ListKey : key \notin stray => (Entry(key) = "listed" <=> Says(chain, key))
    BY <2>1 DEF ListsInv, Settled, Agrees
  <2>3. /\ <<"freeze", s>> \in ListKey /\ Entry(<<"freeze", s>>) = freeze[s]
        /\ <<"authority", s>> \in ListKey /\ Entry(<<"authority", s>>) = authority[s]
    BY DEF ListKey, Entry
  <2>. QED
    BY <2>2, <2>3 DEF Frozen, CanStake
<1>. QED
  BY <1>1, <1>2, <1>3, <1>4, <1>5, <1>6, ChainTypeCorrect, LoopsCorrect, PTL DEF Spec

=============================================================================
