---------------------------- MODULE TokensCache ----------------------------
(***************************************************************************)
(* The token state of the node: which tokens exist and with what data, the *)
(* verifier strings of restricted tokens, and the flags: addresses frozen  *)
(* for a token, tokens frozen globally, qualifiers given to addresses      *)
(* (src/src/tokens/tokens.cpp, CTokensCache, with src/src/coins.cpp,       *)
(* AddCoins, and src/src/validation.cpp, ConnectTip, DisconnectTip and     *)
(* FlushStateToDisk).                                                      *)
(*                                                                         *)
(* The state lives in three layers.  A block is connected or disconnected  *)
(* on a fresh cache (local), which Flush merges into the cache of the tip  *)
(* (ptokens), which DumpCacheToDatabase writes to the database from time   *)
(* to time.  Every cache holds a pair of containers per kind of entry: the *)
(* changes made by connected blocks and the changes undone.  In front of   *)
(* the database sit bounded LRU caches (lru).                              *)
(*                                                                         *)
(* A flag is a key: a kind, a token and an address, in one name.  The code *)
(* has three copies of its functions, one per kind of flag, which differ   *)
(* in the maps for sub-qualifiers only: Root gives the key of the root     *)
(* qualifier for the same address, None for every other flag.  A verifier  *)
(* to restore and a verifier to erase share a container: Gone is the mark  *)
(* of the second (fUndoingRessiue false).                                  *)
(***************************************************************************)
EXTENDS Integers, Sequences, SequencesExt, FiniteSets

CONSTANTS
    Key,         \* the flags
    Root,        \* the root qualifier of a sub-qualifier flag, else None
    Name,        \* token names
    Username,    \* those of them that are usernames
    Verifier,    \* verifier strings
    Data,        \* what is stored of a token: amount, reissuable, royalty, units
    Block,       \* blocks: sequences of transactions
    MaxHeight,   \* bound: blocks above genesis
    None,
    Gone

ASSUME TokensCacheAssumption ==
    /\ Root \in [Key -> Key \cup {None}] /\ None \notin Key
    /\ Username \subseteq Name
    /\ None \notin Verifier \cup Data /\ Gone \notin Verifier /\ None # Gone
    /\ MaxHeight \in Nat

VARIABLES
    chain,       \* the active chain: blocks with their undo data and what they mean
    local,       \* the cache of the block at hand
    tip,         \* ptokens
    lru,         \* ptokensCache, ptokensVerifierCache, ptokensRestrictionCache...
    db,          \* ptokensdb and prestricteddb
    coinsTip,    \* the chain the coin database represents
    work         \* what the thread that holds cs_main is doing

vars == <<chain, local, tip, lru, db, coinsTip, work>>

-----------------------------------------------------------------------------
(* What a chain means, without caches: the reference.                      *)

\* Token state: the flags that are set, data and verifiers of the tokens.
State == [flag : SUBSET Key, data : [Name -> Data \cup {None}],
          ver : [Name -> Verifier \cup {None}]]

NoTokens == [flag |-> {}, data |-> [n \in Name |-> None], ver |-> [n \in Name |-> None]]

\* What a reissue makes of a token's data.
Reissued(d, t) ==
    [d EXCEPT !.amount = @ + t.amount, !.reissuable = t.reissuable,
              !.royalty = t.royalty, !.units = IF t.units = None THEN @ ELSE t.units]

\* The state after transaction t.
Meaning(s, t) ==
    CASE t.op = "flag" ->
           [s EXCEPT !.flag = IF t.on THEN @ \cup {t.key} ELSE @ \ {t.key}]
      [] t.op = "issue" ->
           [s EXCEPT !.data[t.name] = t.data, !.ver[t.name] = t.ver]
      [] t.op = "reissue" ->
           [s EXCEPT !.data[t.name] = Reissued(@, t),
                     !.ver[t.name] = IF t.ver = None THEN @ ELSE t.ver]

\* The state at the end of a chain.
StateOf(c) == IF c = <<>> THEN NoTokens ELSE Last(c).state

-----------------------------------------------------------------------------
(* Caches and lookups.                                                     *)

\* a, or b when there is no a: one container is consulted before the next.
a ?? b == IF a = None THEN b ELSE a

\* A cache with no entries (ClearDirtyCache).
ClearDirtyCache ==
    [flagAdd |-> [k \in Key |-> None], flagRemove |-> [k \in Key |-> None],
     rootAdd |-> {}, rootRemove |-> {},
     verAdd |-> [n \in Name |-> None], verRemove |-> [n \in Name |-> None],
     newAdd |-> [n \in Name |-> None], newRemove |-> {},
     reissued |-> [n \in Name |-> None], reissueAdd |-> {}, reissueRemove |-> {}]

\* CheckForAddressRestriction, CheckForGlobalRestriction, CheckForAddressQualifier
\* with fSkipTempCache, as validation calls them: the cache of the block is skipped.
CheckForFlag(k) ==
    IF tip.flagRemove[k] # None THEN tip.flagRemove[k] = "off"
    ELSE IF tip.flagAdd[k] # None THEN tip.flagAdd[k] = "on"
    ELSE \/ \E s \in tip.rootAdd : Root[s] = k
         \/ k \in lru.flag \cup db.flag
         \/ \E s \in db.flag : Root[s] = k

\* CheckIfTokenExists.
CheckIfTokenExists(n) ==
    /\ n \notin local.newRemove \cup tip.newRemove
    /\ local.newAdd[n] ?? tip.newAdd[n] ?? lru.data[n] ?? db.data[n] # None

\* GetTokenMetaDataIfExists: reissued data is looked for before anything else.
GetTokenMetaData(n) ==
    local.reissued[n] ?? tip.reissued[n] ??
        (IF n \in local.newRemove \cup tip.newRemove THEN None
         ELSE local.newAdd[n] ?? tip.newAdd[n] ?? lru.data[n] ?? db.data[n])

\* GetTokenVerifierStringIfExists, without fSkipTempCache.
GetTokenVerifierString(n) ==
    LET undone == local.verRemove[n] ?? tip.verRemove[n] IN
    IF undone = Gone THEN None
    ELSE undone ?? local.verAdd[n] ?? tip.verAdd[n] ?? lru.ver[n] ?? db.ver[n]

-----------------------------------------------------------------------------
(* Changes to the cache of a block.  A set whose element is already there  *)
(* keeps the old element: insert does not overwrite (verAdd, verRemove).   *)

\* The type of a change, as it is stored.
type(t) == IF t.on THEN "on" ELSE "off"

\* AddRestrictedAddress, AddGlobalRestricted, AddQualifierAddress.
AddFlag(c, t) ==
    LET sub == IF Root[t.key] = None THEN {} ELSE {t.key} IN
    [c EXCEPT !.flagRemove[t.key] = None, !.flagAdd[t.key] = type(t),
              !.rootAdd = IF t.on THEN @ \cup sub ELSE @ \ sub,
              !.rootRemove = IF t.on THEN @ \ sub ELSE @ \cup sub]

\* RemoveRestrictedAddress, RemoveGlobalRestricted, RemoveQualifierAddress.
RemoveFlag(c, t) ==
    LET sub == IF Root[t.key] = None THEN {} ELSE {t.key} IN
    [c EXCEPT !.flagAdd[t.key] = None, !.flagRemove[t.key] = type(t),
              !.rootAdd = IF t.on THEN @ \ sub ELSE @ \cup sub,
              !.rootRemove = IF t.on THEN @ \cup sub ELSE @ \ sub]

\* AddRestrictedVerifier; a transaction without a verifier leaves it out.
AddRestrictedVerifier(c, n, v) ==
    IF v = None THEN c ELSE [c EXCEPT !.verRemove[n] = None, !.verAdd[n] = @ ?? v]

\* Mutant: the reissue case is not told from the issue case.
RemoveVerifierForGood(c, n, v) ==
    IF v = None THEN c ELSE [c EXCEPT !.verAdd[n] = None, !.verRemove[n] = @ ?? Gone]

\* RemoveRestrictedVerifier: v is the verifier to restore, or Gone.
RemoveRestrictedVerifier(c, n, v) ==
    IF v = None THEN c ELSE [c EXCEPT !.verAdd[n] = None, !.verRemove[n] = @ ?? v]

\* AddNewToken, which logs an error and adds nothing when the token exists.
AddNewToken(c, t) ==
    IF CheckIfTokenExists(t.name) THEN c
    ELSE [c EXCEPT !.newRemove = @ \ {t.name}, !.newAdd[t.name] = @ ?? t.data]

\* Mutant: the removal is not recorded for the database.
RemoveOnlyAdded(c, t) ==
    IF ~CheckIfTokenExists(t.name) THEN c
    ELSE [c EXCEPT !.newAdd[t.name] = None]

\* RemoveNewToken, and the test of DisconnectBlock before it.
RemoveNewToken(c, t) ==
    IF ~CheckIfTokenExists(t.name) THEN c
    ELSE [c EXCEPT !.newAdd[t.name] = None, !.newRemove = @ \cup {t.name}]

\* Mutant: the reissue is not recorded for the database.
AddReissuedData(c, t) ==
    IF GetTokenMetaData(t.name) = None THEN c
    ELSE [c EXCEPT !.reissued[t.name] = Reissued(GetTokenMetaData(t.name), t),
                   !.reissueRemove = @ \ {t}]

\* AddReissueToken.
AddReissueToken(c, t) ==
    IF GetTokenMetaData(t.name) = None THEN c
    ELSE [c EXCEPT !.reissued[t.name] = Reissued(GetTokenMetaData(t.name), t),
                   !.reissueRemove = @ \ {t}, !.reissueAdd = @ \cup {t}]

\* The undo data a reissue leaves: the old units and verifier where it changes them.
TokenUndo(t) ==
    IF t.op # "reissue" \/ (t.units = None /\ t.ver = None) THEN <<>>
    ELSE << [name |-> t.name,
             units |-> IF t.units = None THEN None ELSE GetTokenMetaData(t.name).units,
             ver |-> IF t.ver = None THEN None ELSE GetTokenVerifierString(t.name)] >>

\* The first item of a block's undo data for a token; no change if there is none.
UndoItem(undo, n) ==
    LET items == SelectSeq(undo, LAMBDA u : u.name = n) IN
    IF items = <<>> THEN [name |-> n, units |-> None, ver |-> None] ELSE Head(items)

\* RemoveReissueToken, and the test of DisconnectBlock before it.
RemoveReissueToken(c, t, undo) ==
    LET u == UndoItem(undo, t.name)
        d == GetTokenMetaData(t.name)
        old == [d EXCEPT !.amount = @ - t.amount, !.reissuable = TRUE, !.units = u.units ?? @]
    IN IF ~CheckIfTokenExists(t.name) THEN c
       ELSE RemoveRestrictedVerifier(
              [c EXCEPT !.reissued[t.name] = old,
                        !.reissueAdd = @ \ {t}, !.reissueRemove = @ \cup {t}],
              t.name, u.ver)

-----------------------------------------------------------------------------
(* Connecting and disconnecting a block.                                   *)

Idle == [job |-> "none"]

\* Nothing is known: a node with empty databases.
Init ==
    /\ chain = <<>> /\ coinsTip = <<>>
    /\ local = ClearDirtyCache /\ tip = ClearDirtyCache
    /\ db = NoTokens /\ lru = NoTokens
    /\ work = Idle

\* Mutant: taking a flag away is not checked.
CheckAdditions(t) ==
    CASE t.op = "flag" -> t.on => ~CheckForFlag(t.key)
      [] t.op = "issue" -> ~CheckIfTokenExists(t.name)
      [] t.op = "reissue" -> /\ GetTokenMetaData(t.name) # None
                             /\ GetTokenMetaData(t.name).reissuable

\* CheckTxTokens: a flag must change, a new name be free, a reissued token open.
CheckTxTokens(t) ==
    CASE t.op = "flag" -> t.on # CheckForFlag(t.key)
      [] t.op = "issue" -> ~CheckIfTokenExists(t.name)
      [] t.op = "reissue" -> /\ GetTokenMetaData(t.name) # None
                             /\ GetTokenMetaData(t.name).reissuable

\* AddCoins, on the cache of the block.
AddCoins(c, t) ==
    CASE t.op = "flag" -> AddFlag(c, t)
      [] t.op = "issue" -> AddRestrictedVerifier(AddNewToken(c, t), t.name, t.ver)
      [] t.op = "reissue" -> AddRestrictedVerifier(AddReissueToken(c, t), t.name, t.ver)

\* The part of DisconnectBlock about one transaction.  It has no branch for usernames.
UndoTx(c, t, undo) ==
    CASE t.op = "flag" -> RemoveFlag(c, t)
      [] t.op = "issue" /\ t.name \in Username -> c
      [] t.op = "issue" /\ t.name \notin Username ->
           RemoveRestrictedVerifier(RemoveNewToken(c, t), t.name,
                                    IF t.ver = None THEN None ELSE Gone)
      [] t.op = "reissue" -> RemoveReissueToken(c, t, undo)

\* Outside these caches: a reissue spends the owner token, so the token exists,
\* and no transaction that spends a coin is in the chain twice.
InputsAvailable(t) ==
    t.op = "reissue" =>
        /\ work.state.data[t.name] # None
        /\ \A h \in 1..Len(chain) : t \notin Range(chain[h].txs)

\* ConnectTip starts on a block, with an empty cache.
StartConnect(b) ==
    /\ work = Idle /\ Len(chain) < MaxHeight
    /\ local' = ClearDirtyCache
    /\ work' = [job |-> "connect", txs |-> b, i |-> 1, undo |-> <<>>, state |-> StateOf(chain)]
    /\ UNCHANGED <<chain, tip, lru, db, coinsTip>>

\* ConnectBlock accepts a transaction: its checks pass and UpdateCoins applies it.
ConnectTx ==
    /\ work.job = "connect" /\ work.i <= Len(work.txs)
    /\ LET t == work.txs[work.i] IN
       /\ InputsAvailable(t) /\ CheckTxTokens(t)
       /\ local' = AddCoins(local, t)
       /\ work' = [work EXCEPT !.i = @ + 1, !.undo = @ \o TokenUndo(t),
                               !.state = Meaning(@, t)]
    /\ UNCHANGED <<chain, tip, lru, db, coinsTip>>

\* ConnectBlock refuses a transaction, and the cache of the block is dropped.
RejectBlock ==
    /\ work.job = "connect" /\ work.i <= Len(work.txs)
    /\ LET t == work.txs[work.i] IN ~(InputsAvailable(t) /\ CheckTxTokens(t))
    /\ local' = ClearDirtyCache /\ work' = Idle
    /\ UNCHANGED <<chain, tip, lru, db, coinsTip>>

\* DisconnectTip starts: the block and its undo data are read from disk.
StartDisconnect ==
    /\ work = Idle /\ chain # <<>>
    /\ local' = ClearDirtyCache
    /\ work' = [job |-> "disconnect", txs |-> Last(chain).txs, i |-> Len(Last(chain).txs),
                undo |-> Last(chain).undo]
    /\ UNCHANGED <<chain, tip, lru, db, coinsTip>>

\* DisconnectBlock undoes the transactions in reverse order.
DisconnectTx ==
    /\ work.job = "disconnect" /\ work.i > 0
    /\ local' = UndoTx(local, work.txs[work.i], work.undo)
    /\ work' = [work EXCEPT !.i = @ - 1]
    /\ UNCHANGED <<chain, tip, lru, db, coinsTip>>

\* What Flush makes of a pair of containers of ptokens: first the additions of the
\* block overwrite and erase what was removed, then the removals the other way round.
\* The container of additions:
FlushAdd(add, c, remove) == [x \in DOMAIN add |-> IF remove[x] # None THEN None ELSE c[x] ?? add[x]]

\* Mutant: an addition leaves the undone change in ptokens.
FlushRemoveOnly(remove, c, r) == [x \in DOMAIN remove |-> r[x] ?? remove[x]]

\* The container of removals.
FlushRemove(remove, c, r) ==
    [x \in DOMAIN remove |-> r[x] ?? (IF c[x] # None THEN None ELSE remove[x])]

\* Flush.  The root qualifiers to remove go to the map of those to add.
Flush ==
    [flagAdd |-> FlushAdd(tip.flagAdd, local.flagAdd, local.flagRemove),
     flagRemove |-> FlushRemove(tip.flagRemove, local.flagAdd, local.flagRemove),
     rootAdd |-> tip.rootAdd \cup local.rootAdd \cup local.rootRemove,
     rootRemove |-> tip.rootRemove,
     verAdd |-> FlushAdd(tip.verAdd, local.verAdd, local.verRemove),
     verRemove |-> FlushRemove(tip.verRemove, local.verAdd, local.verRemove),
     newAdd |-> [n \in Name |-> IF n \in local.newRemove THEN None
                                ELSE tip.newAdd[n] ?? local.newAdd[n]],
     newRemove |-> {n \in tip.newRemove : local.newAdd[n] = None} \cup local.newRemove,
     reissued |-> [n \in Name |-> local.reissued[n] ?? tip.reissued[n]],
     reissueAdd |-> (tip.reissueAdd \cup local.reissueAdd) \ local.reissueRemove,
     reissueRemove |-> (tip.reissueRemove \ local.reissueAdd) \cup local.reissueRemove]

\* ConnectTip, when ConnectBlock has succeeded.
ConnectTip ==
    /\ work.job = "connect" /\ work.i > Len(work.txs)
    /\ tip' = Flush /\ local' = ClearDirtyCache
    /\ chain' = Append(chain, [txs |-> work.txs, undo |-> work.undo, state |-> work.state])
    /\ work' = Idle
    /\ UNCHANGED <<lru, db, coinsTip>>

\* DisconnectTip, when DisconnectBlock has succeeded.
DisconnectTip ==
    /\ work.job = "disconnect" /\ work.i = 0
    /\ tip' = Flush /\ local' = ClearDirtyCache
    /\ chain' = Front(chain)
    /\ work' = Idle
    /\ UNCHANGED <<lru, db, coinsTip>>

-----------------------------------------------------------------------------
(* The databases.                                                          *)

\* FlushStateToDisk, first half: pcoinsTip->Flush().
FlushCoins ==
    /\ work = Idle
    /\ coinsTip' = chain /\ work' = [job |-> "dump"]
    /\ UNCHANGED <<chain, local, tip, lru, db>>

\* Mutant: undoing a change writes what the change wrote.
DumpFlagsAgain(flags) ==
    {k \in Key : IF tip.flagRemove[k] # None THEN tip.flagRemove[k] = "on"
                 ELSE IF tip.flagAdd[k] # None THEN tip.flagAdd[k] = "on"
                 ELSE k \in flags}

\* The flags of a database or an LRU cache after the flag changes are written to it.
DumpFlags(flags) ==
    {k \in Key : IF tip.flagRemove[k] # None THEN tip.flagRemove[k] = "off"
                 ELSE IF tip.flagAdd[k] # None THEN tip.flagAdd[k] = "on"
                 ELSE k \in flags}

\* The tokens whose reissued data is written: those reissued, and those whose
\* reissue is undone unless their issue is undone too.
DumpedReissues ==
    {n \in Name : /\ tip.reissued[n] # None
                  /\ \/ \E t \in tip.reissueAdd : t.name = n
                     \/ n \notin tip.newRemove /\ \E t \in tip.reissueRemove : t.name = n}

DumpData(data) ==
    [n \in Name |-> tip.newAdd[n] ?? (IF n \in tip.newRemove THEN None ELSE data[n])]

DumpVerifiers ==
    [n \in Name |->
        IF tip.verRemove[n] = Gone THEN None
        ELSE tip.verRemove[n] ?? tip.verAdd[n] ??
             (IF n \in tip.newRemove THEN None ELSE db.ver[n])]

\* Mutant: reissued data stays in the LRU cache.
DumpLruKept ==
    [flag |-> DumpFlags(lru.flag), data |-> DumpData(lru.data),
     ver |-> [n \in Name |-> IF tip.verAdd[n] = None /\ tip.verRemove[n] = None
                             THEN lru.ver[n] ELSE None]]

\* The LRU caches follow: new data is put, reissued data and verifiers are erased.
DumpLru ==
    [flag |-> DumpFlags(lru.flag),
     data |-> [n \in Name |-> IF n \in DumpedReissues THEN None ELSE DumpData(lru.data)[n]],
     ver |-> [n \in Name |-> IF tip.verAdd[n] = None /\ tip.verRemove[n] = None
                             THEN lru.ver[n] ELSE None]]

\* FlushStateToDisk, second half: DumpCacheToDatabase.
DumpCacheToDatabase ==
    /\ work.job = "dump"
    /\ db' = [flag |-> DumpFlags(db.flag),
              data |-> [n \in Name |-> IF n \in DumpedReissues THEN tip.reissued[n]
                                       ELSE DumpData(db.data)[n]],
              ver |-> DumpVerifiers]
    /\ lru' = DumpLru
    /\ tip' = ClearDirtyCache /\ work' = Idle
    /\ UNCHANGED <<chain, local, coinsTip>>

\* A lookup that reaches the database puts what it finds into an LRU cache.
CacheLookup ==
    /\ work = Idle
    /\ \/ \E k \in db.flag : /\ tip.flagAdd[k] = None /\ tip.flagRemove[k] = None
                             /\ k \notin lru.flag
                             /\ lru' = [lru EXCEPT !.flag = @ \cup {k}]
       \/ \E n \in Name : /\ n \notin tip.newRemove /\ tip.newAdd[n] = None
                          /\ lru.data[n] = None /\ db.data[n] # None
                          /\ lru' = [lru EXCEPT !.data[n] = db.data[n]]
       \/ \E n \in Name : /\ tip.verAdd[n] = None /\ tip.verRemove[n] = None
                          /\ lru.ver[n] = None /\ db.ver[n] # None
                          /\ lru' = [lru EXCEPT !.ver[n] = db.ver[n]]
    /\ UNCHANGED <<chain, local, tip, db, coinsTip, work>>

\* An LRU cache that is full drops its oldest entry: any entry, at any time.
Evict ==
    /\ work = Idle
    /\ \/ \E k \in lru.flag : lru' = [lru EXCEPT !.flag = @ \ {k}]
       \/ \E n \in Name : lru.data[n] # None /\ lru' = [lru EXCEPT !.data[n] = None]
       \/ \E n \in Name : lru.ver[n] # None /\ lru' = [lru EXCEPT !.ver[n] = None]
    /\ UNCHANGED <<chain, local, tip, db, coinsTip, work>>

\* The process dies and starts again: the chain is what the coin database says,
\* the caches are empty.  Between the two halves of a flush the token databases stay
\* behind the coins, and nothing in the code notices: there the model stops.
Crash ==
    /\ chain' = coinsTip
    /\ work' = [job |-> IF work.job \in {"dump", "torn"} THEN "torn" ELSE "none"]
    /\ local' = ClearDirtyCache /\ tip' = ClearDirtyCache /\ lru' = NoTokens
    /\ UNCHANGED <<db, coinsTip>>

Next ==
    \/ \E b \in Block : StartConnect(b)
    \/ ConnectTx
    \/ RejectBlock
    \/ ConnectTip
    \/ StartDisconnect
    \/ DisconnectTx
    \/ DisconnectTip
    \/ FlushCoins
    \/ DumpCacheToDatabase
    \/ CacheLookup
    \/ Evict
    \/ Crash

Spec == Init /\ [][Next]_vars

-----------------------------------------------------------------------------
(* Properties.                                                             *)

\* The transactions that blocks may hold.
Tx == UNION {Range(b) : b \in Block}

Dirty == [flagAdd : [Key -> {"on", "off", None}], flagRemove : [Key -> {"on", "off", None}],
          rootAdd : SUBSET Key, rootRemove : SUBSET Key,
          verAdd : [Name -> Verifier \cup {None}],
          verRemove : [Name -> Verifier \cup {None, Gone}],
          newAdd : [Name -> Data \cup {None}], newRemove : SUBSET Name,
          reissued : [Name -> Data \cup {None}],
          reissueAdd : SUBSET Tx,
          reissueRemove : SUBSET Tx]

\* Types; neither the cache of a block nor ptokens ever holds an entry in both
\* containers of a pair, which the lookups of CTokensCache and DumpCacheToDatabase
\* would then answer differently.
TypeOK ==
    /\ local \in Dirty /\ tip \in Dirty /\ db \in State /\ lru \in State
    /\ \A h \in 1..Len(chain) : chain[h].txs \in Block /\ chain[h].state \in State
    /\ \A c \in {local, tip} :
         /\ \A k \in Key : c.flagAdd[k] = None \/ c.flagRemove[k] = None
         /\ \A n \in Name : /\ c.verAdd[n] = None \/ c.verRemove[n] = None
                            /\ c.newAdd[n] = None \/ n \notin c.newRemove

\* A key that is nobody's root qualifier.
Plain == {k \in Key : \A s \in Key : Root[s] # k}

\* The answer of CheckForAddressRestriction, CheckForGlobalRestriction and
\* CheckForAddressQualifier is a function of the active chain: blocks connected and
\* disconnected in any order, flushes, evictions and restarts do not change it.
FlagsExact ==
    work.job # "torn" => \A k \in Plain : CheckForFlag(k) = (k \in StateOf(chain).flag)

\* CheckForAddressQualifier for a root qualifier: true exactly when the active chain
\* has given the address that qualifier or one of its sub-qualifiers.
RootQualifierExact ==
    work.job # "torn" => \A k \in Key \ Plain :
        CheckForFlag(k) = (\E s \in StateOf(chain).flag : s = k \/ Root[s] = k)

\* No work in progress: the cache of the block is empty.
Settled == work.job \in {"none", "dump"}

\* CheckIfTokenExists finds every token the active chain has issued, and no other;
\* except that a username is still found after DisconnectBlock has undone its block,
\* which has a branch for every kind of new token but this one.
ExistsExact ==
    Settled => \A n \in Name :
        /\ StateOf(chain).data[n] # None => CheckIfTokenExists(n)
        /\ CheckIfTokenExists(n) /\ n \notin Username => StateOf(chain).data[n] # None

\* All issues of a name carry the same data, and its reissues keep the royalty.
SameIssue(n) ==
    \A t, u \in Tx : (t.op = "issue" /\ u.op # "flag" /\ t.name = n /\ u.name = n) =>
        IF u.op = "issue" THEN u.data = t.data ELSE u.royalty = t.data.royalty

\* GetTokenMetaDataIfExists answers with the data the active chain gave a token: an
\* undone reissue is undone, and none is applied twice, through Flush and
\* DumpCacheToDatabase in any order; where all issues of the name agree.
DataExact ==
    Settled => \A n \in Name : SameIssue(n) /\ StateOf(chain).data[n] # None =>
        GetTokenMetaData(n) = StateOf(chain).data[n]

\* GetTokenVerifierStringIfExists answers with the last verifier string the active
\* chain gave a token, as long as no block gives it two (AddRestrictedVerifier does
\* not overwrite within a block).
VerifierExact ==
    Settled => \A n \in Name :
        /\ StateOf(chain).data[n] # None
        /\ \A h \in 1..Len(chain) :
              Len(SelectSeq(chain[h].txs, LAMBDA t : t.op # "flag" /\ t.name = n /\ t.ver # None)) < 2
        => GetTokenVerifierString(n) = StateOf(chain).ver[n]

\* The LRU caches (ptokensCache, ptokensVerifierCache and those of the flags) never
\* answer what the database would not, although DumpCacheToDatabase writes to them
\* one by one.
LruCoherent ==
    /\ lru.flag \subseteq db.flag
    /\ \A n \in Name : /\ lru.data[n] \in {None, db.data[n]}
                       /\ lru.ver[n] \in {None, db.ver[n]}

\* What the chain says of the transaction ConnectBlock is about to check.
Allowed(t) ==
    CASE t.op = "flag" -> t.on # (t.key \in StateOf(chain).flag)
      [] t.op = "issue" -> work.state.data[t.name] = None
      [] t.op = "reissue" -> work.state.data[t.name].reissuable

\* The names of the tokens issued by the transactions already connected.
Issued == {work.txs[i].name : i \in {j \in 1..(work.i - 1) : work.txs[j].op = "issue"}}

\* Whether CheckTxTokens accepts a transaction depends on the chain alone, not on the
\* blocks the node has connected and disconnected to get there: for flag changes, and
\* for the issue of a token that is not a username (see ExistsExact) and that no
\* earlier transaction of the block issues.
DecisionsExact ==
    (work.job = "connect" /\ work.i <= Len(work.txs)) =>
        LET t == work.txs[work.i] IN
        (t.op = "flag" /\ t.key \in Plain) \/ (t.op = "issue" /\ t.name \notin Username \cup Issued)
            => (CheckTxTokens(t) <=> Allowed(t))
=============================================================================
