----------------------------- MODULE CoinsCache -----------------------------
(***************************************************************************)
(* CCoinsViewCache (src/src/coins.cpp): the two cache layers over the coin *)
(* database.  pcoinsTip caches the database; ConnectTip, DisconnectTip and *)
(* the mempool put a scratch CCoinsViewCache on top of it, and flush it or *)
(* let it go.  The DIRTY and FRESH flags decide what a flush writes and    *)
(* what it may forget.  cs_main is held while a scratch view exists, so    *)
(* there is one at a time.                                                 *)
(***************************************************************************)

CONSTANTS
    Outpoint,
    Coin,    \* unspent coins with a spendable script
    Spent,   \* the cleared coin
    Absent,  \* no entry in the cache
    Block,
    Null     \* the null block hash

Flag == {"DIRTY", "FRESH"}
CCoinsCacheEntry == [coin : Coin \cup {Spent}, flags : SUBSET Flag]

ASSUME CoinsAssumption ==
    /\ Spent \notin Coin
    /\ Absent \notin CCoinsCacheEntry
    /\ Null \notin Block

VARIABLES
    db, dbBest,       \* CCoinsViewDB: a spent coin is one that is not stored
    tip, tipHash,     \* pcoinsTip: cacheCoins and hashBlock
    view, viewHash,   \* the scratch view: cacheCoins and hashBlock
    open,             \* a scratch view exists
    thrown            \* a std::logic_error was thrown

dbVars == <<db, dbBest>>
tipVars == <<tip, tipHash>>
viewVars == <<view, viewHash>>
vars == <<dbVars, tipVars, viewVars, open, thrown>>

NoEntries == [o \in Outpoint |-> Absent]

Init ==
    /\ db = [o \in Outpoint |-> Spent] /\ dbBest = Null
    /\ tip = NoEntries /\ tipHash = Null
    /\ view = NoEntries /\ viewHash = Null
    /\ open = FALSE
    /\ thrown = FALSE

-----------------------------------------------------------------------------
(* One layer: cache over a base that shows the coins in below.             *)

\* What GetCoin of a layer finds, an entry first and the base otherwise.
Sees(cache, below) ==
    [o \in Outpoint |-> IF cache[o] = Absent THEN below[o] ELSE cache[o].coin]

\* GetBestBlock of a layer, and what it leaves in hashBlock.
BestBlock(hash, below) == IF hash = Null THEN below ELSE hash

TipSees == Sees(tip, db)
ViewSees == Sees(view, TipSees)
TipBest == BestBlock(tipHash, dbBest)
ViewBest == BestBlock(viewHash, TipBest)

\* FetchCoin: GetCoin of the base returns true for unspent coins only, so
\* nothing is cached for a coin the base does not have.
Fetch(cache, below, o) ==
    IF cache[o] = Absent /\ below[o] # Spent
    THEN [cache EXCEPT ![o] = [coin |-> below[o], flags |-> {}]]
    ELSE cache

\* FetchCoin of the scratch view asks the tip, which asks the database.
FetchTip(o) == IF view[o] = Absent THEN Fetch(tip, db, o) ELSE tip
FetchView(o) == Fetch(view, TipSees, o)

\* The entry that emplace finds or makes.
Emplaced(cache, o) ==
    IF cache[o] = Absent THEN [coin |-> Spent, flags |-> {}] ELSE cache[o]

\* Mutant: FRESH whenever nothing is overwritten.
AddFlagsFresh(e, overwrite) ==
    e.flags \cup {"DIRTY"} \cup (IF overwrite THEN {} ELSE {"FRESH"})

AddFlags(e, overwrite) ==
    e.flags \cup {"DIRTY"}
            \cup (IF ~overwrite /\ "DIRTY" \notin e.flags THEN {"FRESH"} ELSE {})

Added(cache, o, c, overwrite) ==
    [cache EXCEPT ![o] = [coin |-> c, flags |-> AddFlags(Emplaced(cache, o), overwrite)]]

\* "Adding new coin that replaces non-pruned entry"
AddThrows(cache, o, overwrite) ==
    ~overwrite /\ Emplaced(cache, o).coin # Spent

\* SpendCoin on the entry that FetchCoin found.
SpentEntry(e) ==
    IF e = Absent \/ "FRESH" \in e.flags
    THEN Absent
    ELSE [coin |-> Spent, flags |-> e.flags \cup {"DIRTY"}]

IsDirty(e) == e # Absent /\ "DIRTY" \in e.flags

\* Mutant: copies the FRESH flag to an entry the parent has already.
MergedFresh(e, us) ==
    IF ~IsDirty(e) THEN us
    ELSE IF e.coin = Spent /\ "FRESH" \in (IF us = Absent THEN e.flags ELSE us.flags)
         THEN Absent
         ELSE [coin  |-> e.coin,
               flags |-> {"DIRTY"} \cup (e.flags \cap {"FRESH"})
                                   \cup (IF us = Absent THEN {} ELSE us.flags)]

\* BatchWrite: what becomes of the entry us of the parent when the child's
\* entry e is written to it.
Merged(e, us) ==
    IF ~IsDirty(e) THEN us
    ELSE IF e.coin = Spent /\ "FRESH" \in (IF us = Absent THEN e.flags ELSE us.flags)
         THEN Absent
         ELSE [coin  |-> e.coin,
               flags |-> {"DIRTY"} \cup (IF us = Absent THEN e.flags \cap {"FRESH"}
                                                        ELSE us.flags)]

\* "FRESH flag misapplied to cache entry for base transaction with spendable
\* outputs"
Misapplied(e, us) ==
    /\ IsDirty(e) /\ "FRESH" \in e.flags
    /\ us # Absent
    /\ us.coin # Spent

-----------------------------------------------------------------------------
(* The scratch view.                                                       *)

OpenView ==
    /\ ~open
    /\ open' = TRUE
    /\ UNCHANGED <<dbVars, tipVars, viewVars, thrown>>

\* GetCoin, HaveCoin, AccessCoin and HaveInputs: a read fills both caches.
ReadCoin(o) ==
    /\ open
    /\ tip' = FetchTip(o)
    /\ view' = FetchView(o)
    /\ UNCHANGED <<dbVars, tipHash, viewHash, open, thrown>>

GetBestBlock ==
    /\ open
    /\ tipHash' = IF viewHash = Null THEN TipBest ELSE tipHash
    /\ viewHash' = ViewBest
    /\ UNCHANGED <<dbVars, tip, view, open, thrown>>

SetBestBlock(b) ==
    /\ open
    /\ viewHash' = b
    /\ UNCHANGED <<dbVars, tipVars, view, open, thrown>>

\* AddCoins in ConnectBlock (check is false): a coinbase may overwrite, and
\* any other output is one of a transaction that is not in the view yet,
\* since its inputs are unspent.
AddOutput(o, c, fCoinbase) ==
    /\ open
    /\ fCoinbase \/ ViewSees[o] = Spent
    /\ view' = Added(view, o, c, fCoinbase)
    /\ thrown' = (thrown \/ AddThrows(view, o, fCoinbase))
    /\ UNCHANGED <<dbVars, tipVars, viewHash, open>>

\* ApplyTxInUndo, and AddCoins when blocks are replayed: HaveCoin first.
AddChecked(o, c) ==
    /\ open
    /\ LET overwrite == ViewSees[o] # Spent IN
       /\ view' = Added(FetchView(o), o, c, overwrite)
       /\ thrown' = (thrown \/ AddThrows(FetchView(o), o, overwrite))
    /\ tip' = FetchTip(o)
    /\ UNCHANGED <<dbVars, tipHash, viewHash, open>>

SpendCoin(o) ==
    /\ open
    /\ tip' = FetchTip(o)
    /\ view' = [FetchView(o) EXCEPT ![o] = SpentEntry(FetchView(o)[o])]
    /\ UNCHANGED <<dbVars, tipHash, viewHash, open, thrown>>

\* Flush: BatchWrite into pcoinsTip.  ConnectBlock and DisconnectBlock have set
\* the best block of the view they succeed on.
FlushView ==
    /\ open /\ viewHash # Null
    /\ tip' = [o \in Outpoint |-> Merged(view[o], tip[o])]
    /\ tipHash' = viewHash
    /\ view' = NoEntries /\ viewHash' = Null
    /\ open' = FALSE
    /\ thrown' = (thrown \/ \E o \in Outpoint : Misapplied(view[o], tip[o]))
    /\ UNCHANGED dbVars

\* The view is destroyed without a flush: an invalid block, a block that was
\* only tested, a transaction offered to the mempool.
DropView ==
    /\ open
    /\ view' = NoEntries /\ viewHash' = Null
    /\ open' = FALSE
    /\ UNCHANGED <<dbVars, tipVars, thrown>>

-----------------------------------------------------------------------------
(* The tip.                                                                *)

\* Mutant: drops modified entries too.
UncacheAny(o) ==
    /\ ~open
    /\ tip[o] # Absent
    /\ tip' = [tip EXCEPT ![o] = Absent]
    /\ UNCHANGED <<dbVars, tipHash, viewVars, open, thrown>>

\* A coin a rejected or evicted mempool transaction had brought in.
Uncache(o) ==
    /\ ~open
    /\ tip[o] # Absent /\ tip[o].flags = {}
    /\ tip' = [tip EXCEPT ![o] = Absent]
    /\ UNCHANGED <<dbVars, tipHash, viewVars, open, thrown>>

\* CCoinsViewDB::BatchWrite for one entry.
Written(us, old) == IF IsDirty(us) THEN us.coin ELSE old

\* FlushStateToDisk, where pcoinsTip has a best block: pcoinsTip->Flush().
FlushTip ==
    /\ ~open
    /\ TipBest # Null
    /\ db' = [o \in Outpoint |-> Written(tip[o], db[o])]
    /\ dbBest' = TipBest
    /\ tip' = NoEntries /\ tipHash' = TipBest
    /\ UNCHANGED <<viewVars, open, thrown>>

Crash ==
    /\ tip' = NoEntries /\ tipHash' = Null
    /\ view' = NoEntries /\ viewHash' = Null
    /\ open' = FALSE
    /\ UNCHANGED <<dbVars, thrown>>

Next ==
    \/ OpenView \/ GetBestBlock \/ FlushView \/ DropView \/ FlushTip \/ Crash
    \/ \E b \in Block : SetBestBlock(b)
    \/ \E o \in Outpoint :
          \/ ReadCoin(o) \/ SpendCoin(o) \/ Uncache(o)
          \/ \E c \in Coin : AddChecked(o, c) \/ \E cb \in BOOLEAN : AddOutput(o, c, cb)

Spec == Init /\ [][Next]_vars

-----------------------------------------------------------------------------

\* Three kinds of entry are unspent: as read, modified, and modified but
\* unknown to the parent.  One is spent: a deletion still to be written.
Kept ==
    {e \in CCoinsCacheEntry : /\ "FRESH" \in e.flags => "DIRTY" \in e.flags
                              /\ e.coin = Spent => e.flags = {"DIRTY"}}
Cache == [Outpoint -> Kept \cup {Absent}]

\* Every variable keeps its type, and of the combinations of coin and flags
\* only those of Kept occur: neither layer remembers a coin that is both spent
\* and FRESH, or spent and clean (SpendCoin, FetchCoin, BatchWrite).
TypeOK ==
    /\ db \in [Outpoint -> Coin \cup {Spent}] /\ dbBest \in Block \cup {Null}
    /\ tip \in Cache /\ tipHash \in Block \cup {Null}
    /\ view \in Cache /\ viewHash \in Block \cup {Null}
    /\ open \in BOOLEAN /\ thrown \in BOOLEAN

Honest(cache, below) ==
    \A o \in Outpoint : cache[o] # Absent =>
        /\ "DIRTY" \notin cache[o].flags => cache[o].coin = below[o]
        /\ "FRESH" \in cache[o].flags => below[o] = Spent

\* The flags mean what coins.h says in both layers, whatever is added, spent,
\* read, flushed or dropped in whatever order: an entry that is not DIRTY
\* equals the parent's version, and the parent of a FRESH entry has no unspent
\* coin.
FlagsHonest == Honest(tip, db) /\ Honest(view, TipSees)

\* Callers that announce overwrites never meet the two logic errors: AddCoin
\* over an unspent entry and a misapplied FRESH flag in BatchWrite.
NoLogicError == ~thrown

\* The caches are invisible: through them the scratch view, the tip and the
\* database are the plain maps of UTXOSet, a flush moves all of a view and
\* nothing else, and reads and Uncache change nothing (CCoinsViewCache as a
\* CCoinsView).
UTXO == INSTANCE UTXOSet WITH
    disk <- db, diskBest <- dbBest,
    tip <- TipSees, tipBest <- TipBest,
    view <- ViewSees, viewBest <- ViewBest

CachesInvisible == UTXO!Spec
=============================================================================
