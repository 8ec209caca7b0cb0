-------------------------- MODULE CoinsCacheProofs --------------------------
(***************************************************************************)
(* The caches implement UTXOSet, for any outpoints, coins and blocks.  The *)
(* inductive invariant is that the flags of both layers are honest; the    *)
(* lemmas say what each operation of one layer does to what it shows.      *)
(***************************************************************************)
EXTENDS CoinsCache, TLAPS

Coins == [Outpoint -> Coin \cup {Spent}]

\* An entry is a record, so it is not Absent; a coin is not Spent.
LEMMA EntryFacts ==
    /\ Spent \notin Coin
    /\ Absent \notin Kept
    /\ \A e \in Kept : /\ e \in CCoinsCacheEntry
                       /\ e.coin \in Coin \cup {Spent}
                       /\ e.flags \in SUBSET {"DIRTY", "FRESH"}
                       /\ "FRESH" \in e.flags => "DIRTY" \in e.flags
                       /\ e.coin = Spent => e.flags = {"DIRTY"}
    /\ \A c \in Coin \cup {Spent}, f \in SUBSET {"DIRTY", "FRESH"} :
          ("FRESH" \in f => "DIRTY" \in f) /\ (c = Spent => f = {"DIRTY"})
             => [coin |-> c, flags |-> f] \in Kept
  BY CoinsAssumption DEF Kept, CCoinsCacheEntry, Flag

\* What a layer shows is a map of coins.
LEMMA SeesType ==
    ASSUME NEW cache \in Cache, NEW below \in Coins
    PROVE  Sees(cache, below) \in Coins
  BY EntryFacts DEF Sees, Cache, Coins

\* FetchCoin changes neither what a layer shows nor the meaning of its flags.
LEMMA FetchFact ==
    ASSUME NEW cache \in Cache, NEW below \in Coins, NEW o \in Outpoint,
           Honest(cache, below)
    PROVE  /\ Fetch(cache, below, o) \in Cache
           /\ Honest(Fetch(cache, below, o), below)
           /\ Sees(Fetch(cache, below, o), below) = Sees(cache, below)
           /\ Fetch(cache, below, o)[o] = Absent => below[o] = Spent
<1>1. CASE cache[o] = Absent /\ below[o] # Spent
  <2> DEFINE e == [coin |-> below[o], flags |-> {}]
  <2>1. e \in Kept /\ e # Absent
    BY <1>1, EntryFacts DEF Coins
  <2>2. Fetch(cache, below, o) = [cache EXCEPT ![o] = e]
    BY <1>1 DEF Fetch
  <2>3. [cache EXCEPT ![o] = e] \in Cache
    BY <2>1 DEF Cache
  <2>4. Honest([cache EXCEPT ![o] = e], below)
    BY <2>1, <2>3 DEF Honest, Cache
  <2>5. Sees([cache EXCEPT ![o] = e], below) = Sees(cache, below)
    BY <1>1, <2>1, <2>3 DEF Sees, Cache
  <2>6. [cache EXCEPT ![o] = e][o] # Absent
    BY <2>1 DEF Cache
  <2> QED
    BY <2>2, <2>3, <2>4, <2>5, <2>6
<1>2. CASE ~(cache[o] = Absent /\ below[o] # Spent)
  BY <1>2 DEF Fetch
<1> QED
  BY <1>1, <1>2

\* AddCoin sets one coin, marks it FRESH only if the base has no coin there,
\* and does not throw.
LEMMA AddedFact ==
    ASSUME NEW cache \in Cache, NEW below \in Coins, NEW o \in Outpoint,
           NEW c \in Coin, NEW overwrite \in BOOLEAN,
           Honest(cache, below),
           overwrite \/ Sees(cache, below)[o] = Spent
    PROVE  /\ Added(cache, o, c, overwrite) \in Cache
           /\ Honest(Added(cache, o, c, overwrite), below)
           /\ Sees(Added(cache, o, c, overwrite), below)
                 = [Sees(cache, below) EXCEPT ![o] = c]
           /\ ~AddThrows(cache, o, overwrite)
<1> DEFINE f == AddFlags(Emplaced(cache, o), overwrite)
           e == [coin |-> c, flags |-> f]
<1>1. /\ f \in SUBSET {"DIRTY", "FRESH"}
      /\ "DIRTY" \in f
      /\ "FRESH" \in f => below[o] = Spent
  <2>1. CASE cache[o] = Absent
    BY <2>1 DEF AddFlags, Emplaced, Sees
  <2>2. CASE cache[o] # Absent
    BY <2>2, EntryFacts DEF AddFlags, Emplaced, Sees, Honest, Cache
  <2> QED
    BY <2>1, <2>2
<1>2. e \in Kept /\ e # Absent
  BY <1>1, EntryFacts
<1>3. Added(cache, o, c, overwrite) = [cache EXCEPT ![o] = e]
  BY DEF Added
<1> HIDE DEF f
<1>4. [cache EXCEPT ![o] = e] \in Cache
  BY <1>2 DEF Cache
<1>5. Honest([cache EXCEPT ![o] = e], below)
  BY <1>1, <1>2, <1>4 DEF Honest, Cache
<1>6. Sees([cache EXCEPT ![o] = e], below) = [Sees(cache, below) EXCEPT ![o] = c]
  BY <1>2, <1>4, Zenon DEF Sees, Cache
<1>7. ~AddThrows(cache, o, overwrite)
  BY DEF AddThrows, Emplaced, Sees
<1> QED
  BY <1>3, <1>4, <1>5, <1>6, <1>7

\* SpendCoin clears one coin.  Forgetting a FRESH entry is enough, since the
\* base has no coin there; any other entry stays as a deletion to be written.
LEMMA SpentFact ==
    ASSUME NEW cache \in Cache, NEW below \in Coins, NEW o \in Outpoint,
           Honest(cache, below),
           cache[o] = Absent => below[o] = Spent
    PROVE  LET new == [cache EXCEPT ![o] = SpentEntry(cache[o])]
           IN  /\ new \in Cache
               /\ Honest(new, below)
               /\ Sees(new, below) = [Sees(cache, below) EXCEPT ![o] = Spent]
<1> DEFINE e == SpentEntry(cache[o])
<1>1. /\ e \in Kept \cup {Absent}
      /\ e # Absent => e.coin = Spent /\ e.flags = {"DIRTY"}
      /\ e = Absent => below[o] = Spent
  <2>1. CASE cache[o] = Absent \/ "FRESH" \in cache[o].flags
    BY <2>1 DEF SpentEntry, Honest
  <2>2. CASE cache[o] # Absent /\ "FRESH" \notin cache[o].flags
    <3>1. e = [coin |-> Spent, flags |-> {"DIRTY"}]
      BY <2>2, EntryFacts DEF SpentEntry, Cache
    <3> QED
      BY <3>1, EntryFacts
  <2> QED
    BY <2>1, <2>2
<1> HIDE DEF e
<1>2. [cache EXCEPT ![o] = e] \in Cache
  BY <1>1 DEF Cache
<1>3. Honest([cache EXCEPT ![o] = e], below)
  BY <1>1, <1>2 DEF Honest, Cache
<1>4. Sees([cache EXCEPT ![o] = e], below) = [Sees(cache, below) EXCEPT ![o] = Spent]
  BY <1>1, <1>2, Zenon DEF Sees, Cache
<1> QED
  BY <1>2, <1>3, <1>4 DEF e

\* BatchWrite into a cache: the parent then shows what the child showed, with
\* honest flags, and no FRESH flag is found to be misapplied.
LEMMA MergedFact ==
    ASSUME NEW child \in Cache, NEW us \in Cache, NEW below \in Coins,
           Honest(us, below), Honest(child, Sees(us, below))
    PROVE  LET new == [o \in Outpoint |-> Merged(child[o], us[o])]
           IN  /\ new \in Cache
               /\ Honest(new, below)
               /\ Sees(new, below) = Sees(child, Sees(us, below))
               /\ \A o \in Outpoint : ~Misapplied(child[o], us[o])
<1> DEFINE new == [o \in Outpoint |-> Merged(child[o], us[o])]
<1>1. ASSUME NEW o \in Outpoint
      PROVE  /\ new[o] \in Kept \cup {Absent}
             /\ new[o] # Absent =>
                   /\ "DIRTY" \notin new[o].flags => new[o].coin = below[o]
                   /\ "FRESH" \in new[o].flags => below[o] = Spent
             /\ (IF new[o] = Absent THEN below[o] ELSE new[o].coin)
                   = Sees(child, Sees(us, below))[o]
             /\ ~Misapplied(child[o], us[o])
  <2> DEFINE e == child[o]
             u == us[o]
  <2>1. /\ e \in Kept \cup {Absent} /\ u \in Kept \cup {Absent}
        /\ new[o] = Merged(e, u)
        /\ below[o] \in Coin \cup {Spent}
    BY DEF Cache, Coins
  <2>2. /\ u # Absent => /\ "DIRTY" \notin u.flags => u.coin = below[o]
                         /\ "FRESH" \in u.flags => below[o] = Spent
        /\ e # Absent =>
              /\ "DIRTY" \notin e.flags => e.coin = (IF u = Absent THEN below[o] ELSE u.coin)
              /\ "FRESH" \in e.flags => (IF u = Absent THEN below[o] ELSE u.coin) = Spent
        /\ Sees(child, Sees(us, below))[o]
              = IF e = Absent THEN (IF u = Absent THEN below[o] ELSE u.coin) ELSE e.coin
    BY DEF Honest, Sees
  <2>3. ~Misapplied(e, u)
    BY <2>2 DEF Misapplied, IsDirty
  <2>4. CASE ~IsDirty(e)
    BY <2>1, <2>2, <2>3, <2>4 DEF Merged, IsDirty
  <2>5. CASE IsDirty(e) /\ u = Absent
    <3>1. e.coin # Spent \/ "FRESH" \notin e.flags
      BY <2>1, <2>5, EntryFacts DEF IsDirty
    <3>2. new[o] = [coin |-> e.coin, flags |-> {"DIRTY"} \cup (e.flags \cap {"FRESH"})]
      BY <2>1, <2>5, <3>1 DEF Merged, IsDirty
    <3>3. new[o] \in Kept
      BY <2>1, <2>5, <3>1, <3>2, EntryFacts DEF IsDirty
    <3> QED
      BY <2>1, <2>2, <2>3, <2>5, <3>2, <3>3, EntryFacts DEF IsDirty
  <2>6. CASE IsDirty(e) /\ u # Absent /\ e.coin = Spent /\ "FRESH" \in u.flags
    BY <2>1, <2>2, <2>3, <2>6 DEF Merged, IsDirty
  <2>7. CASE IsDirty(e) /\ u # Absent /\ ~(e.coin = Spent /\ "FRESH" \in u.flags)
    <3>1. new[o] = [coin |-> e.coin, flags |-> {"DIRTY"} \cup u.flags]
      BY <2>1, <2>7 DEF Merged, IsDirty
    <3>2. new[o] \in Kept
      BY <2>1, <2>7, <3>1, EntryFacts DEF IsDirty
    <3> QED
      BY <2>1, <2>2, <2>3, <2>7, <3>1, <3>2, EntryFacts DEF IsDirty
  <2> QED
    BY <2>4, <2>5, <2>6, <2>7
<1>2. new \in Cache
  BY <1>1 DEF Cache
<1>3. Honest(new, below)
  BY <1>1 DEF Honest
<1>4. Sees(new, below) = Sees(child, Sees(us, below))
  <2>1. Sees(new, below) = [o \in Outpoint |-> Sees(child, Sees(us, below))[o]]
    BY <1>1 DEF Sees
  <2> QED
    BY <2>1 DEF Sees
<1> QED
  BY <1>1, <1>2, <1>3, <1>4

\* BatchWrite into the database: writing the DIRTY entries alone makes it what
\* the cache showed.
LEMMA WrittenFact ==
    ASSUME NEW us \in Cache, NEW below \in Coins, Honest(us, below)
    PROVE  [o \in Outpoint |-> Written(us[o], below[o])] = Sees(us, below)
  BY DEF Written, Sees, Honest, IsDirty

\* A cache without entries shows its base.
LEMMA EmptyFact ==
    ASSUME NEW below \in Coins
    PROVE  /\ NoEntries \in Cache
           /\ Honest(NoEntries, below)
           /\ Sees(NoEntries, below) = below
  BY DEF NoEntries, Cache, Honest, Sees, Coins

-----------------------------------------------------------------------------
(* The invariant.                                                          *)

IInv ==
    /\ TypeOK
    /\ FlagsHonest
    /\ NoLogicError
    /\ ~open => view = NoEntries /\ viewHash = Null

\* What the invariant says of the two layers, in the form the lemmas take.
LEMMA Layers ==
    ASSUME IInv
    PROVE  /\ db \in Coins /\ TipSees \in Coins /\ ViewSees \in Coins
           /\ tip \in Cache /\ view \in Cache
           /\ Honest(tip, db) /\ Honest(view, TipSees)
           /\ TipSees = Sees(tip, db) /\ ViewSees = Sees(view, TipSees)
           /\ TipBest \in Block \cup {Null} /\ ViewBest \in Block \cup {Null}
<1>1. /\ db \in Coins /\ tip \in Cache /\ view \in Cache
      /\ Honest(tip, db) /\ Honest(view, TipSees)
  BY DEF IInv, TypeOK, FlagsHonest, Coins
<1>2. TipSees \in Coins
  BY <1>1, SeesType DEF TipSees
<1>3. ViewSees \in Coins
  BY <1>1, <1>2, SeesType DEF ViewSees
<1>4. TipBest \in Block \cup {Null} /\ ViewBest \in Block \cup {Null}
  BY DEF IInv, TypeOK, TipBest, ViewBest, BestBlock
<1> QED
  BY <1>1, <1>2, <1>3, <1>4 DEF TipSees, ViewSees

\* A read through the scratch view leaves what both layers show.
LEMMA FetchBoth ==
    ASSUME IInv, NEW o \in Outpoint
    PROVE  /\ FetchTip(o) \in Cache /\ FetchView(o) \in Cache
           /\ Honest(FetchTip(o), db) /\ Honest(FetchView(o), TipSees)
           /\ Sees(FetchTip(o), db) = TipSees
           /\ Sees(FetchView(o), TipSees) = ViewSees
           /\ FetchView(o)[o] = Absent => TipSees[o] = Spent
  BY Layers, FetchFact DEF FetchTip, FetchView

\* A step that gives the caches new honest contents over the same database
\* keeps the part of the invariant about them.
LEMMA Relayered ==
    ASSUME tip' \in Cache, view' \in Cache, db' = db,
           Honest(tip', db), Sees(tip', db) = TipSees, Honest(view', TipSees)
    PROVE  FlagsHonest' /\ TipSees' = TipSees /\ ViewSees' = Sees(view', TipSees)
<1>1. TipSees' = TipSees
  BY DEF TipSees, Sees
<1>2. ViewSees' = Sees(view', TipSees)
  BY <1>1 DEF ViewSees, Sees
<1>3. FlagsHonest'
  BY <1>1 DEF FlagsHonest, Honest
<1> QED
  BY <1>1, <1>2, <1>3

\* The initial state of the caches is the initial state of UTXOSet.
LEMMA InitFact == Init => IInv /\ UTXO!Init
<1> SUFFICES ASSUME Init PROVE IInv /\ UTXO!Init
  OBVIOUS
<1>1. db \in Coins
  BY DEF Init, Coins
<1>2. TipSees = db /\ ViewSees = db
  BY <1>1, EmptyFact DEF Init, TipSees, ViewSees
<1>3. TipBest = Null /\ ViewBest = Null
  BY DEF Init, TipBest, ViewBest, BestBlock
<1>4. UTXO!Init
  BY <1>2, <1>3 DEF UTXO!Init, UTXO!Empty, Init
<1>5. TypeOK
  BY <1>1, EmptyFact, Zenon DEF Init, TypeOK, Coins
<1>6. FlagsHonest
  BY <1>1, <1>2, EmptyFact DEF Init, FlagsHonest
<1> QED
  BY <1>4, <1>5, <1>6 DEF IInv, Init, NoLogicError

\* Every step keeps the invariant and is a step of UTXOSet or changes nothing
\* that UTXOSet shows.
LEMMA StepFact == IInv /\ [Next]_vars => IInv' /\ [UTXO!Next]_(UTXO!vars)
<1> SUFFICES ASSUME IInv, [Next]_vars
             PROVE  IInv' /\ [UTXO!Next]_(UTXO!vars)
  OBVIOUS
<1> USE Layers
<1>t. /\ tipHash \in Block \cup {Null} /\ viewHash \in Block \cup {Null}
      /\ dbBest \in Block \cup {Null}
      /\ open \in BOOLEAN /\ thrown \in BOOLEAN /\ ~thrown
      /\ ~open => view = NoEntries /\ viewHash = Null
  BY DEF IInv, TypeOK, NoLogicError
<1>1. CASE OpenView
  <2>1. UNCHANGED <<db, dbBest, tip, tipHash, view, viewHash, thrown>> /\ open' = TRUE
    BY <1>1 DEF OpenView, dbVars, tipVars, viewVars
  <2>2. IInv'
    BY <2>1 DEF IInv, TypeOK, FlagsHonest, Honest, TipSees, Sees, NoLogicError
  <2>3. UNCHANGED UTXO!vars
    BY <2>1 DEF UTXO!vars, TipSees, ViewSees, Sees, TipBest, ViewBest, BestBlock
  <2> QED
    BY <2>2, <2>3
<1>2. ASSUME NEW o \in Outpoint, ReadCoin(o)
      PROVE  IInv' /\ [UTXO!Next]_(UTXO!vars)
  <2>1. /\ UNCHANGED <<db, dbBest, tipHash, viewHash, open, thrown>>
        /\ open /\ tip' = FetchTip(o) /\ view' = FetchView(o)
    BY <1>2 DEF ReadCoin, dbVars
  <2>2. FlagsHonest' /\ TipSees' = TipSees /\ ViewSees' = ViewSees
    BY <2>1, FetchBoth, Relayered
  <2>3. TypeOK'
    BY <2>1, <1>t, FetchBoth DEF TypeOK, Coins
  <2>4. UNCHANGED UTXO!vars
    BY <2>1, <2>2 DEF UTXO!vars, TipBest, ViewBest, BestBlock
  <2> QED
    BY <2>1, <2>2, <2>3, <2>4, <1>t DEF IInv, NoLogicError
<1>3. CASE GetBestBlock
  <2>1. /\ UNCHANGED <<db, dbBest, tip, view, open, thrown>> /\ open
        /\ tipHash' = (IF viewHash = Null THEN TipBest ELSE tipHash)
        /\ viewHash' = ViewBest
    BY <1>3 DEF GetBestBlock, dbVars
  <2>2. FlagsHonest' /\ TipSees' = TipSees /\ ViewSees' = ViewSees
    BY <2>1, Relayered
  <2>3. TypeOK'
    BY <2>1, <1>t DEF TypeOK, Coins
  <2>4. TipBest' = TipBest /\ ViewBest' = ViewBest
    BY <2>1, <1>t DEF TipBest, ViewBest, BestBlock
  <2>5. UNCHANGED UTXO!vars
    BY <2>1, <2>2, <2>4 DEF UTXO!vars
  <2> QED
    BY <2>1, <2>2, <2>3, <2>5, <1>t DEF IInv, NoLogicError
<1>4. ASSUME NEW b \in Block, SetBestBlock(b)
      PROVE  IInv' /\ [UTXO!Next]_(UTXO!vars)
  <2>1. /\ UNCHANGED <<db, dbBest, tip, tipHash, view, open, thrown>> /\ open
        /\ viewHash' = b
    BY <1>4 DEF SetBestBlock, dbVars, tipVars
  <2>2. FlagsHonest' /\ TipSees' = TipSees /\ ViewSees' = ViewSees
    BY <2>1, Relayered
  <2>3. TypeOK'
    BY <2>1, <1>t DEF TypeOK, Coins
  <2>4. TipBest' = TipBest /\ ViewBest' = b
    BY <2>1, CoinsAssumption DEF TipBest, ViewBest, BestBlock
  <2>5. UTXO!SetBestBlock(b)
    BY <2>1, <2>2, <2>4 DEF UTXO!SetBestBlock
  <2> QED
    BY <2>1, <2>2, <2>3, <2>5, <1>t DEF IInv, NoLogicError, UTXO!Next
<1>5. ASSUME NEW o \in Outpoint, NEW c \in Coin, NEW cb \in BOOLEAN, AddOutput(o, c, cb)
      PROVE  IInv' /\ [UTXO!Next]_(UTXO!vars)
  <2>1. /\ UNCHANGED <<db, dbBest, tip, tipHash, viewHash, open>> /\ open
        /\ cb \/ ViewSees[o] = Spent
        /\ view' = Added(view, o, c, cb)
        /\ thrown' = (thrown \/ AddThrows(view, o, cb))
    BY <1>5 DEF AddOutput, dbVars, tipVars
  <2>2. /\ view' \in Cache /\ Honest(view', TipSees)
        /\ Sees(view', TipSees) = [ViewSees EXCEPT ![o] = c]
        /\ ~AddThrows(view, o, cb)
    BY <2>1, AddedFact
  <2>3. FlagsHonest' /\ TipSees' = TipSees /\ ViewSees' = [ViewSees EXCEPT ![o] = c]
    BY <2>1, <2>2, Relayered
  <2>4. TypeOK' /\ ~thrown'
    BY <2>1, <2>2, <1>t DEF TypeOK, Coins
  <2>5. UTXO!Add(o, c)
    BY <2>1, <2>3 DEF UTXO!Add, TipBest, ViewBest, BestBlock
  <2> QED
    BY <2>1, <2>3, <2>4, <2>5 DEF IInv, NoLogicError, UTXO!Next
<1>6. ASSUME NEW o \in Outpoint, NEW c \in Coin, AddChecked(o, c)
      PROVE  IInv' /\ [UTXO!Next]_(UTXO!vars)
  <2> DEFINE ow == ViewSees[o] # Spent
  <2>1. /\ UNCHANGED <<db, dbBest, tipHash, viewHash, open>> /\ open
        /\ tip' = FetchTip(o)
        /\ view' = Added(FetchView(o), o, c, ow)
        /\ thrown' = (thrown \/ AddThrows(FetchView(o), o, ow))
    BY <1>6 DEF AddChecked, dbVars
  <2>2. /\ view' \in Cache /\ Honest(view', TipSees)
        /\ Sees(view', TipSees) = [ViewSees EXCEPT ![o] = c]
        /\ ~AddThrows(FetchView(o), o, ow)
    <3>1. /\ FetchView(o) \in Cache /\ TipSees \in Coins /\ ow \in BOOLEAN
          /\ Honest(FetchView(o), TipSees)
          /\ Sees(FetchView(o), TipSees) = ViewSees
      BY FetchBoth
    <3>2. ow \/ Sees(FetchView(o), TipSees)[o] = Spent
      BY <3>1
    <3> HIDE DEF ow
    <3> QED
      BY <2>1, <3>1, <3>2, AddedFact
  <2>3. FlagsHonest' /\ TipSees' = TipSees /\ ViewSees' = [ViewSees EXCEPT ![o] = c]
    BY <2>1, <2>2, FetchBoth, Relayered
  <2>4. TypeOK' /\ ~thrown'
    BY <2>1, <2>2, <1>t, FetchBoth DEF TypeOK, Coins
  <2>5. UTXO!Add(o, c)
    BY <2>1, <2>3 DEF UTXO!Add, TipBest, ViewBest, BestBlock
  <2> QED
    BY <2>1, <2>3, <2>4, <2>5 DEF IInv, NoLogicError, UTXO!Next
<1>7. ASSUME NEW o \in Outpoint, SpendCoin(o)
      PROVE  IInv' /\ [UTXO!Next]_(UTXO!vars)
  <2>1. /\ UNCHANGED <<db, dbBest, tipHash, viewHash, open, thrown>> /\ open
        /\ tip' = FetchTip(o)
        /\ view' = [FetchView(o) EXCEPT ![o] = SpentEntry(FetchView(o)[o])]
    BY <1>7 DEF SpendCoin, dbVars
  <2>2. /\ view' \in Cache /\ Honest(view', TipSees)
        /\ Sees(view', TipSees) = [ViewSees EXCEPT ![o] = Spent]
    <3> DEFINE fv == FetchView(o)
    <3>1. /\ fv \in Cache /\ TipSees \in Coins
          /\ Honest(fv, TipSees) /\ Sees(fv, TipSees) = ViewSees
          /\ fv[o] = Absent => TipSees[o] = Spent
      BY FetchBoth
    <3>2. view' = [fv EXCEPT ![o] = SpentEntry(fv[o])]
      BY <2>1
    <3> HIDE DEF fv
    <3> QED
      BY <3>1, <3>2, SpentFact, Zenon
  <2>3. FlagsHonest' /\ TipSees' = TipSees /\ ViewSees' = [ViewSees EXCEPT ![o] = Spent]
    BY <2>1, <2>2, FetchBoth, Relayered
  <2>4. TypeOK'
    BY <2>1, <2>2, <1>t, FetchBoth DEF TypeOK, Coins
  <2>5. UTXO!Spend(o)
    BY <2>1, <2>3 DEF UTXO!Spend, TipBest, ViewBest, BestBlock
  <2> QED
    BY <2>1, <2>3, <2>4, <2>5, <1>t DEF IInv, NoLogicError, UTXO!Next
<1>8. CASE FlushView
  <2>1. /\ UNCHANGED <<db, dbBest>> /\ viewHash # Null
        /\ tip' = [o \in Outpoint |-> Merged(view[o], tip[o])]
        /\ tipHash' = viewHash
        /\ view' = NoEntries /\ viewHash' = Null /\ open' = FALSE
        /\ thrown' = (thrown \/ \E o \in Outpoint : Misapplied(view[o], tip[o]))
    BY <1>8 DEF FlushView, dbVars
  <2>2. /\ tip' \in Cache /\ Honest(tip', db) /\ Sees(tip', db) = ViewSees
        /\ \A o \in Outpoint : ~Misapplied(view[o], tip[o])
    BY <2>1, MergedFact
  <2>3. TipSees' = ViewSees /\ ViewSees' = ViewSees
    <3>1. TipSees' = ViewSees
      BY <2>1, <2>2 DEF TipSees
    <3> QED
      BY <2>1, <3>1, EmptyFact DEF ViewSees
  <2>4. FlagsHonest'
    BY <2>1, <2>2, <2>3, EmptyFact DEF FlagsHonest
  <2>5. TypeOK' /\ ~thrown'
    BY <2>1, <2>2, <1>t, EmptyFact, Zenon DEF TypeOK, Coins
  <2>6. TipBest' = ViewBest /\ ViewBest' = ViewBest
    BY <2>1 DEF TipBest, ViewBest, BestBlock
  <2>7. UTXO!Commit
    BY <2>1, <2>3, <2>6 DEF UTXO!Commit
  <2> QED
    BY <2>1, <2>4, <2>5, <2>7 DEF IInv, NoLogicError, UTXO!Next
<1>9. CASE DropView
  <2>1. /\ UNCHANGED <<db, dbBest, tip, tipHash, thrown>>
        /\ view' = NoEntries /\ viewHash' = Null /\ open' = FALSE
    BY <1>9 DEF DropView, dbVars, tipVars
  <2>2. FlagsHonest' /\ TipSees' = TipSees /\ ViewSees' = TipSees
    BY <2>1, EmptyFact, Relayered
  <2>3. TypeOK'
    BY <2>1, <1>t, EmptyFact, Zenon DEF TypeOK, Coins
  <2>4. TipBest' = TipBest /\ ViewBest' = TipBest
    BY <2>1 DEF TipBest, ViewBest, BestBlock
  <2>5. UTXO!Drop
    BY <2>1, <2>2, <2>4 DEF UTXO!Drop
  <2> QED
    BY <2>1, <2>2, <2>3, <2>5, <1>t DEF IInv, NoLogicError, UTXO!Next
<1>10. ASSUME NEW o \in Outpoint, Uncache(o)
       PROVE  IInv' /\ [UTXO!Next]_(UTXO!vars)
  <2>1. /\ UNCHANGED <<db, dbBest, tipHash, view, viewHash, open, thrown>>
        /\ ~open /\ tip[o] # Absent /\ tip[o].flags = {}
        /\ tip' = [tip EXCEPT ![o] = Absent]
    BY <1>10 DEF Uncache, dbVars, viewVars
  <2>2. tip' \in Cache /\ Honest(tip', db)
    BY <2>1 DEF Cache, Honest
  <2>3. Sees(tip', db) = TipSees
    <3>1. tip[o].coin = db[o]
      BY <2>1 DEF Honest
    <3> QED
      BY <2>1, <2>2, <3>1 DEF TipSees, Sees, Cache
  <2>4. FlagsHonest' /\ TipSees' = TipSees /\ ViewSees' = ViewSees
    BY <2>1, <2>2, <2>3, Relayered
  <2>5. TypeOK'
    BY <2>1, <2>2, <1>t DEF TypeOK, Coins
  <2>6. UNCHANGED UTXO!vars
    BY <2>1, <2>4 DEF UTXO!vars, TipBest, ViewBest, BestBlock
  <2> QED
    BY <2>1, <2>4, <2>5, <2>6, <1>t DEF IInv, NoLogicError
<1>11. CASE FlushTip
  <2>1. /\ UNCHANGED <<view, viewHash, open, thrown>> /\ ~open
        /\ db' = [o \in Outpoint |-> Written(tip[o], db[o])]
        /\ dbBest' = TipBest /\ TipBest # Null
        /\ tip' = NoEntries /\ tipHash' = TipBest
    BY <1>11 DEF FlushTip, viewVars
  <2>2. db' = TipSees
    BY <2>1, WrittenFact
  <2>3. TipSees' = TipSees /\ ViewSees' = TipSees /\ ViewSees = TipSees
    <3>1. TipSees' = TipSees
      BY <2>1, <2>2, EmptyFact DEF TipSees
    <3> QED
      BY <2>1, <3>1, <1>t, EmptyFact DEF ViewSees
  <2>4. FlagsHonest'
    BY <2>1, <2>2, <2>3, <1>t, EmptyFact DEF FlagsHonest
  <2>5. TypeOK'
    BY <2>1, <2>2, <1>t, EmptyFact DEF TypeOK, Coins
  <2>6. TipBest' = TipBest /\ ViewBest' = ViewBest
    BY <2>1, <1>t DEF TipBest, ViewBest, BestBlock
  <2>7. UTXO!Save
    BY <2>1, <2>2, <2>3, <2>6 DEF UTXO!Save
  <2> QED
    BY <2>1, <2>4, <2>5, <2>7, <1>t DEF IInv, NoLogicError, UTXO!Next
<1>12. CASE Crash
  <2>1. /\ UNCHANGED <<db, dbBest, thrown>>
        /\ tip' = NoEntries /\ tipHash' = Null
        /\ view' = NoEntries /\ viewHash' = Null /\ open' = FALSE
    BY <1>12 DEF Crash, dbVars
  <2>2. TipSees' = db /\ ViewSees' = db
    <3>1. TipSees' = db
      BY <2>1, EmptyFact DEF TipSees
    <3> QED
      BY <2>1, <3>1, EmptyFact DEF ViewSees
  <2>3. FlagsHonest' /\ TypeOK'
    BY <2>1, <2>2, <1>t, EmptyFact, Zenon DEF FlagsHonest, TypeOK, Coins
  <2>4. TipBest' = dbBest /\ ViewBest' = dbBest
    BY <2>1 DEF TipBest, ViewBest, BestBlock
  <2>5. UTXO!Crash
    BY <2>1, <2>2, <2>4 DEF UTXO!Crash
  <2> QED
    BY <2>1, <2>3, <2>5, <1>t DEF IInv, NoLogicError, UTXO!Next
<1>13. CASE UNCHANGED vars
  <2>1. UNCHANGED <<db, dbBest, tip, tipHash, view, viewHash, open, thrown>>
    BY <1>13 DEF vars, dbVars, tipVars, viewVars
  <2>2. FlagsHonest' /\ TipSees' = TipSees /\ ViewSees' = ViewSees
    BY <2>1, Relayered
  <2>3. TypeOK'
    BY <2>1, <1>t DEF TypeOK, Coins
  <2>4. UNCHANGED UTXO!vars
    BY <2>1, <2>2 DEF UTXO!vars, TipBest, ViewBest, BestBlock
  <2> QED
    BY <2>1, <2>2, <2>3, <2>4, <1>t DEF IInv, NoLogicError
<1> QED
  BY <1>1, <1>2, <1>3, <1>4, <1>5, <1>6, <1>7, <1>8, <1>9, <1>10, <1>11, <1>12, <1>13
  DEF Next

-----------------------------------------------------------------------------

\* Both layers' flags always mean what coins.h says (AddCoin, SpendCoin,
\* FetchCoin, BatchWrite, Flush, Uncache).
THEOREM FlagsAlwaysHonest == Spec => []FlagsHonest
<1>1. IInv => FlagsHonest
  BY DEF IInv
<1> QED
  BY <1>1, InitFact, StepFact, PTL DEF Spec

\* The logic errors of AddCoin and BatchWrite are never thrown.
THEOREM NeverThrows == Spec => []NoLogicError
<1>1. IInv => NoLogicError
  BY DEF IInv
<1> QED
  BY <1>1, InitFact, StepFact, PTL DEF Spec

\* Types are kept, and neither layer holds a spent coin that is FRESH or clean.
THEOREM CoinsTypeCorrect == Spec => []TypeOK
<1>1. IInv => TypeOK
  BY DEF IInv
<1> QED
  BY <1>1, InitFact, StepFact, PTL DEF Spec

\* The two cache layers over the database implement the plain maps of UTXOSet.
THEOREM ImplementsUTXOSet == Spec => CachesInvisible
<1> QED
  BY InitFact, StepFact, PTL DEF Spec, CachesInvisible, UTXO!Spec
=============================================================================
