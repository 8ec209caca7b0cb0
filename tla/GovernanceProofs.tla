-------------------------- MODULE GovernanceProofs --------------------------
(***************************************************************************)
(* Theorems about the counters of Governance and the costs and fee script  *)
(* in force, for every set of scripts, types and heights, and in all that  *)
(* GovernanceChain does; and that the entries of costs and of the fee      *)
(* script follow the active chain.                                         *)
(***************************************************************************)
EXTENDS GovernanceChainProofs, FiniteSetTheorems

\* Unsigned arithmetic: the residues the counters take.
LEMMA ResidueSmall ==
    ASSUME NEW M \in Nat, NEW x \in 0 .. M - 1
    PROVE  x % M = x
  OBVIOUS

LEMMA ResidueWrap ==
    ASSUME NEW M \in Nat, M > 0
    PROVE  M % M = 0 /\ (-1) % M = M - 1
  OBVIOUS

\* Inc and Dec move the counter of a list that holds c scripts to the one of a
\* list that holds one more or one less.
LEMMA CounterStep ==
    ASSUME NEW c \in Nat, c < UIntMod
    PROVE  /\ c + 1 < UIntMod => Inc((c - 1) % UIntMod) = ((c + 1) - 1) % UIntMod
           /\ c > 0 => Dec((c - 1) % UIntMod) = ((c - 1) - 1) % UIntMod
<1>. UIntMod \in Nat /\ UIntMod > 0
  BY NumberAssumption
<1>1. CASE c = 0
  <2>1. (c - 1) % UIntMod = UIntMod - 1
    BY <1>1, ResidueWrap
  <2>2. ((c - 1) % UIntMod) + 1 = UIntMod
    BY <2>1
  <2>3. Inc((c - 1) % UIntMod) = 0
    BY <2>2, ResidueWrap DEF Inc
  <2>4. ((c + 1) - 1) % UIntMod = 0
    BY <1>1, ResidueSmall
  <2>. QED
    BY <1>1, <2>3, <2>4
<1>2. CASE c > 0
  <2>1. c - 1 \in 0 .. UIntMod - 1
    BY <1>2
  <2>2. (c - 1) % UIntMod = c - 1
    BY <2>1, ResidueSmall
  <2>3. Inc((c - 1) % UIntMod) = ((c + 1) - 1) % UIntMod
    BY <2>2 DEF Inc
  <2>4. Dec((c - 1) % UIntMod) = ((c - 1) - 1) % UIntMod
    BY <2>2 DEF Dec
  <2>. QED
    BY <2>3, <2>4
<1>. QED
  BY <1>1, <1>2

-----------------------------------------------------------------------------
(* The frozen counter.                                                     *)

\* The number of frozen scripts is a number below 2^32.
LEMMA FrozenCardinality ==
    /\ IsFiniteSet(Frozen)
    /\ Cardinality(Frozen) \in Nat
    /\ Cardinality(Frozen) < UIntMod
<1>1. Frozen \subseteq Script
  BY DEF Frozen
<1>2. IsFiniteSet(Frozen) /\ Cardinality(Frozen) <= Cardinality(Script)
  BY <1>1, ScriptAssumption, FS_Subset
<1>3. Cardinality(Frozen) \in Nat /\ Cardinality(Script) \in Nat
  BY <1>2, ScriptAssumption, FS_CardinalityType
<1>. QED
  BY <1>2, <1>3, NumberAssumption

\* A step that lists a script that was not listed, and counts it.
LEMMA CountListed ==
    ASSUME GovTypeOK, FrozenCountExact, NEW s \in Script, freeze[s] # "listed",
           freeze' = [freeze EXCEPT ![s] = "listed"],
           nFrozen' = Inc(nFrozen)
    PROVE  FrozenCountExact'
<1>1. s \notin Frozen /\ Frozen' = Frozen \cup {s}
  BY DEF Frozen, GovTypeOK
<1>2. Cardinality(Frozen') = Cardinality(Frozen) + 1
  BY <1>1, FrozenCardinality, FS_AddElement
<1>3. Frozen' \subseteq Script
  BY DEF Frozen
<1>4. Cardinality(Frozen') < UIntMod
  <2>1. Cardinality(Frozen') <= Cardinality(Script)
    BY <1>3, ScriptAssumption, FS_Subset
  <2>2. Cardinality(Script) \in Nat
    BY ScriptAssumption, FS_CardinalityType
  <2>. QED
    BY <2>1, <2>2, <1>2, FrozenCardinality, NumberAssumption
<1>. QED
  BY <1>2, <1>4, FrozenCardinality, CounterStep DEF FrozenCountExact

\* A step that removes a listed script from the list, and counts it out.
LEMMA CountUnlisted ==
    ASSUME GovTypeOK, FrozenCountExact, NEW s \in Script, freeze[s] = "listed",
           freeze' = [freeze EXCEPT ![s] = "unlisted"],
           nFrozen' = Dec(nFrozen)
    PROVE  FrozenCountExact'
<1>1. s \in Frozen /\ Frozen' = Frozen \ {s}
  BY DEF Frozen, GovTypeOK
<1>2. Cardinality(Frozen') = Cardinality(Frozen) - 1
  BY <1>1, FrozenCardinality, FS_RemoveElement
<1>3. Cardinality(Frozen) > 0
  BY <1>1, FrozenCardinality, FS_EmptySet
<1>. QED
  BY <1>2, <1>3, FrozenCardinality, CounterStep DEF FrozenCountExact

\* A step that leaves the set of frozen scripts and the counter alone.
LEMMA CountUnchanged ==
    ASSUME FrozenCountExact, Frozen' = Frozen, nFrozen' = nFrozen
    PROVE  FrozenCountExact'
  BY DEF FrozenCountExact

LEMMA FrozenCountInit == ASSUME freeze = FreezeAtInit, nFrozen = 0 PROVE FrozenCountExact
<1>1. Frozen = {Dummy}
  BY ScriptAssumption DEF Frozen, FreezeAtInit
<1>2. Cardinality(Frozen) = 1
  BY <1>1, FS_Singleton
<1>3. 0 % UIntMod = 0
  BY FrozenCardinality, NumberAssumption, ResidueSmall
<1>. QED
  BY <1>2, <1>3 DEF FrozenCountExact

LEMMA FrozenCountNext ==
    ASSUME GovTypeOK, FrozenCountExact, [GovNext]_govVars
    PROVE  FrozenCountExact'
<1>1. CASE Wipe
  <2>1. freeze' = FreezeAtInit /\ nFrozen' = 0
    BY <1>1 DEF Wipe
  <2>2. Frozen' = {Dummy}
    BY <2>1, ScriptAssumption DEF Frozen, FreezeAtInit
  <2>3. Cardinality(Frozen') = 1
    BY <2>2, FS_Singleton
  <2>4. 0 % UIntMod = 0
    BY FrozenCardinality, NumberAssumption, ResidueSmall
  <2>. QED
    BY <2>1, <2>3, <2>4 DEF FrozenCountExact
<1>2. ASSUME NEW s \in Script, FreezeScript(s) PROVE FrozenCountExact'
  <2>1. CASE freeze[s] = "listed"
    BY <1>2, <2>1, CountUnchanged DEF FreezeScript, Frozen, GovTypeOK
  <2>2. CASE freeze[s] # "listed"
    BY <1>2, <2>2, CountListed, Zenon DEF FreezeScript
  <2>. QED
    BY <2>1, <2>2
<1>3. ASSUME NEW s \in Script, UnfreezeScript(s) PROVE FrozenCountExact'
  <2>1. CASE freeze[s] = "listed"
    BY <1>3, <2>1, CountUnlisted, Zenon DEF UnfreezeScript
  <2>2. CASE freeze[s] # "listed"
    BY <1>3, <2>2, CountUnchanged DEF UnfreezeScript, Frozen, GovTypeOK
  <2>. QED
    BY <2>1, <2>2
<1>4. ASSUME NEW s \in Script, RevertFreezeScript(s) PROVE FrozenCountExact'
  <2>1. CASE freeze[s] = "listed"
    BY <1>4, <2>1, CountUnlisted DEF RevertFreezeScript
  <2>2. CASE UNCHANGED govVars
    BY <2>2, CountUnchanged DEF govVars, Frozen
  <2>. QED
    BY <1>4, <2>1, <2>2 DEF RevertFreezeScript
<1>5. ASSUME NEW s \in Script, RevertUnfreezeScript(s) PROVE FrozenCountExact'
  <2>1. CASE freeze[s] = "unlisted"
    BY <1>5, <2>1, CountListed DEF RevertUnfreezeScript
  <2>2. CASE UNCHANGED govVars
    BY <2>2, CountUnchanged DEF govVars, Frozen
  <2>. QED
    BY <1>5, <2>1, <2>2 DEF RevertUnfreezeScript
<1>6. CASE UNCHANGED freezeVars
  BY <1>6, CountUnchanged DEF freezeVars, Frozen
<1>7. ASSUME NEW s \in Script,
             \/ AuthorizeScript(s)
             \/ UnauthorizeScript(s)
             \/ RevertAuthorizeScript(s)
             \/ RevertUnauthorizeScript(s)
      PROVE  UNCHANGED freezeVars
  BY <1>7 DEF AuthorizeScript, UnauthorizeScript, RevertAuthorizeScript,
              RevertUnauthorizeScript, freezeVars, govVars
<1>8. ASSUME NEW h \in Height,
             \/ \E t \in CostType, a \in Amount : UpdateCost(a, t, h)
             \/ \E t \in CostType : RevertUpdateCost(t, h)
             \/ \E s \in Script : UpdateFeeScript(s, h)
             \/ RevertUpdateFeeScript(h)
      PROVE  UNCHANGED freezeVars
  BY <1>8 DEF UpdateCost, RevertUpdateCost, UpdateFeeScript, RevertUpdateFeeScript, freezeVars
<1>9. CASE UNCHANGED govVars
  BY <1>9, <1>6 DEF govVars, freezeVars
<1>. QED
  BY <1>1, <1>2, <1>3, <1>4, <1>5, <1>6, <1>7, <1>8, <1>9 DEF GovNext

\* The counter that GetNumberOfFrozenScripts reports is exact after any
\* sequence of freezes, unfreezes, reverts and wipes, for any set of fewer
\* than 2^32 scripts.
THEOREM FrozenCountCorrect == GovSpec => []FrozenCountExact
<1>1. GovInit => FrozenCountExact
  BY FrozenCountInit DEF GovInit
<1>2. GovTypeOK /\ FrozenCountExact /\ [GovNext]_govVars => FrozenCountExact'
  BY FrozenCountNext
<1>. QED
  BY <1>1, <1>2, GovTypeCorrect, PTL DEF GovSpec

-----------------------------------------------------------------------------
(* The counter of authorized stakers.                                      *)

LEMMA ResidueDown ==
    ASSUME NEW M \in Nat, M > 0, NEW x \in 1 .. M
    PROVE  (-x) % M = M - x
  OBVIOUS

\* Inc and Dec keep the distance, modulo 2^32, of a counter to the number of
\* scripts it counts.
LEMMA DistanceKept ==
    ASSUME NEW n \in UInt, NEW c \in Nat, c < UIntMod
    PROVE  /\ (Inc(n) - (c + 1)) % UIntMod = (n - c) % UIntMod
           /\ c > 0 => (Dec(n) - (c - 1)) % UIntMod = (n - c) % UIntMod
<1>. UIntMod \in Nat /\ UIntMod > 0 /\ n \in Nat /\ n < UIntMod
  BY NumberAssumption DEF UInt
<1>1. (Inc(n) - (c + 1)) % UIntMod = (n - c) % UIntMod
  <2>1. CASE n + 1 < UIntMod
    <3>1. Inc(n) = n + 1
      BY <2>1, ResidueSmall DEF Inc
    <3>. QED
      BY <3>1
  <2>2. CASE n + 1 = UIntMod
    <3>1. Inc(n) = 0
      BY <2>2, ResidueWrap DEF Inc
    <3>2. c + 1 \in 1 .. UIntMod /\ n - c \in 0 .. UIntMod - 1
      BY <2>2
    <3>3. (-(c + 1)) % UIntMod = UIntMod - (c + 1)
      BY <3>2, ResidueDown, Zenon
    <3>4. (n - c) % UIntMod = n - c
      BY <3>2, ResidueSmall
    <3>5. Inc(n) - (c + 1) = -(c + 1)
      BY <3>1
    <3>6. UIntMod - (c + 1) = n - c
      BY <2>2
    <3>. QED
      BY <3>3, <3>4, <3>5, <3>6
  <2>. QED
    BY <2>1, <2>2
<1>2. ASSUME c > 0 PROVE (Dec(n) - (c - 1)) % UIntMod = (n - c) % UIntMod
  <2>1. CASE n > 0
    <3>1. n - 1 \in 0 .. UIntMod - 1
      BY <2>1
    <3>2. Dec(n) = n - 1
      BY <3>1, ResidueSmall DEF Dec
    <3>3. Dec(n) - (c - 1) = n - c
      BY <3>2
    <3>. QED
      BY <3>3
  <2>2. CASE n = 0
    <3>1. Dec(n) = UIntMod - 1
      BY <2>2, ResidueWrap DEF Dec
    <3>2. c \in 1 .. UIntMod /\ UIntMod - c \in 0 .. UIntMod - 1
      BY <1>2
    <3>3. (-c) % UIntMod = UIntMod - c
      BY <3>2, ResidueDown
    <3>4. (UIntMod - c) % UIntMod = UIntMod - c
      BY <3>2, ResidueSmall
    <3>5. Dec(n) - (c - 1) = UIntMod - c /\ n - c = -c
      BY <2>2, <3>1
    <3>. QED
      BY <3>3, <3>4, <3>5
  <2>. QED
    BY <2>1, <2>2
<1>. QED
  BY <1>1, <1>2

\* The number of authorized scripts is a number below 2^32.
LEMMA AuthorizedCardinality ==
    /\ IsFiniteSet(Authorized)
    /\ Cardinality(Authorized) \in Nat
    /\ Cardinality(Authorized) < UIntMod
<1>1. Authorized \subseteq Script
  BY DEF Authorized
<1>2. IsFiniteSet(Authorized) /\ Cardinality(Authorized) <= Cardinality(Script)
  BY <1>1, ScriptAssumption, FS_Subset
<1>3. Cardinality(Authorized) \in Nat /\ Cardinality(Script) \in Nat
  BY <1>2, ScriptAssumption, FS_CardinalityType
<1>. QED
  BY <1>2, <1>3, NumberAssumption

\* What AuthorizedCountTracks says of one step.
Tracks ==
    nAuthorized # NoEntry /\ nAuthorized' # NoEntry =>
        (nAuthorized' - Cardinality(Authorized')) % UIntMod
            = (nAuthorized - Cardinality(Authorized)) % UIntMod

\* A step that authorizes a script that was not authorized, and counts it.
LEMMA TracksListed ==
    ASSUME GovTypeOK, NEW s \in Script, authority[s] # "listed",
           authority' = [authority EXCEPT ![s] = "listed"],
           \E n \in ReadNumber(nAuthorized) : nAuthorized' = Inc(n)
    PROVE  Tracks
<1>. SUFFICES ASSUME nAuthorized # NoEntry
              PROVE  (nAuthorized' - Cardinality(Authorized')) % UIntMod
                         = (nAuthorized - Cardinality(Authorized)) % UIntMod
  BY DEF Tracks
<1>1. s \notin Authorized /\ Authorized' = Authorized \cup {s}
  BY DEF Authorized, GovTypeOK
<1>2. Cardinality(Authorized') = Cardinality(Authorized) + 1
  BY <1>1, AuthorizedCardinality, FS_AddElement, Zenon
<1>3. nAuthorized \in UInt /\ nAuthorized' = Inc(nAuthorized)
  BY DEF GovTypeOK, ReadNumber
<1>. QED
  BY <1>2, <1>3, AuthorizedCardinality, DistanceKept

\* A step that takes the authorization of an authorized script, and counts it out.
LEMMA TracksUnlisted ==
    ASSUME GovTypeOK, NEW s \in Script, authority[s] = "listed",
           authority' = [authority EXCEPT ![s] = "unlisted"],
           \E n \in ReadNumber(nAuthorized) : nAuthorized' = Dec(n)
    PROVE  Tracks
<1>. SUFFICES ASSUME nAuthorized # NoEntry
              PROVE  (nAuthorized' - Cardinality(Authorized')) % UIntMod
                         = (nAuthorized - Cardinality(Authorized)) % UIntMod
  BY DEF Tracks
<1>1. s \in Authorized /\ Authorized' = Authorized \ {s}
  BY DEF Authorized, GovTypeOK
<1>2. Cardinality(Authorized') = Cardinality(Authorized) - 1
  BY <1>1, AuthorizedCardinality, FS_RemoveElement, Zenon
<1>3. Cardinality(Authorized) > 0
  BY <1>1, AuthorizedCardinality, FS_EmptySet
<1>4. nAuthorized \in UInt /\ nAuthorized' = Dec(nAuthorized)
  BY DEF GovTypeOK, ReadNumber
<1>. QED
  BY <1>2, <1>3, <1>4, AuthorizedCardinality, DistanceKept

\* A step that leaves the set of authorized scripts and the counter alone.
LEMMA TracksUnchanged ==
    ASSUME Authorized' = Authorized, nAuthorized' = nAuthorized
    PROVE  Tracks
  BY DEF Tracks

LEMMA TracksNext == ASSUME GovTypeOK, [GovNext]_govVars PROVE Tracks
<1>1. CASE Wipe
  BY <1>1 DEF Wipe, Tracks
<1>2. ASSUME NEW s \in Script, AuthorizeScript(s) PROVE Tracks
  <2>1. CASE authority[s] = "listed"
    BY <1>2, <2>1, TracksUnchanged DEF AuthorizeScript, Authorized, GovTypeOK
  <2>2. CASE authority[s] # "listed"
    BY <1>2, <2>2, TracksListed, Zenon DEF AuthorizeScript
  <2>. QED
    BY <2>1, <2>2
<1>3. ASSUME NEW s \in Script, UnauthorizeScript(s) PROVE Tracks
  <2>1. CASE authority[s] = "listed"
    BY <1>3, <2>1, TracksUnlisted, Zenon DEF UnauthorizeScript
  <2>2. CASE authority[s] # "listed"
    BY <1>3, <2>2, TracksUnchanged DEF UnauthorizeScript, Authorized, GovTypeOK
  <2>. QED
    BY <2>1, <2>2
<1>4. CASE UNCHANGED authorityVars
  BY <1>4, TracksUnchanged DEF authorityVars, Authorized
<1>5. ASSUME NEW s \in Script, RevertAuthorizeScript(s) PROVE Tracks
  <2>1. CASE authority[s] = "listed"
    BY <1>5, <2>1, TracksUnlisted DEF RevertAuthorizeScript
  <2>. QED
    BY <1>4, <1>5, <2>1 DEF RevertAuthorizeScript, govVars, authorityVars
<1>6. ASSUME NEW s \in Script, RevertUnauthorizeScript(s) PROVE Tracks
  <2>1. CASE authority[s] = "unlisted"
    BY <1>6, <2>1, TracksListed DEF RevertUnauthorizeScript
  <2>. QED
    BY <1>4, <1>6, <2>1 DEF RevertUnauthorizeScript, govVars, authorityVars
<1>7. ASSUME NEW s \in Script,
             \/ FreezeScript(s)
             \/ UnfreezeScript(s)
             \/ RevertFreezeScript(s)
             \/ RevertUnfreezeScript(s)
      PROVE  UNCHANGED authorityVars
  BY <1>7 DEF FreezeScript, UnfreezeScript, RevertFreezeScript, RevertUnfreezeScript,
              authorityVars, govVars
<1>8. ASSUME NEW h \in Height,
             \/ \E t \in CostType, a \in Amount : UpdateCost(a, t, h)
             \/ \E t \in CostType : RevertUpdateCost(t, h)
             \/ \E s \in Script : UpdateFeeScript(s, h)
             \/ RevertUpdateFeeScript(h)
      PROVE  UNCHANGED authorityVars
  BY <1>8 DEF UpdateCost, RevertUpdateCost, UpdateFeeScript, RevertUpdateFeeScript, authorityVars
<1>9. CASE UNCHANGED govVars
  BY <1>9, <1>4 DEF govVars, authorityVars
<1>. QED
  BY <1>1, <1>2, <1>3, <1>4, <1>5, <1>6, <1>7, <1>8, <1>9 DEF GovNext

\* From its first write on, the counter of authorized scripts moves with the
\* list, whatever value the uninitialized read gave it and however often it
\* wraps, for any set of fewer than 2^32 scripts.
THEOREM AuthorizedCountCorrect == GovSpec => AuthorizedCountTracks
<1>1. GovTypeOK /\ [GovNext]_govVars => [Tracks]_govVars
  BY TracksNext
<1>. QED
  BY <1>1, GovTypeCorrect, PTL DEF GovSpec, AuthorizedCountTracks, Tracks

-----------------------------------------------------------------------------
(* Costs and fee script in force.  Latest chooses the entry of the greatest *)
(* height; that there is one rests on the well-foundedness of Nat.          *)

LEMMA Greatest ==
    ASSUME NEW T \in SUBSET Height, T # {}
    PROVE  \E x \in T : \A y \in T : y <= x
<1>. DEFINE Below == {MaxHeight - h : h \in T}
<1>0. MaxHeight \in Nat /\ T \in SUBSET (0 .. MaxHeight)
  BY NumberAssumption DEF Height
<1>1. \A h \in T : MaxHeight - h \in Nat
  BY <1>0
<1>2. Below \in SUBSET Nat
  BY <1>1
<1>3. Below # {}
  <2>1. PICK h \in T : TRUE
    OBVIOUS
  <2>2. MaxHeight - h \in Below
    BY <2>1
  <2>. QED
    BY <2>2
<1>4. PICK u \in Below : \A y \in Below : u <= y
  <2>. HIDE DEF Below
  <2>. QED
    BY <1>2, <1>3, Least, Zenon
<1>5. PICK x \in T : u = MaxHeight - x
  OBVIOUS
<1>6. \A y \in T : MaxHeight - x <= MaxHeight - y
  BY <1>4, <1>5
<1>7. \A y \in T : y <= x
  BY <1>0, <1>6
<1>. QED
  BY <1>7

\* Latest returns an entry of a table that holds one.
LEMMA LatestEntry ==
    ASSUME NEW entries, NEW k \in Height, entries[k] # NoEntry
    PROVE  \E h \in Height : entries[h] # NoEntry /\ Latest(entries) = entries[h]
<1>. DEFINE Entered == {h \in Height : entries[h] # NoEntry}
<1>1. Entered \in SUBSET Height /\ Entered # {}
  OBVIOUS
<1>2. PICK x \in Entered : \A y \in Entered : y <= x
  <2>. HIDE DEF Entered
  <2>. QED
    BY <1>1, Greatest, Zenon
<1>3. \E h \in Height : /\ entries[h] # NoEntry
                        /\ \A j \in Height : entries[j] # NoEntry => j <= h
  BY <1>2
<1>. QED
  BY <1>3, Zenon DEF Latest

\* The inductive invariant: the entries of height 0 are those of Init, and a
\* type that UpdateCost refuses has no other.
EntriesAtZero ==
    /\ \A t \in CostType : cost[t][0] = InitCost[t]
    /\ \A t \in FixedCost : \A h \in Height \ {0} : cost[t][h] = NoEntry
    /\ fee[0] = InitFee

LEMMA ZeroHeight == 0 \in Height
  BY NumberAssumption DEF Height

LEMMA EntriesInit ==
    ASSUME cost = CostAtInit, fee = FeeAtInit
    PROVE  EntriesAtZero
  BY ZeroHeight DEF EntriesAtZero, CostAtInit, FeeAtInit, CostType

LEMMA EntriesNext ==
    ASSUME GovTypeOK, EntriesAtZero, [GovNext]_govVars
    PROVE  EntriesAtZero'
<1>1. CASE Wipe
  BY <1>1, ZeroHeight DEF Wipe, EntriesAtZero, CostAtInit, FeeAtInit, CostType
<1>2. CASE UNCHANGED <<cost, fee>>
  BY <1>2 DEF EntriesAtZero
<1>3. ASSUME NEW h \in Height \ {0}, NEW t \in CostType, NEW a \in Amount, UpdateCost(a, t, h)
      PROVE  EntriesAtZero'
  BY <1>3, CostAssumption, ZeroHeight DEF UpdateCost, EntriesAtZero, GovTypeOK, CostType
<1>4. ASSUME NEW h \in Height \ {0}, NEW t \in CostType, RevertUpdateCost(t, h)
      PROVE  EntriesAtZero'
  BY <1>4, ZeroHeight DEF RevertUpdateCost, EntriesAtZero, GovTypeOK, CostType
<1>5. ASSUME NEW h \in Height \ {0}, NEW s \in Script, UpdateFeeScript(s, h)
      PROVE  EntriesAtZero'
  BY <1>5, ZeroHeight DEF UpdateFeeScript, EntriesAtZero, GovTypeOK
<1>6. ASSUME NEW h \in Height \ {0}, RevertUpdateFeeScript(h)
      PROVE  EntriesAtZero'
  BY <1>6, ZeroHeight DEF RevertUpdateFeeScript, EntriesAtZero, GovTypeOK
<1>7. ASSUME NEW s \in Script,
             \/ FreezeScript(s)
             \/ UnfreezeScript(s)
             \/ RevertFreezeScript(s)
             \/ RevertUnfreezeScript(s)
             \/ AuthorizeScript(s)
             \/ UnauthorizeScript(s)
             \/ RevertAuthorizeScript(s)
             \/ RevertUnauthorizeScript(s)
      PROVE  UNCHANGED <<cost, fee>>
  BY <1>7 DEF FreezeScript, UnfreezeScript, RevertFreezeScript, RevertUnfreezeScript,
              AuthorizeScript, UnauthorizeScript, RevertAuthorizeScript,
              RevertUnauthorizeScript, govVars
<1>8. CASE UNCHANGED govVars
  BY <1>8, <1>2 DEF govVars
<1>. QED
  BY <1>1, <1>2, <1>3, <1>4, <1>5, <1>6, <1>7, <1>8 DEF GovNext

LEMMA EntriesGiveCost == ASSUME GovTypeOK, EntriesAtZero PROVE CostAlwaysInForce
<1>1. ASSUME NEW t \in CostType PROVE GetCost(t) \in Amount
  <2>1. cost[t][0] # NoEntry
    BY CostAssumption DEF EntriesAtZero, CostType
  <2>2. PICK h \in Height : cost[t][h] # NoEntry /\ Latest(cost[t]) = cost[t][h]
    BY <2>1, ZeroHeight, LatestEntry
  <2>. QED
    BY <2>2 DEF GetCost, GovTypeOK
<1>2. ASSUME NEW t \in FixedCost PROVE GetCost(t) = InitCost[t]
  <2>1. t \in CostType
    BY DEF CostType
  <2>2. cost[t][0] # NoEntry
    BY <2>1, CostAssumption DEF EntriesAtZero, CostType
  <2>3. PICK h \in Height : cost[t][h] # NoEntry /\ Latest(cost[t]) = cost[t][h]
    BY <2>2, ZeroHeight, LatestEntry
  <2>4. h = 0
    BY <2>3 DEF EntriesAtZero
  <2>. QED
    BY <2>1, <2>3, <2>4 DEF GetCost, EntriesAtZero
<1>3. GetFeeScript \in Script
  <2>1. fee[0] # NoEntry
    BY ScriptAssumption DEF EntriesAtZero
  <2>2. PICK h \in Height : fee[h] # NoEntry /\ Latest(fee) = fee[h]
    BY <2>1, ZeroHeight, LatestEntry
  <2>. QED
    BY <2>2 DEF GetFeeScript, GovTypeOK
<1>. QED
  BY <1>1, <1>2, <1>3 DEF CostAlwaysInForce

\* Whatever updates and reverts are made, at whatever heights above that of
\* the genesis block, GetCost and GetFeeScript find an entry, and the types
\* that UpdateCost refuses keep the cost of the chain parameters.
THEOREM CostCorrect == GovSpec => []CostAlwaysInForce
<1>1. GovInit => EntriesAtZero
  BY EntriesInit DEF GovInit
<1>2. GovTypeOK /\ EntriesAtZero /\ [GovNext]_govVars => EntriesAtZero'
  BY EntriesNext
<1>3. GovTypeOK /\ EntriesAtZero => CostAlwaysInForce
  BY EntriesGiveCost
<1>. QED
  BY <1>1, <1>2, <1>3, GovTypeCorrect, PTL DEF GovSpec

-----------------------------------------------------------------------------
(* The same in all that validation does, which GovernanceChain describes. *)

\* So the counter of frozen scripts stays exact through reorganizations,
\* failed blocks, database checks and crashes.
THEOREM ChainFrozenCount == Spec => []FrozenCountExact
  BY ImplementsGovernance, FrozenCountCorrect, PTL

\* So does the counter of authorized scripts: through connects, disconnects,
\* replays and crashes it moves with the list.
THEOREM ChainAuthorizedCount == Spec => AuthorizedCountTracks
  BY ImplementsGovernance, AuthorizedCountCorrect, PTL

\* No reorganization, replay or crash leaves a token type without a cost or
\* the node without a fee script.
THEOREM ChainCost == Spec => []CostAlwaysInForce
  BY ImplementsGovernance, CostCorrect, PTL

-----------------------------------------------------------------------------
(* Costs and the fee script: the entries kept per height.                  *)

\* The keys of the entries that are kept per height, what a block sets them to
\* and the outputs that do.
SlotKey == ({"cost"} \X CostType) \cup {<<"fee", "script">>}
Settable(k) == k[1] = "cost" => k[2] \in UpdatableCost
EntryAt(k, h) == IF k[1] = "cost" THEN cost[k[2]][h] ELSE fee[h]
ValueOf(op) == IF op.kind = "COST" THEN op.amount ELSE op.script
SetBy(b, k) == IF k[1] = "cost" THEN CostOf(b, k[2]) ELSE FeeOf(b)

\* Every entry above genesis comes from a block in wrote, and every block in
\* whole has all its entries.
EntriesKept(k) ==
    \A h \in Height \ {0} :
      /\ EntryAt(k, h) # NoEntry => \E b \in wrote[h] : EntryAt(k, h) = SetBy(b, k)
      /\ \A b \in whole[h] : SetBy(b, k) # NoEntry => EntryAt(k, h) # NoEntry

\* The block in hand has set what its passed outputs set, or has cleared what
\* its undone outputs name.
EntrySet(k) ==
    task \in Connecting /\ Settable(k) /\ About(blk, k) \cap Passed # {} =>
       EntryAt(k, height) # NoEntry
EntryCleared(k) ==
    task \in Disconnecting /\ Named(blk, k) \cap Undone # {} => EntryAt(k, height) = NoEntry

EntriesInv == \A k \in SlotKey : EntriesKept(k) /\ EntrySet(k) /\ EntryCleared(k)

\* The entries of issuance costs and of the fee script follow the active chain:
\* what ConnectBlock and DisconnectBlock leave at a height after any mix of
\* connects, disconnects, checks, failures, crashes and replays is what the
\* block of that height sets, unless another block has left entries there.
THEOREM EntriesAlwaysFollowChain == Spec => []EntriesFollowChain
\* What the call of an output does to the entry of a key at a height, and what
\* its revert does.
<1>CallSlot.
    ASSUME GovTypeOK, NEW op \in GovernanceOutput, NEW h \in Height \ {0}, Call(op, h),
           NEW k \in SlotKey, NEW g \in Height
    PROVE  EntryAt(k, g)' = IF g = h /\ Key(op) = k /\ Settable(k) /\ EntryAt(k, g) = NoEntry
                              THEN ValueOf(op) ELSE EntryAt(k, g)
  <2>. USE <1>CallSlot
  <2>. USE DEF EntryAt, Settable, ValueOf, SlotKey
  <2>1. CASE op \in ListOp
    <3>1. op.kind \in {"FREEZE", "UNFREEZE", "AUTHORIZATION", "UNAUTHORIZATION"}
      BY <2>1 DEF ListOp
    <3>2. cost' = cost /\ fee' = fee
      BY <3>1 DEF Call, FreezeScript, UnfreezeScript, AuthorizeScript, UnauthorizeScript
    <3>3. Key(op)[1] \in {"freeze", "authority"}
      BY <3>1 DEF Key
    <3>. QED
      BY <3>2, <3>3
  <2>2. CASE op \in CostOp
    <3>1. op.kind = "COST" /\ op.type \in CostType /\ op.amount \in Amount
      BY <2>2 DEF CostOp
    <3>2. Key(op) = <<"cost", op.type>>
      BY <3>1 DEF Key
    <3>3. fee' = fee /\ cost' = IF op.type \in UpdatableCost /\ cost[op.type][h] = NoEntry
                                  THEN [cost EXCEPT ![op.type][h] = op.amount] ELSE cost
      BY <3>1 DEF Call, UpdateCost
    <3>4. CASE k = <<"fee", "script">>
      BY <3>2, <3>3, <3>4
    <3>5. ASSUME NEW t \in CostType, k = <<"cost", t>>
          PROVE  cost'[t][g] = IF g = h /\ op.type = t /\ t \in UpdatableCost /\ cost[t][g] = NoEntry
                                 THEN op.amount ELSE cost[t][g]
      BY <3>1, <3>3 DEF GovTypeOK
    <3>6. ASSUME NEW t \in CostType, k = <<"cost", t>>
          PROVE  k[1] = "cost" /\ k[2] = t /\ (Key(op) = k <=> op.type = t)
      BY <3>2, <3>6
    <3>. QED
      BY <3>1, <3>4, <3>5, <3>6
  <2>3. CASE op \in FeeOp
    <3>1. op.kind = "FEE" /\ op.script \in Script
      BY <2>3 DEF FeeOp
    <3>2. Key(op) = <<"fee", "script">>
      BY <3>1 DEF Key
    <3>3. cost' = cost /\ fee' = IF fee[h] = NoEntry THEN [fee EXCEPT ![h] = op.script] ELSE fee
      BY <3>1 DEF Call, UpdateFeeScript
    <3>4. k[1] = "cost" => k # <<"fee", "script">>
      OBVIOUS
    <3>5. fee'[g] = IF g = h /\ fee[g] = NoEntry THEN op.script ELSE fee[g]
      BY <3>3 DEF GovTypeOK
    <3>. QED
      BY <3>1, <3>2, <3>3, <3>4, <3>5
  <2>. QED
    BY <2>1, <2>2, <2>3 DEF GovernanceOutput
<1>RevertSlot.
    ASSUME GovTypeOK, NEW op \in GovernanceOutput, NEW h \in Height \ {0}, RevertCall(op, h),
           NEW k \in SlotKey, NEW g \in Height
    PROVE  EntryAt(k, g)' = IF g = h /\ Key(op) = k THEN NoEntry ELSE EntryAt(k, g)
  <2>. USE <1>RevertSlot
  <2>. USE DEF EntryAt, SlotKey
  <2>1. CASE op \in ListOp
    <3>1. op.kind \in {"FREEZE", "UNFREEZE", "AUTHORIZATION", "UNAUTHORIZATION"}
      BY <2>1 DEF ListOp
    <3>2. cost' = cost /\ fee' = fee
      BY <3>1 DEF RevertCall, RevertFreezeScript, RevertUnfreezeScript, RevertAuthorizeScript,
                  RevertUnauthorizeScript, govVars
    <3>3. Key(op)[1] \in {"freeze", "authority"}
      BY <3>1 DEF Key
    <3>. QED
      BY <3>2, <3>3
  <2>2. CASE op \in CostOp
    <3>1. op.kind = "COST" /\ op.type \in CostType
      BY <2>2 DEF CostOp
    <3>2. Key(op) = <<"cost", op.type>>
      BY <3>1 DEF Key
    <3>3. fee' = fee /\ cost' = [cost EXCEPT ![op.type][h] = NoEntry]
      BY <3>1 DEF RevertCall, RevertUpdateCost
    <3>4. CASE k = <<"fee", "script">>
      BY <3>2, <3>3, <3>4
    <3>5. ASSUME NEW t \in CostType, k = <<"cost", t>>
          PROVE  cost'[t][g] = IF g = h /\ op.type = t THEN NoEntry ELSE cost[t][g]
      BY <3>1, <3>3 DEF GovTypeOK
    <3>6. ASSUME NEW t \in CostType, k = <<"cost", t>>
          PROVE  k[1] = "cost" /\ k[2] = t /\ (Key(op) = k <=> op.type = t)
      BY <3>2, <3>6
    <3>. QED
      BY <3>1, <3>4, <3>5, <3>6
  <2>3. CASE op \in FeeOp
    <3>1. op.kind = "FEE"
      BY <2>3 DEF FeeOp
    <3>2. Key(op) = <<"fee", "script">>
      BY <3>1 DEF Key
    <3>3. cost' = cost /\ fee' = [fee EXCEPT ![h] = NoEntry]
      BY <3>1 DEF RevertCall, RevertUpdateFeeScript
    <3>4. k[1] = "cost" => k # <<"fee", "script">>
      OBVIOUS
    <3>5. fee'[g] = IF g = h THEN NoEntry ELSE fee[g]
      BY <3>3 DEF GovTypeOK
    <3>. QED
      BY <3>1, <3>2, <3>3, <3>4, <3>5
  <2>. QED
    BY <2>1, <2>2, <2>3 DEF GovernanceOutput
\* The value an output about a slot gives it.
<1>SlotValue.
    ASSUME NEW op \in GovernanceOutput, NEW k \in SlotKey, Key(op) = k
    PROVE  /\ k[1] = "cost" => ValueOf(op) = op.amount
           /\ k[1] # "cost" => ValueOf(op) = op.script
           /\ ValueOf(op) # NoEntry
  <2>. USE <1>SlotValue
  <2>1. op \in ListOp => Key(op)[1] \in {"freeze", "authority"}
    BY DEF ListOp, Key
  <2>2. op \in CostOp => Key(op)[1] = "cost" /\ op.kind = "COST" /\ op.amount \in Amount
    BY DEF CostOp, Key
  <2>3. op \in FeeOp => Key(op)[1] = "fee" /\ op.kind = "FEE" /\ op.script \in Script
    BY DEF FeeOp, Key
  <2>4. k[1] \in {"cost", "fee"}
    BY DEF SlotKey
  <2>. QED
    BY <2>1, <2>2, <2>3, <2>4, ScriptAssumption, CostAssumption DEF GovernanceOutput, ValueOf
\* What a block sets a slot to: nothing, or the value of its first output
\* about it.
<1>SetByNothing.
    ASSUME NEW b, NEW k \in SlotKey, About(b, k) = {} \/ ~Settable(k)
    PROVE  SetBy(b, k) = NoEntry
  <2>. USE <1>SetByNothing
  <2>1. CASE k[1] = "cost"
    <3>1. k = <<"cost", k[2]>>
      BY <2>1 DEF SlotKey
    <3>. QED
      BY <2>1, <3>1 DEF SetBy, CostOf, Settable
  <2>2. CASE k[1] # "cost"
    <3>1. k = <<"fee", "script">>
      BY <2>2 DEF SlotKey
    <3>. QED
      BY <2>2, <3>1 DEF SetBy, FeeOf, Settable
  <2>. QED
    BY <2>1, <2>2
<1>SetByFirst.
    ASSUME NEW b \in Block, NEW k \in SlotKey, Settable(k), NEW p \in About(b, k),
           \A q \in About(b, k) : ~Before(q, p)
    PROVE  SetBy(b, k) = ValueOf(OutputAt(b, p))
  <2>. USE <1>SetByFirst
  <2>1. About(b, k) \subseteq Places(b)
    BY DEF About, ActivePlaces, ObeyedPlaces
  <2>2. \A q \in About(b, k) : (\A r \in About(b, k) : ~Before(r, q)) => q = p
    BY <2>1, PlaceOrder DEF PlacesOrdered
  <2>3. FirstAbout(b, k) = OutputAt(b, p)
    BY <2>2 DEF FirstAbout
  <2>4. OutputAt(b, p) \in GovernanceOutput /\ Key(OutputAt(b, p)) = k
    BY <2>1, PlaceShape DEF About
  <2>5. CASE k[1] = "cost"
    <3>1. k = <<"cost", k[2]>> /\ k[2] \in UpdatableCost
      BY <2>5 DEF SlotKey, Settable
    <3>2. SetBy(b, k) = FirstAbout(b, k).amount
      BY <2>5, <3>1 DEF SetBy, CostOf
    <3>. QED
      BY <2>3, <2>4, <2>5, <3>2, <1>SlotValue
  <2>6. CASE k[1] # "cost"
    <3>1. k = <<"fee", "script">>
      BY <2>6 DEF SlotKey
    <3>2. SetBy(b, k) = FirstAbout(b, k).script
      BY <2>6, <3>1 DEF SetBy, FeeOf
    <3>. QED
      BY <2>3, <2>4, <2>6, <3>2, <1>SlotValue
  <2>. QED
    BY <2>5, <2>6
<1>EntriesConnectOutput.
    ASSUME GovTypeOK, WorkTypeOK, GhostTypeOK, LoopsOK, NEW k \in SlotKey,
           EntriesKept(k), EntrySet(k), EntryCleared(k), ConnectOutput
    PROVE  EntriesKept(k)' /\ EntrySet(k)' /\ EntryCleared(k)'
  <2>. USE <1>EntriesConnectOutput
  <2>. DEFINE here == <<tx, out + 1>>
              op == OutputAt(blk, here)
  <2>1. /\ task \in Connecting /\ task \notin Disconnecting /\ tx \in DOMAIN blk
        /\ out < Len(blk[tx].vout) /\ out' = out + 1 /\ UNCHANGED <<task, blk, height, tx, whole>>
        /\ wrote' = [wrote EXCEPT ![height] = @ \cup {blk}]
    BY DEF ConnectOutput, Connecting, Disconnecting
  <2>2. blk \in Block /\ height \in Height \ {0}
    BY <2>1, WorkHeight
  <2>3. /\ here \in Places(blk) /\ op = blk[tx].vout[out + 1]
        /\ Passed' = Passed \cup {here} /\ here \notin Passed
        /\ \A p \in Passed : Before(p, here)
    BY <2>1, <2>2, NextPlace DEF NextIs
  <2>4. op \in GovernanceOutput /\ here[1] = tx
    BY <2>2, <2>3, PlaceShape
  <2>5. here \in ActivePlaces(blk) <=> Obeyed(op) /\ ~blk[tx].coinstake
    BY <2>3, <2>4 DEF ActivePlaces, ObeyedPlaces
  <2>6. here \in About(blk, k) <=> here \in ActivePlaces(blk) /\ Key(op) = k
    BY DEF About
  <2>7. IF here \in ActivePlaces(blk) THEN Call(op, height) ELSE UNCHANGED govVars
    BY <2>3, <2>5 DEF ConnectOutput
  <2>8. \A g \in Height :
           EntryAt(k, g)' = IF g = height /\ here \in About(blk, k) /\ Settable(k)
                                  /\ EntryAt(k, g) = NoEntry
                              THEN ValueOf(op) ELSE EntryAt(k, g)
    <3>1. CASE here \in ActivePlaces(blk)
      <4>1. Call(op, height)
        BY <2>7, <3>1
      <4>. HIDE DEF op, here
      <4>. QED
        BY <2>2, <2>4, <2>6, <3>1, <4>1, <1>CallSlot
    <3>2. CASE here \notin ActivePlaces(blk)
      BY <2>6, <2>7, <3>2 DEF govVars, EntryAt
    <3>. QED
      BY <3>1, <3>2
  <2>9. here \in About(blk, k) => ValueOf(op) # NoEntry
    BY <2>4, <2>6, <1>SlotValue, ZenonT(30)
  <2>10. ASSUME here \in About(blk, k), Settable(k), EntryAt(k, height) = NoEntry
         PROVE  SetBy(blk, k) = ValueOf(op)
    <3>1. About(blk, k) \cap Passed = {}
      BY <2>1, <2>10 DEF EntrySet
    <3>2. \A q \in About(blk, k) : ~Before(q, here)
      <4>1. \A q \in Places(blk) : q \notin Passed => ~Before(q, here)
        <5>1. \A q \in Places(blk) : q[1] \in Int /\ q[2] \in Int
          <6>1. Len(blk) \in Nat /\ \A i \in 1 .. Len(blk) : Len(blk[i].vout) \in Nat
            BY <2>2, BlockShape
          <6>. QED
            BY <2>2, <6>1, PlaceShape
        <5>2. tx \in Int /\ out \in Nat
          BY DEF WorkTypeOK
        <5>. QED
          BY <5>1, <5>2 DEF Passed, Before
      <4>. QED
        BY <3>1, <4>1, PlaceSubsets
    <3>. QED
      BY <2>2, <2>10, <3>2, <1>SetByFirst
  <2>11. \A b \in Block : SetBy(b, k)' = SetBy(b, k)
    OBVIOUS
  <2>12. EntriesKept(k)'
    <3>. SUFFICES ASSUME NEW h \in Height \ {0}
                  PROVE  /\ EntryAt(k, h)' # NoEntry =>
                              \E b \in wrote'[h] : EntryAt(k, h)' = SetBy(b, k)
                         /\ \A b \in whole'[h] : SetBy(b, k) # NoEntry => EntryAt(k, h)' # NoEntry
      BY Zenon DEF EntriesKept
    <3>1. wrote[h] \subseteq wrote'[h] /\ (h = height => blk \in wrote'[h])
      BY <2>1, <2>2 DEF GhostTypeOK
    <3>2. EntryAt(k, h) # NoEntry => \E b \in wrote[h] : EntryAt(k, h) = SetBy(b, k)
      BY DEF EntriesKept
    <3>3. \A b \in whole[h] : SetBy(b, k) # NoEntry => EntryAt(k, h) # NoEntry
      BY DEF EntriesKept
    <3>. QED
      BY <2>1, <2>8, <2>9, <2>10, <3>1, <3>2, <3>3, ZenonT(30)
  <2>13. EntrySet(k)'
    <3>. SUFFICES ASSUME Settable(k), About(blk, k) \cap Passed' # {}
                  PROVE  EntryAt(k, height)' # NoEntry
      BY <2>1, ZenonT(30) DEF EntrySet, Settable, About, ActivePlaces, ObeyedPlaces, Places, OutputAt
    <3>1. CASE About(blk, k) \cap Passed # {}
      BY <2>1, <2>2, <2>8, <2>9, <3>1 DEF EntrySet
    <3>2. CASE About(blk, k) \cap Passed = {}
      <4>1. here \in About(blk, k)
        BY <2>3, <3>2, ZenonT(30)
      <4>2. EntryAt(k, height)' = IF EntryAt(k, height) = NoEntry THEN ValueOf(op)
                                  ELSE EntryAt(k, height)
        BY <2>1, <2>2, <2>8, <4>1
      <4>. QED
        BY <2>9, <4>1, <4>2
    <3>. QED
      BY <3>1, <3>2
  <2>14. EntryCleared(k)'
    BY <2>1 DEF EntryCleared
  <2>. QED
    BY <2>12, <2>13, <2>14
<1>EntriesDisconnectOutput.
    ASSUME GovTypeOK, WorkTypeOK, GhostTypeOK, LoopsOK, NEW k \in SlotKey,
           EntriesKept(k), EntrySet(k), EntryCleared(k), DisconnectOutput
    PROVE  EntriesKept(k)' /\ EntrySet(k)' /\ EntryCleared(k)'
  <2>. USE <1>EntriesDisconnectOutput
  <2>. DEFINE here == <<tx, out + 1>>
              op == OutputAt(blk, here)
  <2>1. /\ task \in Disconnecting /\ task \notin Connecting /\ tx \in DOMAIN blk
        /\ out < Len(blk[tx].vout) /\ out' = out + 1 /\ UNCHANGED <<task, blk, height, tx, wrote>>
        /\ whole' = [whole EXCEPT ![height] = {}]
    BY Zenon DEF DisconnectOutput, Connecting, Disconnecting
  <2>2. blk \in Block /\ height \in Height \ {0}
    BY <2>1, WorkHeight
  <2>3. /\ here \in Places(blk) /\ op = blk[tx].vout[out + 1]
        /\ Undone' = Undone \cup {here}
    BY <2>1, <2>2, NextPlace, ZenonT(30) DEF NextIs
  <2>4. op \in GovernanceOutput
    BY <2>2, <2>3, PlaceShape
  <2>5. here \in Named(blk, k) <=> Obeyed(op) /\ Key(op) = k
    BY <2>3 DEF Named, ObeyedPlaces
  <2>6. IF Obeyed(op) THEN RevertCall(op, height) ELSE UNCHANGED govVars
    BY <2>3 DEF DisconnectOutput
  <2>7. \A g \in Height : EntryAt(k, g)' = IF g = height /\ here \in Named(blk, k)
                                             THEN NoEntry ELSE EntryAt(k, g)
    <3>1. CASE Obeyed(op)
      <4>1. RevertCall(op, height)
        BY <2>6, <3>1
      <4>. HIDE DEF op, here
      <4>. QED
        BY <2>2, <2>4, <2>5, <3>1, <4>1, <1>RevertSlot
    <3>2. CASE ~Obeyed(op)
      BY <2>5, <2>6, <3>2 DEF govVars, EntryAt
    <3>. QED
      BY <3>1, <3>2
  <2>8. EntriesKept(k)'
    <3>. SUFFICES ASSUME NEW h \in Height \ {0}
                  PROVE  /\ EntryAt(k, h)' # NoEntry =>
                              \E b \in wrote'[h] : EntryAt(k, h)' = SetBy(b, k)
                         /\ \A b \in whole'[h] : SetBy(b, k) # NoEntry => EntryAt(k, h)' # NoEntry
      BY DEF EntriesKept
    <3>1. whole'[h] = IF h = height THEN {} ELSE whole[h]
      BY <2>1, <2>2 DEF GhostTypeOK
    <3>2. EntryAt(k, h) # NoEntry => \E b \in wrote[h] : EntryAt(k, h) = SetBy(b, k)
      BY DEF EntriesKept
    <3>3. \A b \in whole[h] : SetBy(b, k) # NoEntry => EntryAt(k, h) # NoEntry
      BY DEF EntriesKept
    <3>. QED
      BY <2>1, <2>7, <3>1, <3>2, <3>3
  <2>9. EntryCleared(k)'
    <3>. SUFFICES ASSUME Named(blk, k) \cap Undone' # {}
                  PROVE  EntryAt(k, height)' = NoEntry
      BY <2>1, ZenonT(30) DEF EntryCleared, Named, ObeyedPlaces, Places, OutputAt
    <3>1. CASE Named(blk, k) \cap Undone # {}
      BY <2>1, <2>2, <2>7, <3>1 DEF EntryCleared
    <3>2. CASE Named(blk, k) \cap Undone = {}
      <4>1. here \in Named(blk, k)
        BY <2>3, <3>2
      <4>. QED
        BY <2>1, <2>2, <2>7, <4>1
    <3>. QED
      BY <3>1, <3>2
  <2>10. EntrySet(k)'
    BY <2>1 DEF EntrySet
  <2>. QED
    BY <2>8, <2>9, <2>10
\* A block just taken up has set and cleared nothing, and a node at rest works
\* on no block.
<1>EntriesWork.
    ASSUME NEW k \in SlotKey, TakesUp \/ PutsDown
    PROVE  EntrySet(k)' /\ EntryCleared(k)'
  <2>. USE <1>EntriesWork
  <2>1. ASSUME NEW what \in Connecting \cup Disconnecting, NEW b \in Block, NEW h \in Height,
               Begin(what, b, h)
        PROVE  EntrySet(k)' /\ EntryCleared(k)'
    <3>1. task' = what /\ (what \in Connecting => Passed' = {}) /\ (what \in Disconnecting => Undone' = {})
      BY <2>1, BeginPlaces DEF Begin
    <3>. QED
      BY <3>1 DEF EntrySet, EntryCleared
  <2>2. ASSUME NEW what \in {"idle", "down", "flush"}, Rest(what)
        PROVE  EntrySet(k)' /\ EntryCleared(k)'
    BY <2>2 DEF EntrySet, EntryCleared, Rest, Connecting, Disconnecting
  <2>. QED
    BY <2>1, <2>2 DEF TakesUp, PutsDown
\* A block that is connected to its end has all its entries.
<1>EntriesConnected.
    ASSUME WorkTypeOK, GhostTypeOK, LoopsOK, NEW k \in SlotKey, EntriesKept(k), EntrySet(k),
           ConnectTipDone \/ VerifyReconnected
    PROVE  EntriesKept(k)'
  <2>. USE <1>EntriesConnected
  <2>1. /\ task \in Connecting /\ BlockDone /\ UNCHANGED <<cost, fee>>
        /\ wrote' = [wrote EXCEPT ![height] = @ \cup {blk}]
        /\ whole' = [whole EXCEPT ![height] = @ \cup {blk}]
    BY DEF ConnectTipDone, VerifyReconnected, Connecting, govVars
  <2>2. blk \in Block /\ height \in Height \ {0}
    BY <2>1, WorkHeight
  <2>3. Passed = Places(blk)
    BY <2>1, DonePlaces
  <2>4. SetBy(blk, k) # NoEntry => EntryAt(k, height) # NoEntry
    <3>1. SetBy(blk, k) # NoEntry => About(blk, k) # {} /\ Settable(k)
      BY <1>SetByNothing
    <3>2. About(blk, k) \cap Passed = About(blk, k)
      BY <2>3, PlaceSubsets
    <3>. QED
      BY <2>1, <3>1, <3>2 DEF EntrySet
  <2>. SUFFICES ASSUME NEW h \in Height \ {0}
                PROVE  /\ EntryAt(k, h)' # NoEntry =>
                            \E b \in wrote'[h] : EntryAt(k, h)' = SetBy(b, k)
                       /\ \A b \in whole'[h] : SetBy(b, k) # NoEntry => EntryAt(k, h)' # NoEntry
    BY DEF EntriesKept
  <2>5. EntryAt(k, h)' = EntryAt(k, h)
    BY <2>1 DEF EntryAt
  <2>6. /\ wrote[h] \subseteq wrote'[h]
        /\ \A b \in whole'[h] : b \in whole[h] \/ (b = blk /\ h = height)
    BY <2>1, <2>2 DEF GhostTypeOK
  <2>7. /\ EntryAt(k, h) # NoEntry => \E b \in wrote[h] : EntryAt(k, h) = SetBy(b, k)
        /\ \A b \in whole[h] : SetBy(b, k) # NoEntry => EntryAt(k, h) # NoEntry
    BY DEF EntriesKept
  <2>. QED
    BY <2>4, <2>5, <2>6, <2>7
\* A tip that is disconnected to its end has left no entry.
<1>EntriesDisconnected.
    ASSUME WorkTypeOK, GhostTypeOK, LoopsOK, NEW k \in SlotKey, EntriesKept(k), EntryCleared(k),
           DisconnectTipDone
    PROVE  EntriesKept(k)'
  <2>. USE <1>EntriesDisconnected
  <2>1. /\ task \in Disconnecting /\ BlockDone /\ UNCHANGED <<cost, fee, whole>>
        /\ wrote' = [wrote EXCEPT ![height] = @ \ {blk}]
    BY DEF DisconnectTipDone, Disconnecting, govVars
  <2>2. blk \in Block /\ height \in Height \ {0}
    BY <2>1, WorkHeight
  <2>3. Undone = Places(blk)
    BY <2>1, DonePlaces
  <2>4. SetBy(blk, k) # NoEntry => EntryAt(k, height) = NoEntry
    <3>1. SetBy(blk, k) # NoEntry => Named(blk, k) # {}
      BY <1>SetByNothing, PlaceSubsets
    <3>2. Named(blk, k) \cap Undone = Named(blk, k)
      BY <2>3, PlaceSubsets
    <3>. QED
      BY <2>1, <3>1, <3>2 DEF EntryCleared
  <2>. SUFFICES ASSUME NEW h \in Height \ {0}
                PROVE  /\ EntryAt(k, h)' # NoEntry =>
                            \E b \in wrote'[h] : EntryAt(k, h)' = SetBy(b, k)
                       /\ \A b \in whole'[h] : SetBy(b, k) # NoEntry => EntryAt(k, h)' # NoEntry
    BY DEF EntriesKept
  <2>5. EntryAt(k, h)' = EntryAt(k, h)
    BY <2>1 DEF EntryAt
  <2>6. \A b \in wrote[h] : b \in wrote'[h] \/ (b = blk /\ h = height)
    BY <2>1, <2>2 DEF GhostTypeOK
  <2>7. /\ EntryAt(k, h) # NoEntry => \E b \in wrote[h] : EntryAt(k, h) = SetBy(b, k)
        /\ \A b \in whole[h] : SetBy(b, k) # NoEntry => EntryAt(k, h) # NoEntry
    BY DEF EntriesKept
  <2>. QED
    BY <2>1, <2>4, <2>5, <2>6, <2>7
<1>EntriesStep.
    ASSUME GovTypeOK, WorkTypeOK, GhostTypeOK, LoopsOK, EntriesInv, [Next]_vars
    PROVE  EntriesInv'
  <2>. USE <1>EntriesStep
  <2>. SUFFICES ASSUME NEW k \in SlotKey PROVE (EntriesKept(k) /\ EntrySet(k) /\ EntryCleared(k))'
    BY DEF EntriesInv
  <2>. EntriesKept(k) /\ EntrySet(k) /\ EntryCleared(k)
    BY DEF EntriesInv
  <2>1. TakesUp \/ PutsDown \/ NextTx \/ ConnectOutput \/ DisconnectOutput \/ UNCHANGED vars
    BY WorkStep
  <2>2. CASE ConnectOutput
    BY <2>2, <1>EntriesConnectOutput
  <2>3. CASE DisconnectOutput
    BY <2>3, <1>EntriesDisconnectOutput
  <2>4. ASSUME UNCHANGED <<cost, fee, wrote, whole>> PROVE EntriesKept(k)'
    BY <2>4 DEF EntriesKept, EntryAt
  <2>5. CASE NextTx
    <3>1. UNCHANGED <<cost, fee, wrote, whole, task, blk, height>>
      BY <2>5 DEF NextTx, govVars, ghostVars
    <3>2. CASE task \in Connecting \cup Disconnecting
      <4>1. task \in Connecting => Passed' = Passed
        BY <2>5, <3>2, NextTxPlaces
      <4>2. task \in Disconnecting => Undone' = Undone
        BY <2>5, <3>2, NextTxPlaces
      <4>3. EntrySet(k)'
        BY <3>1, <4>1, ZenonT(30) DEF EntrySet, EntryAt, Settable, About, ActivePlaces, ObeyedPlaces, Places,
                          OutputAt
      <4>4. EntryCleared(k)'
        BY <3>1, <4>2, ZenonT(30) DEF EntryCleared, EntryAt, Named, ObeyedPlaces, Places, OutputAt
      <4>. QED
        BY <2>4, <3>1, <4>3, <4>4
    <3>3. CASE task \notin Connecting \cup Disconnecting
      BY <2>4, <3>1, <3>3 DEF EntrySet, EntryCleared
    <3>. QED
      BY <3>2, <3>3
  <2>6. CASE UNCHANGED vars
    <3>1. UNCHANGED <<cost, fee, wrote, whole>> /\ UNCHANGED workVars
      BY <2>6 DEF vars, govVars, ghostVars
    <3>2. EntrySet(k)'
      BY <3>1, ZenonT(30) DEF workVars, EntrySet, EntryAt, Settable, About, ActivePlaces, ObeyedPlaces, Places,
                  OutputAt, Passed
    <3>3. EntryCleared(k)'
      BY <3>1, ZenonT(30) DEF workVars, EntryCleared, EntryAt, Named, ObeyedPlaces, Places, OutputAt, Undone
    <3>. QED
      BY <2>4, <3>1, <3>2, <3>3
  <2>7. CASE Next /\ (TakesUp \/ PutsDown)
    <3>1. EntrySet(k)' /\ EntryCleared(k)'
      BY <2>7, <1>EntriesWork
    <3>. SUFFICES EntriesKept(k)'
      BY <3>1
    <3>2. ASSUME NEW b \in Block, ConnectTip(b) \/ TestBlockValidity(b) PROVE EntriesKept(k)'
      BY <2>4, <3>2 DEF ConnectTip, TestBlockValidity, govVars, ghostVars
    <3>3. CASE Fail \/ TestBlockValidityDone \/ DisconnectTip
      BY <2>4, <3>3 DEF Fail, TestBlockValidityDone, DisconnectTip, govVars, ghostVars
    <3>4. CASE VerifyDB \/ VerifyNext \/ VerifyStop \/ VerifyTurn
      BY <2>4, <3>4 DEF VerifyDB, VerifyNext, VerifyStop, VerifyTurn, govVars, ghostVars
    <3>5. CASE FlushBegin \/ FlushEnd \/ Crash \/ Restart \/ ReplayNext \/ ReindexChainState
      BY <2>4, <3>5 DEF FlushBegin, FlushEnd, Crash, Restart, ReplayNext, ReindexChainState,
                        govVars, ghostVars
    <3>6. CASE Reindex
      <4>1. /\ cost' = CostAtInit /\ fee' = FeeAtInit
            /\ wrote' = [h \in Height |-> {}] /\ whole' = [h \in Height |-> {}]
        BY <3>6 DEF Reindex, Wipe
      <4>2. \A h \in Height \ {0} : EntryAt(k, h)' = NoEntry
        BY <4>1 DEF EntryAt, CostAtInit, FeeAtInit, SlotKey
      <4>. QED
        BY <4>1, <4>2, Zenon DEF EntriesKept
    <3>7. CASE ConnectTipDone \/ VerifyReconnected
      BY <3>7, <1>EntriesConnected
    <3>8. CASE DisconnectTipDone
      BY <3>8, <1>EntriesDisconnected
    <3>9. CASE NextTx \/ ConnectOutput \/ DisconnectOutput
      BY <2>2, <2>3, <2>5, <3>9
    <3>. QED
      BY <2>7, <3>2, <3>3, <3>4, <3>5, <3>6, <3>7, <3>8, <3>9 DEF Next
  <2>. QED
    BY <2>1, <2>2, <2>3, <2>5, <2>6, <2>7
<1>1. Init => EntriesInv
  <2>. SUFFICES ASSUME Init PROVE EntriesInv
    OBVIOUS
  <2>1. \A k \in SlotKey, h \in Height \ {0} : EntryAt(k, h) = NoEntry
    BY DEF Init, GovInit, EntryAt, CostAtInit, FeeAtInit, SlotKey
  <2>2. \A h \in Height : whole[h] = {}
    BY DEF Init
  <2>3. task \notin Connecting \cup Disconnecting
    BY DEF Init, Connecting, Disconnecting
  <2>. QED
    BY <2>1, <2>2, <2>3 DEF EntriesInv, EntriesKept, EntrySet, EntryCleared
<1>2. TypeOK /\ LoopsOK /\ EntriesInv /\ [Next]_vars => EntriesInv'
  BY <1>EntriesStep DEF TypeOK
<1>3. TypeOK /\ EntriesInv => EntriesFollowChain
  <2>. SUFFICES ASSUME TypeOK, EntriesInv, NEW h \in Height \ {0}
                PROVE  /\ h > Len(chain) /\ wrote[h] = {} =>
                            /\ \A t \in CostType : cost[t][h] = NoEntry
                            /\ fee[h] = NoEntry
                       /\ h <= Len(chain) /\ wrote[h] \subseteq {chain[h]} /\ chain[h] \in whole[h] =>
                            /\ \A t \in CostType : cost[t][h] = CostOf(chain[h], t)
                            /\ fee[h] = FeeOf(chain[h])
    BY DEF EntriesFollowChain
  <2>1. \A t \in CostType : /\ <<"cost", t>> \in SlotKey
                            /\ EntryAt(<<"cost", t>>, h) = cost[t][h]
                            /\ \A b : SetBy(b, <<"cost", t>>) = CostOf(b, t)
    BY DEF SlotKey, EntryAt, SetBy
  <2>2. /\ <<"fee", "script">> \in SlotKey
        /\ EntryAt(<<"fee", "script">>, h) = fee[h]
        /\ \A b : SetBy(b, <<"fee", "script">>) = FeeOf(b)
    BY DEF SlotKey, EntryAt, SetBy
  <2>3. ASSUME NEW k \in SlotKey
        PROVE  /\ wrote[h] = {} => EntryAt(k, h) = NoEntry
               /\ wrote[h] \subseteq {chain[h]} /\ chain[h] \in whole[h] =>
                     EntryAt(k, h) = SetBy(chain[h], k)
    BY ZenonT(30) DEF EntriesInv, EntriesKept
  <2>4. \A t \in CostType :
          /\ wrote[h] = {} => cost[t][h] = NoEntry
          /\ wrote[h] \subseteq {chain[h]} /\ chain[h] \in whole[h] => cost[t][h] = CostOf(chain[h], t)
    BY <2>1, <2>3, Zenon
  <2>5. /\ wrote[h] = {} => fee[h] = NoEntry
        /\ wrote[h] \subseteq {chain[h]} /\ chain[h] \in whole[h] => fee[h] = FeeOf(chain[h])
    BY <2>2, <2>3
  <2>. QED
    BY <2>4, <2>5
<1>. QED
  BY <1>1, <1>2, <1>3, ChainTypeCorrect, LoopsCorrect, PTL DEF Spec

=============================================================================
