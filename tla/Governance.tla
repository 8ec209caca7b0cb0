----------------------------- MODULE Governance -----------------------------
(***************************************************************************)
(* CGovernance (src/src/governance/governance.cpp): the LevelDB database   *)
(* that holds the list of frozen scripts, the list of scripts authorized   *)
(* to stake, the token issuance costs and the token fee script.  Every     *)
(* operation ends in one WriteBatch on the database: there is no cache in  *)
(* front of it, so one operation is one atomic and immediately visible     *)
(* step, and what it wrote survives a crash of the process.                *)
(***************************************************************************)
EXTENDS Integers, FiniteSets

CONSTANTS
    Script,         \* scripts that governance outputs name
    Dummy,          \* DUMMY_SCRIPT, written by Init to both lists
    BeforeDummy,    \* scripts whose database key sorts before the one of Dummy
    InitAuthorized, \* chainparams.GetInitAuthorized()
    InitFee,        \* chainparams.TokenFeeAddress()
    UpdatableCost,  \* cost types UpdateCost knows: ROOT, REISSUE, UNIQUE, SUB, USERNAME
    FixedCost,      \* the other cost types: MSG_CHANNEL ... RESTRICTED
    Amount,         \* issuance costs
    InitCost,       \* [CostType -> Amount], the costs Init takes from the chain parameters
    MaxHeight,      \* bound on block heights
    UIntMod,        \* 2^32: the counters are unsigned int
    NoEntry         \* a key the database does not hold

ASSUME ScriptAssumption ==
    /\ IsFiniteSet(Script)
    /\ Dummy \in Script
    /\ BeforeDummy \subseteq Script \ {Dummy}
    /\ InitAuthorized \subseteq Script
    /\ InitFee \in Script
    /\ NoEntry \notin Script

ASSUME CostAssumption ==
    /\ UpdatableCost \cap FixedCost = {}
    /\ InitCost \in [UpdatableCost \cup FixedCost -> Amount]
    /\ NoEntry \notin Amount

ASSUME NumberAssumption ==
    /\ MaxHeight \in Nat
    /\ UIntMod \in Nat \ {0}
    /\ Cardinality(Script) < UIntMod
    /\ NoEntry \notin 0 .. UIntMod - 1

CostType == UpdatableCost \cup FixedCost
Height == 0 .. MaxHeight
UInt == 0 .. UIntMod - 1

\* What the database says of a script: no entry, or the flag in the details of
\* its FreezeEntry (frozen) or AuthorityEntry (authorized).
Listing == {"unknown", "listed", "unlisted"}

VARIABLES
    freeze,      \* FreezeEntry -> FreezeDetails
    nFrozen,     \* DB_NUMBER_FROZEN
    authority,   \* AuthorityEntry -> AuthorityDetails
    nAuthorized, \* DB_NUMBER_AUTHORIZED
    cost,        \* CostEntry(type, height) -> CostDetails
    fee          \* FeeEntry(height) -> FeeDetails

freezeVars == <<freeze, nFrozen>>
authorityVars == <<authority, nAuthorized>>
govVars == <<freeze, nFrozen, authority, nAuthorized, cost, fee>>

Frozen == {s \in Script : freeze[s] = "listed"}
Authorized == {s \in Script : authority[s] = "listed"}

-----------------------------------------------------------------------------
(* Init on a new or wiped database.  It lists Dummy as frozen without      *)
(* counting it, and does not write DB_NUMBER_AUTHORIZED.                   *)

FreezeAtInit == [s \in Script |-> IF s = Dummy THEN "listed" ELSE "unknown"]
AuthorityAtInit ==
    [s \in Script |-> IF s \in InitAuthorized \cup {Dummy} THEN "listed" ELSE "unknown"]
CostAtInit == [t \in CostType |-> [h \in Height |-> IF h = 0 THEN InitCost[t] ELSE NoEntry]]
FeeAtInit == [h \in Height |-> IF h = 0 THEN InitFee ELSE NoEntry]

GovInit ==
    /\ freeze = FreezeAtInit
    /\ nFrozen = 0
    /\ authority = AuthorityAtInit
    /\ nAuthorized = NoEntry
    /\ cost = CostAtInit
    /\ fee = FeeAtInit

\* The constructor wipes the database and Init(fWipe) fills it again.
Wipe ==
    /\ freeze' = FreezeAtInit
    /\ nFrozen' = 0
    /\ authority' = AuthorityAtInit
    /\ nAuthorized' = NoEntry
    /\ cost' = CostAtInit
    /\ fee' = FeeAtInit

-----------------------------------------------------------------------------
(* The freeze list.                                                        *)

\* Unsigned arithmetic wraps.
Inc(n) == (n + 1) % UIntMod
Dec(n) == (n - 1) % UIntMod

\* Mutant: counts a script that is frozen already once more.
FreezeScriptRecounting(s) ==
    /\ freeze' = [freeze EXCEPT ![s] = "listed"]
    /\ nFrozen' = Inc(nFrozen)
    /\ UNCHANGED <<authorityVars, cost, fee>>

FreezeScript(s) ==
    /\ freeze' = [freeze EXCEPT ![s] = "listed"]
    /\ nFrozen' = IF freeze[s] = "listed" THEN nFrozen ELSE Inc(nFrozen)
    /\ UNCHANGED <<authorityVars, cost, fee>>

UnfreezeScript(s) ==
    /\ freeze' = [freeze EXCEPT ![s] = "unlisted"]
    /\ nFrozen' = IF freeze[s] = "listed" THEN Dec(nFrozen) ELSE nFrozen
    /\ UNCHANGED <<authorityVars, cost, fee>>

\* A revert that does not find what it is to revert returns false and writes
\* nothing; its callers ignore the result.
RevertFreezeScript(s) ==
    \/ /\ freeze[s] = "listed"
       /\ freeze' = [freeze EXCEPT ![s] = "unlisted"]
       /\ nFrozen' = Dec(nFrozen)
       /\ UNCHANGED <<authorityVars, cost, fee>>
    \/ /\ freeze[s] # "listed"
       /\ UNCHANGED govVars

RevertUnfreezeScript(s) ==
    \/ /\ freeze[s] = "unlisted"
       /\ freeze' = [freeze EXCEPT ![s] = "listed"]
       /\ nFrozen' = Inc(nFrozen)
       /\ UNCHANGED <<authorityVars, cost, fee>>
    \/ /\ freeze[s] # "unlisted"
       /\ UNCHANGED govVars

CanSend(s) == freeze[s] # "listed"

\* The iteration starts at the key of Dummy.
GetFrozenScripts == Frozen \ BeforeDummy

-----------------------------------------------------------------------------
(* The list of authorized stakers.                                         *)

\* Read leaves `unsigned int number` uninitialized when the key is missing,
\* which it is until the first write of the counter.
ReadNumber(n) == IF n = NoEntry THEN UInt ELSE {n}

\* Mutant: forgets to write the counter.
AuthorizeScriptUncounted(s) ==
    /\ authority' = [authority EXCEPT ![s] = "listed"]
    /\ UNCHANGED <<freezeVars, nAuthorized, cost, fee>>

AuthorizeScript(s) ==
    /\ authority' = [authority EXCEPT ![s] = "listed"]
    /\ IF authority[s] = "listed"
         THEN UNCHANGED nAuthorized
         ELSE \E n \in ReadNumber(nAuthorized) : nAuthorized' = Inc(n)
    /\ UNCHANGED <<freezeVars, cost, fee>>

UnauthorizeScript(s) ==
    /\ authority' = [authority EXCEPT ![s] = "unlisted"]
    /\ IF authority[s] = "listed"
         THEN \E n \in ReadNumber(nAuthorized) : nAuthorized' = Dec(n)
         ELSE UNCHANGED nAuthorized
    /\ UNCHANGED <<freezeVars, cost, fee>>

RevertAuthorizeScript(s) ==
    \/ /\ authority[s] = "listed"
       /\ authority' = [authority EXCEPT ![s] = "unlisted"]
       /\ \E n \in ReadNumber(nAuthorized) : nAuthorized' = Dec(n)
       /\ UNCHANGED <<freezeVars, cost, fee>>
    \/ /\ authority[s] # "listed"
       /\ UNCHANGED govVars

RevertUnauthorizeScript(s) ==
    \/ /\ authority[s] = "unlisted"
       /\ authority' = [authority EXCEPT ![s] = "listed"]
       /\ \E n \in ReadNumber(nAuthorized) : nAuthorized' = Inc(n)
       /\ UNCHANGED <<freezeVars, cost, fee>>
    \/ /\ authority[s] # "unlisted"
       /\ UNCHANGED govVars

CanStake(s) == authority[s] = "listed"

GetActiveValidatorsScript == Authorized \ BeforeDummy

-----------------------------------------------------------------------------
(* Issuance costs and the fee script: one entry per height that changed it. *)

\* Mutant: accepts every type.
UpdateCostAnyType(a, t, h) ==
    /\ cost' = IF cost[t][h] = NoEntry THEN [cost EXCEPT ![t][h] = a] ELSE cost
    /\ UNCHANGED <<freezeVars, authorityVars, fee>>

\* An update at a height that has an entry already keeps the first one, and a
\* type outside UpdatableCost is refused.
UpdateCost(a, t, h) ==
    /\ cost' = IF t \in UpdatableCost /\ cost[t][h] = NoEntry
                 THEN [cost EXCEPT ![t][h] = a]
                 ELSE cost
    /\ UNCHANGED <<freezeVars, authorityVars, fee>>

RevertUpdateCost(t, h) ==
    /\ cost' = [cost EXCEPT ![t][h] = NoEntry]
    /\ UNCHANGED <<freezeVars, authorityVars, fee>>

UpdateFeeScript(s, h) ==
    /\ fee' = IF fee[h] = NoEntry THEN [fee EXCEPT ![h] = s] ELSE fee
    /\ UNCHANGED <<freezeVars, authorityVars, cost>>

RevertUpdateFeeScript(h) ==
    /\ fee' = [fee EXCEPT ![h] = NoEntry]
    /\ UNCHANGED <<freezeVars, authorityVars, cost>>

\* The entry with the greatest height is the one in force.
Latest(entries) ==
    entries[CHOOSE h \in Height :
                /\ entries[h] # NoEntry
                /\ \A k \in Height : entries[k] # NoEntry => k <= h]

GetCost(t) == Latest(cost[t])
GetFeeScript == Latest(fee)

-----------------------------------------------------------------------------
(* The database under any sequence of calls.                               *)

GovNext ==
    \/ Wipe
    \/ \E s \in Script :
          \/ FreezeScript(s)
          \/ UnfreezeScript(s)
          \/ RevertFreezeScript(s)
          \/ RevertUnfreezeScript(s)
          \/ AuthorizeScript(s)
          \/ UnauthorizeScript(s)
          \/ RevertAuthorizeScript(s)
          \/ RevertUnauthorizeScript(s)
    \/ \E h \in Height \ {0} :
          \/ \E t \in CostType, a \in Amount : UpdateCost(a, t, h)
          \/ \E t \in CostType : RevertUpdateCost(t, h)
          \/ \E s \in Script : UpdateFeeScript(s, h)
          \/ RevertUpdateFeeScript(h)

GovSpec == GovInit /\ [][GovNext]_govVars

-----------------------------------------------------------------------------
(* Properties.                                                             *)

\* Type invariant of the database.
GovTypeOK ==
    /\ freeze \in [Script -> Listing]
    /\ nFrozen \in UInt
    /\ authority \in [Script -> Listing]
    /\ nAuthorized \in UInt \cup {NoEntry}
    /\ cost \in [CostType -> [Height -> Amount \cup {NoEntry}]]
    /\ fee \in [Height -> Script \cup {NoEntry}]

\* The counter GetNumberOfFrozenScripts reports is the number of frozen
\* scripts less the dummy that Init wrote without counting it, whatever mix of
\* freezes, unfreezes and reverts led here; when the dummy itself is unfrozen
\* the unsigned counter wraps as the difference does.
FrozenCountExact == nFrozen = (Cardinality(Frozen) - 1) % UIntMod

\* DB_NUMBER_AUTHORIZED starts from whatever the uninitialized read returned,
\* but from its first write on it moves with the list: its distance to the
\* number of authorized scripts stays the same until the database is wiped.
AuthorizedCountTracks ==
    [][nAuthorized # NoEntry /\ nAuthorized' # NoEntry =>
          (nAuthorized' - Cardinality(Authorized')) % UIntMod
              = (nAuthorized - Cardinality(Authorized)) % UIntMod]_govVars

\* Every type has a cost in force and there is a fee script in force: no
\* revert removes the entries of height 0, and the types UpdateCost refuses
\* keep the cost of the chain parameters for ever.
CostAlwaysInForce ==
    /\ \A t \in CostType : GetCost(t) \in Amount
    /\ \A t \in FixedCost : GetCost(t) = InitCost[t]
    /\ GetFeeScript \in Script

=============================================================================
