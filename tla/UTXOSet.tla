------------------------------ MODULE UTXOSet ------------------------------
(***************************************************************************)
(* What the coins code promises (src/src/coins.h, CCoinsView): three views *)
(* of the set of unspent transaction outputs, each with the block it       *)
(* represents.  The block being processed works on a scratch view, which   *)
(* is committed to the tip or dropped; the tip is saved to disk from time  *)
(* to time; a crash leaves what is on disk.  No caches, no flags.          *)
(***************************************************************************)

CONSTANTS
    Outpoint,
    Coin,
    Spent,   \* the value of an outpoint that has no unspent coin
    Block,
    Null     \* the null block hash

VARIABLES disk, diskBest, tip, tipBest, view, viewBest

vars == <<disk, diskBest, tip, tipBest, view, viewBest>>

Empty == [o \in Outpoint |-> Spent]

Init ==
    /\ disk = Empty /\ tip = Empty /\ view = Empty
    /\ diskBest = Null /\ tipBest = Null /\ viewBest = Null

Add(o, c) ==
    /\ view' = [view EXCEPT ![o] = c]
    /\ UNCHANGED <<disk, diskBest, tip, tipBest, viewBest>>

Spend(o) ==
    /\ view' = [view EXCEPT ![o] = Spent]
    /\ UNCHANGED <<disk, diskBest, tip, tipBest, viewBest>>

SetBestBlock(b) ==
    /\ viewBest' = b
    /\ UNCHANGED <<disk, diskBest, tip, tipBest, view>>

\* The tip becomes what the scratch view shows, all of it at once.
Commit ==
    /\ tip' = view /\ tipBest' = viewBest
    /\ UNCHANGED <<disk, diskBest, view, viewBest>>

Drop ==
    /\ view' = tip /\ viewBest' = tipBest
    /\ UNCHANGED <<disk, diskBest, tip, tipBest>>

Save ==
    /\ disk' = tip /\ diskBest' = tipBest
    /\ UNCHANGED <<tip, tipBest, view, viewBest>>

Crash ==
    /\ tip' = disk /\ tipBest' = diskBest
    /\ view' = disk /\ viewBest' = diskBest
    /\ UNCHANGED <<disk, diskBest>>

Next ==
    \/ \E o \in Outpoint : Spend(o) \/ \E c \in Coin : Add(o, c)
    \/ \E b \in Block : SetBestBlock(b)
    \/ Commit \/ Drop \/ Save \/ Crash

Spec == Init /\ [][Next]_vars
=============================================================================
