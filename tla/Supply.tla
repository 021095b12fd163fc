-------------------------------- MODULE Supply --------------------------------
(***************************************************************************)
(* The supply of 𝕌, as the rest of the protocol may count on it: what is   *)
(* free, what is locked and what the fee pool has collected, without any   *)
(* account, task or challenge.                                             *)
(*                                                                         *)
(* 𝕌 is minted in one way only, when locked 𝕌 is paid out for work, and in *)
(* proportion to what leaves the lock.  It is destroyed in one way only,   *)
(* as a penalty, and no penalty mints.  The fee pool never pays.           *)
(***************************************************************************)
EXTENDS Integers

CONSTANTS
  Genesis,   \* what is free at the start
  Whole,     \* the denominator of Rate
  Rate       \* minted for each unit paid out of the lock, at most

VARIABLES free, locked, fees, minted, burned

supply == <<free, locked, fees, minted, burned>>

Init == /\ free = Genesis /\ locked = 0 /\ fees = 0
        /\ minted = Genesis /\ burned = 0

\* What leaves the lock and what enters the pool in a step.
unlocked  == locked - locked'
collected == fees' - fees
earned    == minted' - minted
destroyed == burned' - burned

\* Escrow a task, post a stake or a bond.
Lock == /\ locked' >= locked
        /\ free' >= 0 /\ free' = free + unlocked
        /\ UNCHANGED <<fees, minted, burned>>

\* Pay for work, refund the rest, or release a stake.
Unlock == /\ unlocked >= 0 /\ locked' >= 0
          /\ collected \in 0..unlocked
          /\ earned >= 0 /\ earned * Whole <= unlocked * Rate
          /\ free' = free + unlocked - collected + earned
          /\ UNCHANGED burned

\* Claw back, fine, reward, or burn a bond.
Penalise == /\ unlocked >= 0 /\ locked' >= 0
            /\ collected \in 0..unlocked
            /\ destroyed >= 0 /\ free' >= 0
            /\ free' = free + unlocked - collected - destroyed
            /\ UNCHANGED minted

Next == Lock \/ Unlock \/ Penalise

Spec == Init /\ [][Next]_supply
=============================================================================
