-------------------------- MODULE LedgerProperties --------------------------
(***************************************************************************)
(* What the ledger state machine promises.                                 *)
(***************************************************************************)
EXTENDS Ledger

\* Type invariant.  The amounts of the code are unsigned: a debit below zero
\* would wrap or panic, so that no amount is ever negative says that each of
\* them is covered when it is taken.
TypeOK == ledger \in State

\* The 𝕌 of account holders and of the fee pool.
held(s) == SumFunction(s.balance) + SumFunction(s.escrowed)
             + SumFunction(s.bonded) + s.fee_pool

\* check_conservation (I-LEDGER-CONSERVE): the 𝕌 held is the 𝕌 in circulation,
\* whichever of the identities of a task coincide and however often an amount
\* is clamped.  The code's subtraction saturates; it never has to.
Conservation ==
  /\ ledger.burned <= ledger.minted
  /\ held(ledger) = ledger.minted - ledger.burned

-----------------------------------------------------------------------------
open(s, t)    == status(s, t) \in {"Submitted", "Executing"}
settled(s, t) == status(s, t) \in {"Settled", "Failed"}

escrow_lock(s, a) ==
  SumFunction([t \in Task |->
    IF open(s, t) /\ s.tasks[t].requester = a THEN need(t) ELSE 0])

\* An account's escrow is what its open tasks locked, no more and no less: the
\* drain in settle finds its ceiling and fee, and no other path touches it.
EscrowBacked ==
  \A a \in Identity : ledger.escrowed[a] = escrow_lock(ledger, a)

\* The stakes of a's claims that were not released, slashed ones included.
stake_lock(s, a) ==
  SumFunction([t \in Task |->
    IF s.tasks[t] # None /\ s.tasks[t].provider = a /\ t \notin s.released
    THEN s.tasks[t].claim_stake ELSE 0])

\* The bonds of a's challenges that are still pending.
bond_lock(s, a) ==
  SumFunction([t \in Task |->
    IF s.pending_challenges[t] # None /\ s.pending_challenges[t].challenger = a
    THEN s.pending_challenges[t].bond ELSE 0])

\* One bonded amount per account backs all its claims and challenges.  It never
\* exceeds them (no 𝕌 is locked for nothing), and for an account that was never
\* slashed it covers all of them at once: the clamps in advance_epoch and
\* resolve_challenge never cost such an account anything.
BondsBacked ==
  \A a \in Identity :
    /\ ledger.bonded[a] <= stake_lock(ledger, a) + bond_lock(ledger, a)
    /\ ledger.strikes[a] = 0 =>
         ledger.bonded[a] = stake_lock(ledger, a) + bond_lock(ledger, a)

\* The maps keyed by task agree: a proof, a receipt and a Q entry exist for the
\* settled tasks and tell the same story, a provider for the claimed ones, the
\* failed tasks are the slashed ones, and only a settled task is challenged or
\* released, the latter not before its clawback_until.
records_agree(s, t) ==
  LET sub == s.tasks[t]
      rcp == s.receipts[t]
  IN /\ s.proofs[t] # None <=> settled(s, t)
     /\ rcp # None <=> settled(s, t)
     /\ s.q_ledger[t] # None <=> settled(s, t)
     /\ sub # None => /\ sub.provider = None <=> sub.status = "Submitted"
                      /\ sub.fee = fee(Body[t].max_ucu)
     /\ t \in s.slashed <=> status(s, t) = "Failed"
     /\ s.pending_challenges[t] # None => settled(s, t)
     /\ t \in s.released => settled(s, t) /\ rcp.clawback_until <= s.epoch
     /\ settled(s, t) =>
          /\ sub.provider = s.proofs[t].provider
          /\ sub.ucu_count <= Body[t].max_ucu
          /\ sub.ucu_count = rcp.paid_to_provider
          /\ sub.ucu_count = s.q_ledger[t].ucu
          /\ sub.ucu_count = s.proofs[t].ucu_count
          /\ sub.fee = rcp.validator_fee

\* The records of every task agree: each transition writes several of the maps,
\* and none of them leaves one behind.
RecordsAgree == \A t \in Task : records_agree(ledger, t)

\* I-ECON-ONEMINT: everything minted after genesis is the work-issuance of a
\* receipt, so a task mints once and nothing else mints.
MintedByWork ==
  ledger.minted = SumFunction(Allocation)
    + SumFunction([t \in Task |-> IF ledger.receipts[t] = None THEN 0
                                  ELSE ledger.receipts[t].work_issuance])

-----------------------------------------------------------------------------
stage(st) == CASE st = "Unknown"   -> 0
               [] st = "Submitted" -> 1
               [] st = "Executing" -> 2
               [] st = "Settled"   -> 3
               [] st = "Failed"    -> 4

\* What happened to task t before state s is not rewritten on the way to x.
kept(s, x, t) ==
  LET old == s.tasks[t]
      new == x.tasks[t]
  IN /\ stage(status(s, t)) <= stage(status(x, t))
     /\ old # None => /\ new.requester = old.requester
                      /\ old.provider # None => /\ new.provider = old.provider
                                                /\ new.claim_stake = old.claim_stake
     /\ s.receipts[t] # None => /\ x.receipts[t] = s.receipts[t]
                                /\ x.proofs[t] = s.proofs[t]
                                /\ x.q_ledger[t] = s.q_ledger[t]
     /\ t \in s.slashed => t \in x.slashed
     /\ t \in s.released => t \in x.released

\* I-ECON-FINAL: what is settled is never rewritten.  A receipt, its proof and
\* its Q entry stay as they are, a task keeps its requester, provider and stake
\* and only moves forward, and slashing and release are for good.
SettlementFinal == [][\A t \in Task : kept(ledger, ledger', t)]_ledger

slashed_now(s, x, t) == t \in x.slashed \ s.slashed

\* The tasks of provider a that are slashed from s to x.
struck_for(s, x, a) ==
  {t \in x.slashed \ s.slashed : x.tasks[t].provider = a}

\* Account a loses nothing from s to x, or no more than the bond of a challenge
\* of its own that ends.
loses_bond_only(s, x, a) ==
  \/ x.balance[a] = s.balance[a] /\ x.bonded[a] = s.bonded[a]
  \/ \E t \in Task :
       LET pc == s.pending_challenges[t]
       IN /\ pc # None /\ x.pending_challenges[t] = None
          /\ pc.challenger = a
          /\ x.balance[a] >= s.balance[a]
          /\ x.bonded[a] + pc.bond >= s.bonded[a]

\* resolve_fraud is idempotent: whichever of a challenge and an audit proves a
\* fraud first, every slashed task costs its provider one strike, and a verdict
\* that slashes nothing, in which no transaction and no epoch takes part, takes
\* from no account more than the bond of the challenge that it ends.
PenalisedOnce ==
  [][/\ \A a \in Identity :
          ledger'.strikes[a]
            = ledger.strikes[a] + Cardinality(struck_for(ledger, ledger', a))
     /\ (/\ ledger'.slashed = ledger.slashed
         /\ ledger'.nonces = ledger.nonces /\ ledger'.epoch = ledger.epoch)
        => \A a \in Identity : loses_bond_only(ledger, ledger', a)]_ledger

\* The challenge of task t that ends from s to x with a proven fraud gives the
\* bond back.
made_whole(s, x, t) ==
  LET pc == s.pending_challenges[t]
  IN (/\ slashed_now(s, x, t) /\ pc # None
      /\ x.pending_challenges[t] = None
      /\ x.strikes[pc.challenger] = 0)
     => x.balance[pc.challenger] >= s.balance[pc.challenger] + pc.bond

\* A challenger who proves fraud gets the whole bond back, unless it was ever
\* slashed itself: releases and other resolutions have not eaten into it.
HonestChallengerMadeWhole ==
  [][\A t \in Task : made_whole(ledger, ledger', t)]_ledger

\* The fraud of task t that is proven from s to x repays the requester.
clawed_back(s, x, t) ==
  LET sub == s.tasks[t]
  IN (/\ slashed_now(s, x, t)
      /\ s.epoch < s.receipts[t].clawback_until
      /\ sub.requester # sub.provider
      /\ s.strikes[sub.provider] = 0)
     => x.balance[sub.requester]
          >= s.balance[sub.requester]
               + Least(s.receipts[t].paid_to_provider, sub.claim_stake)

\* Before clawback_until a proven fraud repays the requester out of the claim
\* stake: the payment, as far as the stake covers it, unless the provider's
\* stakes were already slashed for another task.
ClawbackReachesRequester ==
  [][\A t \in Task : clawed_back(ledger, ledger', t)]_ledger

-----------------------------------------------------------------------------
(***************************************************************************)
(* The ledger implements the supply: its accounts, tasks and challenges    *)
(* are one way to keep that promise.                                       *)
(***************************************************************************)
Money == INSTANCE Supply WITH
  Genesis <- SumFunction(Allocation),
  Whole   <- PPM,
  Rate    <- params.issuance_rate_ppm,
  free    <- SumFunction(ledger.balance),
  locked  <- SumFunction(ledger.escrowed) + SumFunction(ledger.bonded),
  fees    <- ledger.fee_pool,
  minted  <- ledger.minted,
  burned  <- ledger.burned

\* Every transaction, epoch and verdict locks, unlocks or penalises: it mints
\* out of an emptied escrow only and no more than the rate allows, it never
\* mints and burns at once, and it never pays out of the fee pool.
SupplySpec == Money!Spec

-----------------------------------------------------------------------------
(***************************************************************************)
(* What the repository says of the ledger and the code does not do.        *)
(***************************************************************************)
\* "release any claim stake whose clawback window has closed without a
\* successful challenge" (advance_epoch): a released task can no longer be
\* challenged, and nobody is challenging it.
ReleasedAfterWindow ==
  \A t \in ledger.released :
    /\ ledger.epoch > ledger.receipts[t].clawback_until
    /\ ledger.pending_challenges[t] = None

\* "a slashed task's stake is consumed, not released" (a test of advance_epoch):
\* what an account has bonded backs its tasks that are not slashed.
SlashedStakeConsumed ==
  \A a \in Identity :
    ledger.bonded[a] <=
      bond_lock(ledger, a)
        + SumFunction([t \in Task |->
            IF /\ ledger.tasks[t] # None /\ ledger.tasks[t].provider = a
               /\ t \notin ledger.released \cup ledger.slashed
            THEN ledger.tasks[t].claim_stake ELSE 0])
=============================================================================
