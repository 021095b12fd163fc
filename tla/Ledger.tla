------------------------------- MODULE Ledger -------------------------------
(***************************************************************************)
(* The deterministic ledger state machine of crates/ledger.                *)
(*                                                                         *)
(* As in the code, every operation is a pure function from a ledger state  *)
(* s to the next one.  An operation of the code that can be rejected is    *)
(* split in two: CanX(s, ...) holds when the code reaches its Ok, and      *)
(* x(s, ...) is the state it returns then.  A rejected transaction leaves  *)
(* the state alone (apply discards its working copy), so it is no step     *)
(* here, and which Reject it yields is left out.                           *)
(*                                                                         *)
(* A map of the code is a total function: an account, Standing or nonce    *)
(* that is missing reads as zero, which is how the code reads it, and a    *)
(* missing task, proof, receipt, entry or challenge is None.  A TaskId is  *)
(* the hash of its TaskBody, so the body of a task is a constant.          *)
(***************************************************************************)
EXTENDS Governance, Functions, FiniteSets

CONSTANTS
  Identity,    \* the accounts; one may be requester, provider and challenger
  Task,        \* the TaskIds
  Body,        \* Body[t]: the TaskBody that hashes to t
  Benchmark,   \* benchmark versions
  Result,      \* the result_hash of a proof; its output is read by nothing
  Ucu,         \* the amounts a transaction may name
  Allocation,  \* the genesis balances
  None,        \* an absent value
  MaxEpoch,    \* bound on the epochs of a behaviour
  MaxNonce     \* bound on the transactions of one author

TaskBody == [ max_ucu   : Nat,
              deadline  : Nat,
              benchmark : Benchmark,
              supported : BOOLEAN ]     \* a Wasm task of the sampled tier

ASSUME IdentityAssumption == IsFiniteSet(Identity)
ASSUME TaskAssumption == IsFiniteSet(Task)
ASSUME BodyAssumption == Body \in [Task -> TaskBody]
ASSUME UcuAssumption == Ucu \subseteq Nat
ASSUME AllocationAssumption == Allocation \in [Identity -> Nat]
ASSUME BoundAssumption == MaxEpoch \in Nat /\ MaxNonce \in Nat

-----------------------------------------------------------------------------
(***************************************************************************)
(* The records of the state.  Verified is passed through inside one        *)
(* transition and Matched is never set, so a task is seen in four states.  *)
(***************************************************************************)
TaskStatus == {"Submitted", "Executing", "Settled", "Failed"}

Submission == [ status      : TaskStatus,
                requester   : Identity,
                provider    : Identity \cup {None},
                fee         : Nat,
                claim_stake : Nat,
                ucu_count   : Nat ]

ComputeProof == [ provider  : Identity,
                  ucu_count : Ucu,
                  benchmark : Benchmark,
                  result    : Result ]

Receipt == [ paid_to_provider : Nat,
             work_issuance    : Nat,
             validator_fee    : Nat,
             standing_delta   : Nat,
             settled_epoch    : Nat,
             clawback_until   : Nat ]

QLedgerEntry == [ ucu : Nat, benchmark : Benchmark, q : {None} ]

ChallengeRecord == [ challenger : Identity, bond : Nat ]

State == [ balance   : [Identity -> Nat],      \* accounts, one map per field
           escrowed  : [Identity -> Nat],
           bonded    : [Identity -> Nat],
           sp        : [Identity -> Nat],      \* standing
           strikes   : [Identity -> Nat],
           tasks     : [Task -> Submission \cup {None}],
           proofs    : [Task -> ComputeProof \cup {None}],
           receipts  : [Task -> Receipt \cup {None}],
           q_ledger  : [Task -> QLedgerEntry \cup {None}],
           pending_challenges : [Task -> ChallengeRecord \cup {None}],
           slashed   : SUBSET Task,
           released  : SUBSET Task,
           nonces    : [Identity -> Nat],
           minted    : Nat,
           burned    : Nat,
           fee_pool  : Nat,
           epoch     : Nat ]

ASSUME NoneAssumption ==
  None \notin Identity \cup Submission \cup ComputeProof \cup Receipt
              \cup QLedgerEntry \cup ChallengeRecord \cup State

nobody == [a \in Identity |-> 0]
nothing == [t \in Task |-> None]

genesis == [ balance   |-> Allocation,
             escrowed  |-> nobody,
             bonded    |-> nobody,
             sp        |-> nobody,
             strikes   |-> nobody,
             tasks     |-> nothing,
             proofs    |-> nothing,
             receipts  |-> nothing,
             q_ledger  |-> nothing,
             pending_challenges |-> nothing,
             slashed   |-> {},
             released  |-> {},
             nonces    |-> nobody,
             minted    |-> SumFunction(Allocation),
             burned    |-> 0,
             fee_pool  |-> 0,
             epoch     |-> 0 ]

Credit(f, a, n) == [f EXCEPT ![a] = @ + n]
Debit(f, a, n)  == [f EXCEPT ![a] = @ - n]

-----------------------------------------------------------------------------
(***************************************************************************)
(* Transactions.                                                           *)
(***************************************************************************)
status(s, t) == IF s.tasks[t] = None THEN "Unknown" ELSE s.tasks[t].status

\* What a requester locks for task t: the ceiling and the fee.
need(t) == Body[t].max_ucu + fee(Body[t].max_ucu)

\* Slip: the balance is compared with the ceiling alone.
CanSubmitTask_without_fee(s, requester, t) ==
  /\ Body[t].supported /\ s.tasks[t] = None
  /\ s.balance[requester] >= Body[t].max_ucu

\* Slip: a body may be submitted twice.
CanSubmitTask_twice(s, requester, t) ==
  Body[t].supported /\ s.balance[requester] >= need(t)

CanSubmitTask(s, requester, t) ==
  /\ Body[t].supported
  /\ s.tasks[t] = None
  /\ s.balance[requester] >= need(t)

submit_task(s, requester, t) ==
  [s EXCEPT !.balance  = Debit(@, requester, need(t)),
            !.escrowed = Credit(@, requester, need(t)),
            !.tasks[t] = [ status      |-> "Submitted",
                           requester   |-> requester,
                           provider    |-> None,
                           fee         |-> fee(Body[t].max_ucu),
                           claim_stake |-> 0,
                           ucu_count   |-> 0 ]]

stake(s, provider, t) == claim_stake(Body[t].max_ucu, s.sp[provider])

\* Slip: a task that was claimed before may be claimed again.
CanClaimTask_again(s, provider, t) ==
  /\ status(s, t) # "Unknown"
  /\ s.epoch <= Body[t].deadline
  /\ s.balance[provider] >= stake(s, provider, t)

CanClaimTask(s, provider, t) ==
  /\ status(s, t) = "Submitted"
  /\ s.epoch <= Body[t].deadline
  /\ s.balance[provider] >= stake(s, provider, t)

claim_task(s, provider, t) ==
  [s EXCEPT !.balance = Debit(@, provider, stake(s, provider, t)),
            !.bonded  = Credit(@, provider, stake(s, provider, t)),
            !.tasks[t] = [@ EXCEPT !.provider    = provider,
                                   !.status      = "Executing",
                                   !.claim_stake = stake(s, provider, t)]]

\* Slip: the status of the task is not looked at.
CanSubmitProof_again(s, author, t, proof) ==
  /\ s.tasks[t] # None
  /\ s.tasks[t].provider = author /\ proof.provider = author
  /\ proof.ucu_count <= Body[t].max_ucu
  /\ proof.benchmark = Body[t].benchmark

\* The author of the transaction has to be the provider twice over.  There is
\* no deadline here: a claimed task may be proved at any later epoch.
CanSubmitProof(s, author, t, proof) ==
  /\ status(s, t) = "Executing"
  /\ s.tasks[t].provider = author /\ proof.provider = author
  /\ proof.ucu_count <= Body[t].max_ucu
  /\ proof.benchmark = Body[t].benchmark

\* Drain the escrow into payment, refund and fee; mint the issuance; accrue
\* Standing.
pay(s, t, provider, u) ==
  LET requester == s.tasks[t].requester
      refunded  == Credit(s.balance, requester, Body[t].max_ucu - u)
  IN [s EXCEPT
        !.escrowed = Debit(@, requester, Body[t].max_ucu + s.tasks[t].fee),
        !.balance  = Credit(refunded, provider, u + issuance(u)),
        !.fee_pool = @ + s.tasks[t].fee,
        !.minted   = @ + issuance(u),
        !.sp       = Credit(@, provider, standing_accrual(u))]

\* Slip: the issuance is left out.
receipt_unissued(s, t, u) ==
  [ paid_to_provider |-> u,
    work_issuance    |-> 0,
    validator_fee    |-> s.tasks[t].fee,
    standing_delta   |-> standing_accrual(u),
    settled_epoch    |-> s.epoch,
    clawback_until   |-> s.epoch + params.clawback_epochs ]

receipt(s, t, u) ==
  [ paid_to_provider |-> u,
    work_issuance    |-> issuance(u),
    validator_fee    |-> s.tasks[t].fee,
    standing_delta   |-> standing_accrual(u),
    settled_epoch    |-> s.epoch,
    clawback_until   |-> s.epoch + params.clawback_epochs ]

\* Pay, write the receipt and the Q entry, finalize the status.
settle(s, t, proof) ==
  LET u == proof.ucu_count
  IN [pay(s, t, proof.provider, u) EXCEPT
        !.receipts[t] = receipt(s, t, u),
        !.tasks[t]    = [@ EXCEPT !.status = "Settled"],
        !.q_ledger[t] = [ ucu |-> u, benchmark |-> Body[t].benchmark, q |-> None ]]

submit_proof(s, t, proof) ==
  settle([s EXCEPT !.proofs[t] = proof,
                   !.tasks[t] = [@ EXCEPT !.ucu_count = proof.ucu_count]],
         t, proof)

\* The window is closed from the epoch after clawback_until.
CanOpenChallenge(s, challenger, t, bond) ==
  /\ s.receipts[t] # None
  /\ status(s, t) = "Settled"
  /\ s.epoch <= s.receipts[t].clawback_until
  /\ t \notin s.slashed /\ s.pending_challenges[t] = None
  /\ bond >= bond_min(s.receipts[t].paid_to_provider)
  /\ s.balance[challenger] >= bond

open_challenge(s, challenger, t, bond) ==
  [s EXCEPT !.balance = Debit(@, challenger, bond),
            !.bonded  = Credit(@, challenger, bond),
            !.pending_challenges[t] = [challenger |-> challenger, bond |-> bond]]

\* Slip: the balance is not looked at.
CanTransfer_unfunded(s, from, amount) == s.balance[from] >= 0

CanTransfer(s, from, amount) == s.balance[from] >= amount

\* Slip: both balances are read before either is written.
transfer_stale(s, from, to, amount) ==
  [s EXCEPT !.balance = [@ EXCEPT ![from] = s.balance[from] - amount,
                                  ![to]   = s.balance[to] + amount]]

transfer(s, from, to, amount) ==
  [s EXCEPT !.balance = Credit(Debit(@, from, amount), to, amount)]

\* A transaction is admitted with the author's next nonce only.
bump_nonce(s, author) == [s EXCEPT !.nonces = Credit(@, author, 1)]

-----------------------------------------------------------------------------
(***************************************************************************)
(* The epoch boundary.  The code releases the matured stakes one by one,   *)
(* each clamped to what the provider still has bonded; together they free  *)
(* the sum of a provider's matured stakes, clamped once.                   *)
(***************************************************************************)
\* Slip: the window is not looked at.
matured_early(s, epoch) ==
  {t \in Task : /\ s.receipts[t] # None
                /\ t \notin s.released /\ t \notin s.slashed
                /\ s.tasks[t].provider # None}

\* Slip: released stakes mature again.
matured_again(s, epoch) ==
  {t \in Task : /\ s.receipts[t] # None
                /\ s.receipts[t].clawback_until <= epoch
                /\ t \notin s.slashed
                /\ s.tasks[t].provider # None}

matured(s, epoch) ==
  {t \in Task : /\ s.receipts[t] # None
                /\ s.receipts[t].clawback_until <= epoch
                /\ t \notin s.released /\ t \notin s.slashed
                /\ s.tasks[t].provider # None}

matured_stake(s, epoch, provider) ==
  SumFunction([t \in Task |->
    IF t \in matured(s, epoch) /\ s.tasks[t].provider = provider
    THEN s.tasks[t].claim_stake ELSE 0])

freed(s, epoch, provider) ==
  Least(matured_stake(s, epoch, provider), s.bonded[provider])

advance_epoch(s) ==
  LET epoch == s.epoch + 1
  IN [s EXCEPT
        !.epoch    = epoch,
        !.sp       = [a \in Identity |-> decay(s.sp[a])],
        !.bonded   = [a \in Identity |-> s.bonded[a] - freed(s, epoch, a)],
        !.balance  = [a \in Identity |-> s.balance[a] + freed(s, epoch, a)],
        !.released = @ \cup matured(s, epoch)]

-----------------------------------------------------------------------------
(***************************************************************************)
(* Fraud and challenges.  Every amount is clamped to what is there.        *)
(***************************************************************************)
\* Slip: a slashed task may be slashed again.
CanResolveFraud_again(s, t) ==
  s.receipts[t] # None /\ s.tasks[t].provider # None

CanResolveFraud(s, t) ==
  t \notin s.slashed /\ s.receipts[t] # None /\ s.tasks[t].provider # None

\* Claw the payment back from the bond, burn the issuance, take the fine from
\* what is left of the bond.  Without a challenger to reward (reward_to is None)
\* the reward goes to the fee pool.
take_fraud_penalties(s, t, reward_to) ==
  LET provider   == s.tasks[t].provider
      requester  == s.tasks[t].requester
      p          == s.receipts[t].paid_to_provider
      recovered  == Least(p, s.bonded[provider])
      repaid     == Credit(s.balance, requester, recovered)
      burn_w     == Least(s.receipts[t].work_issuance, repaid[provider])
      fine_avail == Least(fine(p), s.bonded[provider] - recovered)
      reward     == Least(challenger_reward(fine(p)), fine_avail)
      punished   == Debit(repaid, provider, burn_w)
  IN [s EXCEPT
        !.bonded   = Debit(@, provider, recovered + fine_avail),
        !.balance  = IF reward_to = None THEN punished
                     ELSE Credit(punished, reward_to, reward),
        !.fee_pool = IF reward_to = None THEN @ + reward ELSE @,
        !.burned   = @ + burn_w + (fine_avail - reward)]

\* Take the money, floor the Standing, and mark the task.
penalise(s, t, reward_to) ==
  LET provider == s.tasks[t].provider
  IN [take_fraud_penalties(s, t, reward_to) EXCEPT
        !.sp[provider] = 0,
        !.strikes  = Credit(@, provider, 1),
        !.slashed  = @ \cup {t},
        !.tasks[t] = [@ EXCEPT !.status = "Failed"]]

\* Slashing a task again, or one that never settled, changes nothing.
resolve_fraud(s, t, reward_to) ==
  IF CanResolveFraud(s, t) THEN penalise(s, t, reward_to) ELSE s

\* On fraud the penalties fall first and the bond is returned after them, as
\* far as it is still there; otherwise the bond is burned.
close_challenge(s, t, fraud) ==
  LET pc     == s.pending_challenges[t]
      closed == [s EXCEPT !.pending_challenges[t] = None]
      judged == IF fraud THEN resolve_fraud(closed, t, pc.challenger) ELSE closed
      b      == Least(pc.bond, judged.bonded[pc.challenger])
  IN [judged EXCEPT
        !.bonded  = Debit(@, pc.challenger, b),
        !.balance = IF fraud THEN Credit(@, pc.challenger, b) ELSE @,
        !.burned  = IF fraud THEN @ ELSE @ + b]

\* Slip: only a proven fraud closes the challenge.
resolve_challenge_proven(s, t, fraud) ==
  IF s.pending_challenges[t] = None \/ ~ fraud THEN s ELSE close_challenge(s, t, fraud)

resolve_challenge(s, t, fraud) ==
  IF s.pending_challenges[t] = None THEN s ELSE close_challenge(s, t, fraud)

-----------------------------------------------------------------------------
(***************************************************************************)
(* The state machine: any author may send any transaction, an epoch may    *)
(* end, a pending challenge may be resolved either way, and a sampling     *)
(* audit may prove fraud on any settled task.                              *)
(***************************************************************************)
VARIABLE ledger

Init == ledger = genesis

\* A transaction of author with effect s.
Apply(author, s) ==
  /\ ledger.nonces[author] < MaxNonce
  /\ ledger' = bump_nonce(s, author)

SubmitTask ==
  \E a \in Identity, t \in Task :
    CanSubmitTask(ledger, a, t) /\ Apply(a, submit_task(ledger, a, t))

ClaimTask ==
  \E a \in Identity, t \in Task :
    CanClaimTask(ledger, a, t) /\ Apply(a, claim_task(ledger, a, t))

SubmitProof ==
  \E a \in Identity, t \in Task, proof \in ComputeProof :
    CanSubmitProof(ledger, a, t, proof) /\ Apply(a, submit_proof(ledger, t, proof))

Challenge ==
  \E a \in Identity, t \in Task, bond \in Ucu :
    CanOpenChallenge(ledger, a, t, bond) /\ Apply(a, open_challenge(ledger, a, t, bond))

Transfer ==
  \E a, to \in Identity, amount \in Ucu :
    CanTransfer(ledger, a, amount) /\ Apply(a, transfer(ledger, a, to, amount))

AdvanceEpoch ==
  ledger.epoch < MaxEpoch /\ ledger' = advance_epoch(ledger)

ResolveChallenge ==
  \E t \in Task, fraud \in BOOLEAN :
    /\ ledger.pending_challenges[t] # None
    /\ ledger' = resolve_challenge(ledger, t, fraud)

SamplingAudit ==
  \E t \in Task :
    CanResolveFraud(ledger, t) /\ ledger' = resolve_fraud(ledger, t, None)

Next == \/ SubmitTask
        \/ ClaimTask
        \/ SubmitProof
        \/ Challenge
        \/ Transfer
        \/ AdvanceEpoch
        \/ ResolveChallenge
        \/ SamplingAudit

Spec == Init /\ [][Next]_ledger
=============================================================================
