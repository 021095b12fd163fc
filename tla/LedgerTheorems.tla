---------------------------- MODULE LedgerTheorems ----------------------------
(***************************************************************************)
(* Theorems about the ledger state machine, for every parameter set, any   *)
(* finite sets of accounts and tasks, and any bounds.                      *)
(*                                                                         *)
(* TypeOK is not inductive: that the drain in settle leaves the escrow     *)
(* non-negative takes EscrowBacked, and that the drained amount is what    *)
(* submit_task locked takes RecordsAgree.  The three are proved together,  *)
(* as the inductive invariant Sound.                                       *)
(***************************************************************************)
EXTENDS LedgerRecords

-----------------------------------------------------------------------------
(***************************************************************************)
(* Escrow.                                                                 *)
(***************************************************************************)
\* What task t locks in the escrow of a.
escrow_term(s, t, a) ==
  IF open(s, t) /\ s.tasks[t].requester = a THEN need(t) ELSE 0

\* Every escrow is what the open tasks locked.
Backed(s) == \A a \in Identity : s.escrowed[a] = escrow_lock(s, a)

\* An escrow term is an amount.
LEMMA EscrowTermType ==
  ASSUME NEW s, NEW t \in Task, NEW a
  PROVE  escrow_term(s, t, a) \in Nat
BY BodyType DEF escrow_term

\* The lock is the sum of its terms.
LEMMA EscrowLockIs ==
  ASSUME NEW s, NEW a
  PROVE  escrow_lock(s, a) = SumFunction([t \in Task |-> escrow_term(s, t, a)])
BY DEF escrow_lock, escrow_term

\* An open task's need is in its requester's escrow.
LEMMA EscrowCovers ==
  ASSUME NEW s \in State, Backed(s), NEW t \in Task, open(s, t),
         s.tasks[t].requester \in Identity
  PROVE  need(t) <= s.escrowed[s.tasks[t].requester]
<1> DEFINE a == s.tasks[t].requester
           f == [v \in Task |-> escrow_term(s, v, a)]
<1>1. f \in [Task -> Nat] /\ f[t] = need(t)
  BY EscrowTermType DEF escrow_term
<1>2. f[t] <= SumFunction(f)
  <2> HIDE DEF f
  <2> QED BY <1>1, TaskAssumption, SumFunctionType
<1> QED BY <1>1, <1>2, EscrowLockIs DEF Backed

\* A step that changes no escrow term and no escrow.
LEMMA BackedSame ==
  ASSUME NEW s, NEW x, Backed(s), x.escrowed = s.escrowed,
         \A t \in Task, a \in Identity : escrow_term(x, t, a) = escrow_term(s, t, a)
  PROVE  Backed(x)
<1>1. ASSUME NEW a \in Identity PROVE escrow_lock(x, a) = escrow_lock(s, a)
  <2>1. [t \in Task |-> escrow_term(x, t, a)] = [t \in Task |-> escrow_term(s, t, a)]
    OBVIOUS
  <2> QED BY <2>1, EscrowLockIs
<1> QED BY <1>1 DEF Backed

\* A step that changes the terms of task t only moves the lock by as much.
LEMMA EscrowLockChange ==
  ASSUME NEW s, NEW x, NEW t \in Task, NEW a,
         \A v \in Task : v # t => escrow_term(x, v, a) = escrow_term(s, v, a)
  PROVE  /\ escrow_lock(s, a) \in Int
         /\ escrow_lock(x, a)
              = escrow_lock(s, a) + escrow_term(x, t, a) - escrow_term(s, t, a)
<1> DEFINE f == [v \in Task |-> escrow_term(s, v, a)]
           g == [v \in Task |-> escrow_term(x, v, a)]
<1>1. /\ f \in [Task -> Int] /\ g \in [Task -> Int]
      /\ f[t] = escrow_term(s, t, a) /\ g[t] = escrow_term(x, t, a)
      /\ \A v \in Task : v # t => g[v] = f[v]
  BY EscrowTermType
<1>2. escrow_lock(s, a) = SumFunction(f) /\ escrow_lock(x, a) = SumFunction(g)
  BY EscrowLockIs
<1> HIDE DEF f, g
<1>3. SumFunction(f) \in Int /\ SumFunction(g) = SumFunction(f) + g[t] - f[t]
  BY <1>1, TaskAssumption, SumFunctionChange
<1> QED BY <1>1, <1>2, <1>3

\* submit_task locks the need of a new task.
LEMMA SubmitTaskBacked ==
  ASSUME NEW s \in State, Backed(s), NEW a \in Identity, NEW t \in Task,
         CanSubmitTask(s, a, t)
  PROVE  Backed(submit_task(s, a, t))
<1> DEFINE x   == submit_task(s, a, t)
           sub == [ status      |-> "Submitted",
                    requester   |-> a,
                    provider    |-> None,
                    fee         |-> fee(Body[t].max_ucu),
                    claim_stake |-> 0,
                    ucu_count   |-> 0 ]
<1>1. /\ x.tasks = [s.tasks EXCEPT ![t] = sub]
      /\ x.escrowed = Credit(s.escrowed, a, need(t))
  BY DEF submit_task, State
<1>2. sub \in Submission /\ sub # None
  BY BodyType, NoneAssumption DEF Submission, TaskStatus
<1>3. x.tasks[t] = sub /\ sub.requester = a /\ sub.status = "Submitted"
  BY <1>1, FieldType
<1> HIDE DEF x, sub
<1>4. ASSUME NEW b \in Identity PROVE x.escrowed[b] = escrow_lock(x, b)
  <2>1. escrow_term(s, t, b) = 0
    BY DEF CanSubmitTask, escrow_term, open, status
  <2>2. escrow_term(x, t, b) = IF a = b THEN need(t) ELSE 0
    BY <1>2, <1>3 DEF escrow_term, open, status
  <2>3. \A v \in Task : v # t => escrow_term(x, v, b) = escrow_term(s, v, b)
    BY <1>1, FieldType DEF escrow_term, open, status
  <2>4. /\ escrow_lock(s, b) \in Int
        /\ escrow_lock(x, b)
             = escrow_lock(s, b) + escrow_term(x, t, b) - escrow_term(s, t, b)
    BY <2>3, EscrowLockChange
  <2>5. x.escrowed[b] = s.escrowed[b] + (IF a = b THEN need(t) ELSE 0)
    BY <1>1, BodyType, FieldType DEF Credit
  <2>6. s.escrowed[b] = escrow_lock(s, b) /\ need(t) \in Nat
    BY BodyType DEF Backed
  <2> QED BY <2>1, <2>2, <2>4, <2>5, <2>6
<1> QED BY <1>4 DEF Backed, x

\* claim_task moves an open task on.
LEMMA ClaimTaskBacked ==
  ASSUME NEW s \in State, Backed(s), NEW a \in Identity, NEW t \in Task,
         CanClaimTask(s, a, t)
  PROVE  Backed(claim_task(s, a, t))
<1> DEFINE x   == claim_task(s, a, t)
           sub == [s.tasks[t] EXCEPT !.provider    = a,
                                     !.status      = "Executing",
                                     !.claim_stake = stake(s, a, t)]
<1>1. x.tasks = [s.tasks EXCEPT ![t] = sub] /\ x.escrowed = s.escrowed
  BY FieldType DEF claim_task, State
<1>2. s.tasks[t] # None /\ status(s, t) = "Submitted"
  BY DEF CanClaimTask, status
<1>3. /\ sub.status = "Executing" /\ sub.requester = s.tasks[t].requester
      /\ sub \in Submission
  <2>1. stake(s, a, t) \in Nat
    BY BodyType, AmountType, FieldType DEF stake
  <2> QED BY <1>2, <2>1, SubmissionType DEF Submission, TaskStatus
<1>4. x.tasks[t] = sub /\ sub # None
  BY <1>1, <1>3, FieldType, NoneAssumption
<1> HIDE DEF x, sub
<1>5. ASSUME NEW v \in Task, NEW b \in Identity
      PROVE  escrow_term(x, v, b) = escrow_term(s, v, b)
  <2>1. CASE v = t
    BY <1>2, <1>3, <1>4, <2>1 DEF escrow_term, open, status
  <2>2. CASE v # t
    BY <1>1, <2>2, FieldType DEF escrow_term, open, status
  <2> QED BY <2>1, <2>2
<1> QED BY <1>1, <1>5, BackedSame DEF x

\* settle drains what the task locked.
LEMMA SubmitProofBacked ==
  ASSUME NEW s \in State, Agree(s), Backed(s), NEW a \in Identity, NEW t \in Task,
         NEW proof \in ComputeProof, CanSubmitProof(s, a, t, proof)
  PROVE  Backed(submit_proof(s, t, proof))
<1> DEFINE x   == submit_proof(s, t, proof)
           sub == [s.tasks[t] EXCEPT !.ucu_count = proof.ucu_count,
                                     !.status = "Settled"]
           requester == s.tasks[t].requester
<1>1. s.tasks[t] # None /\ status(s, t) = "Executing" /\ records_agree(s, t)
  BY DEF CanSubmitProof, Agree, status
<1>2. requester \in Identity /\ s.tasks[t] \in Submission
  BY <1>1, SubmissionType
<1>3. /\ x.tasks = [s.tasks EXCEPT ![t] = sub]
      /\ x.escrowed = Debit(s.escrowed, requester, Body[t].max_ucu + s.tasks[t].fee)
  <2>1. ProofSubmitted(s, x, t, proof)
    BY <1>1, SubmitProofFields
  <2> HIDE DEF x
  <2> QED BY <2>1 DEF ProofSubmitted
<1>4. Body[t].max_ucu + s.tasks[t].fee = need(t)
  BY <1>1 DEF records_agree, need
<1>5. x.tasks[t] = sub /\ sub.status = "Settled"
  <2>1. sub.status = "Settled"
    BY <1>2 DEF Submission
  <2> HIDE DEF x, sub
  <2> QED BY <1>3, <2>1, FieldType
<1> HIDE DEF x, sub
<1>6. ASSUME NEW b \in Identity PROVE x.escrowed[b] = escrow_lock(x, b)
  <2>1. escrow_term(s, t, b) = IF requester = b THEN need(t) ELSE 0
    BY <1>1 DEF escrow_term, open
  <2>2. escrow_term(x, t, b) = 0
    BY <1>5 DEF escrow_term, open, status
  <2>3. \A v \in Task : v # t => escrow_term(x, v, b) = escrow_term(s, v, b)
    BY <1>3, FieldType DEF escrow_term, open, status
  <2>4. /\ escrow_lock(s, b) \in Int
        /\ escrow_lock(x, b)
             = escrow_lock(s, b) + escrow_term(x, t, b) - escrow_term(s, t, b)
    BY <2>3, EscrowLockChange
  <2>5. x.escrowed[b] = s.escrowed[b] - (IF requester = b THEN need(t) ELSE 0)
    BY <1>2, <1>3, <1>4, BodyType, FieldType DEF Debit
  <2>6. s.escrowed[b] = escrow_lock(s, b) /\ need(t) \in Nat
    BY BodyType DEF Backed
  <2> QED BY <2>1, <2>2, <2>4, <2>5, <2>6
<1> QED BY <1>6 DEF Backed, x

\* A step that leaves the tasks and the escrow alone.
LEMMA SameTasksBacked ==
  ASSUME NEW s, NEW x, Backed(s), x.tasks = s.tasks, x.escrowed = s.escrowed
  PROVE  Backed(x)
<1>1. \A v \in Task, b \in Identity : escrow_term(x, v, b) = escrow_term(s, v, b)
  BY DEF escrow_term, open, status
<1> QED BY <1>1, BackedSame

\* open_challenge, transfer, bump_nonce and advance_epoch are such steps.
LEMMA OpenChallengeBacked ==
  ASSUME NEW s \in State, Backed(s), NEW a, NEW t, NEW bond
  PROVE  Backed(open_challenge(s, a, t, bond))
<1> DEFINE x == open_challenge(s, a, t, bond)
<1>1. x.tasks = s.tasks /\ x.escrowed = s.escrowed
  BY DEF open_challenge, State
<1> QED BY <1>1, SameTasksBacked

\* transfer.
LEMMA TransferBacked ==
  ASSUME NEW s \in State, Backed(s), NEW a, NEW to, NEW amount
  PROVE  Backed(transfer(s, a, to, amount))
<1> DEFINE x == transfer(s, a, to, amount)
<1>1. x.tasks = s.tasks /\ x.escrowed = s.escrowed
  BY DEF transfer, State
<1> QED BY <1>1, SameTasksBacked

\* bump_nonce.
LEMMA BumpNonceBacked ==
  ASSUME NEW s \in State, Backed(s), NEW a
  PROVE  Backed(bump_nonce(s, a))
<1> DEFINE x == bump_nonce(s, a)
<1>1. x.tasks = s.tasks /\ x.escrowed = s.escrowed
  BY DEF bump_nonce, State
<1> QED BY <1>1, SameTasksBacked

\* advance_epoch.
LEMMA AdvanceEpochBacked ==
  ASSUME NEW s \in State, Backed(s)
  PROVE  Backed(advance_epoch(s))
<1> DEFINE x == advance_epoch(s)
<1>1. x.tasks = s.tasks /\ x.escrowed = s.escrowed
  BY DEF advance_epoch, State
<1> QED BY <1>1, SameTasksBacked

\* The penalties leave the escrow alone, and a settled task settled.
LEMMA PenaliseBacked ==
  ASSUME NEW s \in State, Agree(s), Backed(s), NEW t \in Task,
         NEW reward_to \in Identity \cup {None}, CanResolveFraud(s, t)
  PROVE  Backed(penalise(s, t, reward_to))
<1> DEFINE x   == penalise(s, t, reward_to)
           mid == take_fraud_penalties(s, t, reward_to)
           sub == [s.tasks[t] EXCEPT !.status = "Failed"]
<1>1. mid.tasks = s.tasks /\ mid.escrowed = s.escrowed
  BY DEF take_fraud_penalties, State
<1>2. settled(s, t) /\ s.tasks[t] # None /\ s.receipts[t] # None
  BY StatusCases DEF CanResolveFraud, Agree
<1>3. mid \in State
  BY <1>2, FraudPenaltiesType DEF CanResolveFraud
<1>4. /\ x.tasks = [mid.tasks EXCEPT ![t] = [@ EXCEPT !.status = "Failed"]]
      /\ x.escrowed = mid.escrowed
  <2> HIDE DEF mid
  <2> QED BY <1>3 DEF penalise, mid, State
<1> HIDE DEF x, mid
<1>5. x.tasks[t] = sub /\ sub.status = "Failed"
  BY <1>1, <1>2, <1>4, FieldType, SubmissionType DEF Submission
<1> HIDE DEF sub
<1>6. ASSUME NEW v \in Task, NEW b \in Identity
      PROVE  escrow_term(x, v, b) = escrow_term(s, v, b)
  <2>1. CASE v = t
    BY <1>2, <1>5, <2>1 DEF escrow_term, open, settled, status
  <2>2. CASE v # t
    BY <1>1, <1>4, <2>2, FieldType DEF escrow_term, open, status
  <2> QED BY <2>1, <2>2
<1> QED BY <1>1, <1>4, <1>6, BackedSame DEF x

\* resolve_fraud.
LEMMA ResolveFraudBacked ==
  ASSUME NEW s \in State, Agree(s), Backed(s), NEW t \in Task,
         NEW reward_to \in Identity \cup {None}
  PROVE  Backed(resolve_fraud(s, t, reward_to))
BY PenaliseBacked DEF resolve_fraud

\* resolve_challenge.
LEMMA CloseChallengeBacked ==
  ASSUME NEW s \in State, Agree(s), Backed(s), NEW t \in Task, NEW fraud \in BOOLEAN,
         s.pending_challenges[t] # None
  PROVE  Backed(close_challenge(s, t, fraud))
<1> DEFINE x  == close_challenge(s, t, fraud)
           c  == closed(s, t)
           j  == judged(s, t, fraud)
           ch == s.pending_challenges[t].challenger
<1>1. Submitted(s) /\ ch \in Identity
  BY AgreeSubmitted, PendingType
<1>2. c \in State /\ Agree(c) /\ c.tasks = s.tasks
  BY ClosedType, ClosedAgree
<1>3. c.escrowed = s.escrowed
  BY DEF closed, State
<1>4. Backed(c)
  <2> HIDE DEF c
  <2>1. \A v \in Task, b \in Identity : escrow_term(c, v, b) = escrow_term(s, v, b)
    BY <1>2 DEF escrow_term, open, status
  <2> QED BY <1>3, <2>1, BackedSame
<1>5. Backed(j)
  BY <1>1, <1>2, <1>4, ResolveFraudBacked DEF judged
<1>6. j \in State
  BY <1>1, JudgedType
<1>7. x.tasks = j.tasks /\ x.escrowed = j.escrowed
  <2> HIDE DEF j
  <2> QED BY <1>6, CloseChallengeIs DEF State, j
<1> HIDE DEF j
<1>8. \A v \in Task, b \in Identity : escrow_term(x, v, b) = escrow_term(j, v, b)
  <2> HIDE DEF x
  <2> QED BY <1>7 DEF escrow_term, open, status
<1> QED BY <1>5, <1>7, <1>8, BackedSame

-----------------------------------------------------------------------------
(***************************************************************************)
(* The inductive invariant.                                                *)
(***************************************************************************)
Sound(s) == s \in State /\ Agree(s) /\ Backed(s)

IInv == Sound(ledger)

\* The genesis state.
LEMMA GenesisSound == Sound(genesis)
<1>1. genesis \in State
  <2>1. SumFunction(Allocation) \in Nat
    BY AllocationAssumption, IdentityAssumption, SumFunctionType
  <2>2. nobody \in [Identity -> Nat] /\ Allocation \in [Identity -> Nat]
    BY AllocationAssumption DEF nobody
  <2>3. /\ nothing \in [Task -> Submission \cup {None}]
        /\ nothing \in [Task -> ComputeProof \cup {None}]
        /\ nothing \in [Task -> Receipt \cup {None}]
        /\ nothing \in [Task -> QLedgerEntry \cup {None}]
        /\ nothing \in [Task -> ChallengeRecord \cup {None}]
    BY DEF nothing
  <2> QED BY <2>1, <2>2, <2>3 DEF genesis, State
<1>2. Agree(genesis)
  BY DEF Agree, records_agree, settled, status, genesis, nothing
<1>3. ASSUME NEW a \in Identity PROVE genesis.escrowed[a] = escrow_lock(genesis, a)
  <2> DEFINE f == [t \in Task |-> escrow_term(genesis, t, a)]
  <2>1. f \in [Task -> Int] /\ \A t \in Task : f[t] = 0
    BY DEF escrow_term, open, status, genesis, nothing
  <2>2. SumFunction(f) = 0
    <3> HIDE DEF f
    <3> QED BY <2>1, TaskAssumption, SumFunctionZero
  <2> QED BY <2>2, EscrowLockIs DEF genesis, nobody
<1> QED BY <1>1, <1>2, <1>3 DEF Sound, Backed

\* A transaction with a sound effect.
LEMMA ApplySound ==
  ASSUME IInv, NEW a \in Identity, NEW s, Sound(s), Apply(a, s)
  PROVE  IInv'
<1>1. Sound(bump_nonce(s, a))
  BY BumpNonceType, BumpNonceAgree, BumpNonceBacked DEF Sound
<1> QED BY <1>1 DEF Apply, IInv, Sound

\* submit_proof finds in escrow what it drains.
LEMMA SubmitProofSound ==
  ASSUME NEW s, Sound(s), NEW a \in Identity, NEW t \in Task,
         NEW proof \in ComputeProof, CanSubmitProof(s, a, t, proof)
  PROVE  Sound(submit_proof(s, t, proof))
<1>1. s \in State /\ Agree(s) /\ Backed(s)
  BY DEF Sound
<1>2. status(s, t) = "Executing" /\ s.tasks[t] # None /\ records_agree(s, t)
  BY <1>1 DEF CanSubmitProof, Agree, status
<1>3. s.tasks[t].fee = fee(Body[t].max_ucu)
  BY <1>2 DEF records_agree
<1>4. need(t) <= s.escrowed[s.tasks[t].requester]
  BY <1>1, <1>2, SubmissionType, EscrowCovers DEF open
<1>5. submit_proof(s, t, proof) \in State
  BY <1>1, <1>3, <1>4, SubmitProofType
<1> QED BY <1>1, <1>5, SubmitProofAgree, SubmitProofBacked DEF Sound

\* Every step keeps the invariant.
LEMMA NextSound ==
  ASSUME IInv, [Next]_ledger
  PROVE  IInv'
<1>1. ledger \in State /\ Agree(ledger) /\ Backed(ledger) /\ Submitted(ledger)
  BY AgreeSubmitted DEF IInv, Sound
<1>2. CASE SubmitTask
  <2>1. PICK a \in Identity, t \in Task :
          CanSubmitTask(ledger, a, t) /\ Apply(a, submit_task(ledger, a, t))
    BY <1>2 DEF SubmitTask
  <2>2. Sound(submit_task(ledger, a, t))
    BY <1>1, <2>1, SubmitTaskType, SubmitTaskAgree, SubmitTaskBacked DEF Sound
  <2> QED BY <2>1, <2>2, ApplySound
<1>3. CASE ClaimTask
  <2>1. PICK a \in Identity, t \in Task :
          CanClaimTask(ledger, a, t) /\ Apply(a, claim_task(ledger, a, t))
    BY <1>3 DEF ClaimTask
  <2>2. Sound(claim_task(ledger, a, t))
    BY <1>1, <2>1, ClaimTaskType, ClaimTaskAgree, ClaimTaskBacked DEF Sound
  <2> QED BY <2>1, <2>2, ApplySound
<1>4. CASE SubmitProof
  <2>1. PICK a \in Identity, t \in Task, proof \in ComputeProof :
          /\ CanSubmitProof(ledger, a, t, proof)
          /\ Apply(a, submit_proof(ledger, t, proof))
    BY <1>4 DEF SubmitProof
  <2>2. Sound(submit_proof(ledger, t, proof))
    BY <2>1, SubmitProofSound DEF IInv
  <2> QED BY <2>1, <2>2, ApplySound
<1>5. CASE Challenge
  <2>1. PICK a \in Identity, t \in Task, bond \in Ucu :
          /\ CanOpenChallenge(ledger, a, t, bond)
          /\ Apply(a, open_challenge(ledger, a, t, bond))
    BY <1>5 DEF Challenge
  <2>2. Sound(open_challenge(ledger, a, t, bond))
    BY <1>1, <2>1, OpenChallengeType, OpenChallengeAgree, OpenChallengeBacked DEF Sound
  <2> QED BY <2>1, <2>2, ApplySound
<1>6. CASE Transfer
  <2>1. PICK a \in Identity, to \in Identity, amount \in Ucu :
          CanTransfer(ledger, a, amount) /\ Apply(a, transfer(ledger, a, to, amount))
    BY <1>6 DEF Transfer
  <2>2. Sound(transfer(ledger, a, to, amount))
    BY <1>1, <2>1, TransferType, TransferAgree, TransferBacked DEF Sound
  <2> QED BY <2>1, <2>2, ApplySound
<1>7. CASE AdvanceEpoch
  <2>1. Sound(advance_epoch(ledger))
    BY <1>1, AdvanceEpochType, AdvanceEpochAgree, AdvanceEpochBacked DEF Sound
  <2> QED BY <1>7, <2>1 DEF AdvanceEpoch, IInv, Sound
<1>8. CASE ResolveChallenge
  <2>1. PICK t \in Task, fraud \in BOOLEAN :
          /\ ledger.pending_challenges[t] # None
          /\ ledger' = resolve_challenge(ledger, t, fraud)
    BY <1>8 DEF ResolveChallenge
  <2>2. ledger' = close_challenge(ledger, t, fraud)
    BY <2>1 DEF resolve_challenge
  <2>3. Sound(close_challenge(ledger, t, fraud))
    BY <1>1, <2>1, CloseChallengeType, CloseChallengeAgree, CloseChallengeBacked
       DEF Sound
  <2> QED BY <2>2, <2>3 DEF IInv, Sound
<1>9. CASE SamplingAudit
  <2>1. PICK t \in Task : CanResolveFraud(ledger, t)
                          /\ ledger' = resolve_fraud(ledger, t, None)
    BY <1>9 DEF SamplingAudit
  <2>2. Sound(resolve_fraud(ledger, t, None))
    BY <1>1, ResolveFraudType, ResolveFraudAgree, ResolveFraudBacked DEF Sound
  <2> QED BY <2>1, <2>2 DEF IInv, Sound
<1>10. CASE UNCHANGED ledger
  BY <1>10 DEF IInv, Sound
<1> QED BY <1>2, <1>3, <1>4, <1>5, <1>6, <1>7, <1>8, <1>9, <1>10 DEF Next

\* The invariant.
THEOREM Soundness == Spec => []IInv
<1>1. Init => IInv
  BY GenesisSound DEF Init, IInv
<1>2. IInv /\ [Next]_ledger => IInv'
  BY NextSound
<1> QED BY <1>1, <1>2, PTL DEF Spec

\* No amount is ever debited below zero.
THEOREM TypeCorrect == Spec => []TypeOK
<1>1. IInv => TypeOK
  BY DEF IInv, Sound, TypeOK
<1> QED BY <1>1, Soundness, PTL

\* The maps keyed by task agree in every reachable state.
THEOREM RecordsAgreement == Spec => []RecordsAgree
<1>1. IInv => RecordsAgree
  BY DEF IInv, Sound, Agree, RecordsAgree
<1> QED BY <1>1, Soundness, PTL

\* Every escrow is what the account's open tasks locked.
THEOREM EscrowBacking == Spec => []EscrowBacked
<1>1. IInv => EscrowBacked
  BY DEF IInv, Sound, Backed, EscrowBacked
<1> QED BY <1>1, Soundness, PTL

-----------------------------------------------------------------------------
(***************************************************************************)
(* What the ledger never takes back: the records of a settled task         *)
(* (SettlementFinal), the one issuance of each receipt (MintedByWork) and  *)
(* the one penalty of each slashed task (PenalisedOnce).                   *)
(***************************************************************************)
\* Two states with the same past: nothing the properties look at differs.
SamePast(s, x) ==
  /\ x.tasks = s.tasks /\ x.proofs = s.proofs /\ x.receipts = s.receipts
  /\ x.q_ledger = s.q_ledger /\ x.slashed = s.slashed /\ x.released = s.released
  /\ x.minted = s.minted /\ x.strikes = s.strikes

\* The history of every task is kept from s to x.
Kept(s, x) == \A t \in Task : kept(s, x, t)

\* What the receipt of task t minted.
mint_term(s, t) ==
  IF s.receipts[t] = None THEN 0 ELSE s.receipts[t].work_issuance

Minted(s) ==
  s.minted = SumFunction(Allocation)
    + SumFunction([t \in Task |-> mint_term(s, t)])

\* The slashed tasks of a provider.
slashes(s, a) == {t \in s.slashed : s.tasks[t].provider = a}

Struck(s) == \A a \in Identity : s.strikes[a] = Cardinality(slashes(s, a))

\* What a step from s to x has to keep.
Step(s, x) == /\ Kept(s, x)
              /\ Minted(s) => Minted(x)
              /\ Struck(s) => Struck(x)

-----------------------------------------------------------------------------
\* The stages in their order.
LEMMA StageIs == /\ stage("Unknown") = 0 /\ stage("Submitted") = 1
                 /\ stage("Executing") = 2 /\ stage("Settled") = 3
                 /\ stage("Failed") = 4
BY DEF stage

\* The stages of a task are numbers.
LEMMA StageType ==
  ASSUME NEW s \in State, NEW t \in Task
  PROVE  stage(status(s, t)) \in 0..4
<1>1. status(s, t) \in {"Unknown", "Submitted", "Executing", "Settled", "Failed"}
  <2>1. CASE s.tasks[t] = None
    BY <2>1 DEF status
  <2>2. CASE s.tasks[t] # None
    BY <2>2, SubmissionType DEF status, TaskStatus
  <2> QED BY <2>1, <2>2
<1> QED BY <1>1, StageIs

\* A task whose records stay keeps its history.
LEMMA SameTaskKept ==
  ASSUME NEW s \in State, NEW x, NEW t \in Task,
         x.tasks[t] = s.tasks[t], x.proofs[t] = s.proofs[t],
         x.receipts[t] = s.receipts[t], x.q_ledger[t] = s.q_ledger[t],
         t \in s.slashed => t \in x.slashed,
         t \in s.released => t \in x.released
  PROVE  kept(s, x, t)
<1>1. status(x, t) = status(s, t)
  BY DEF status
<1>2. stage(status(s, t)) <= stage(status(x, t))
  BY <1>1, StageType
<1> QED BY <1>2 DEF kept

\* A step between states with the same past as s and x.
LEMMA SamePastStep ==
  ASSUME NEW s1, NEW x1, NEW s2, NEW x2,
         SamePast(s1, s2), SamePast(x1, x2), Step(s1, x1)
  PROVE  Step(s2, x2)
<1>1. Kept(s2, x2)
  BY DEF SamePast, Step, Kept, kept, status
<1>2. \A t \in Task : mint_term(s2, t) = mint_term(s1, t)
                      /\ mint_term(x2, t) = mint_term(x1, t)
  BY DEF SamePast, mint_term
<1>3. /\ [t \in Task |-> mint_term(s2, t)] = [t \in Task |-> mint_term(s1, t)]
      /\ [t \in Task |-> mint_term(x2, t)] = [t \in Task |-> mint_term(x1, t)]
  BY <1>2
<1>4. /\ Minted(s2) <=> Minted(s1)
      /\ Minted(x2) <=> Minted(x1)
  BY <1>3 DEF Minted, SamePast
<1>5. /\ \A a : slashes(s2, a) = slashes(s1, a) /\ slashes(x2, a) = slashes(x1, a)
  BY DEF SamePast, slashes
<1>6. /\ Struck(s2) <=> Struck(s1)
      /\ Struck(x2) <=> Struck(x1)
  BY <1>5 DEF Struck, SamePast
<1> QED BY <1>1, <1>4, <1>6 DEF Step

\* The empty step.
LEMMA SamePastIsStep ==
  ASSUME NEW s \in State, NEW x, SamePast(s, x)
  PROVE  Step(s, x)
<1>1. Kept(s, s)
  BY SameTaskKept DEF Kept
<1>2. Step(s, s) /\ SamePast(s, s)
  BY <1>1 DEF Step, SamePast
<1> QED BY <1>2, SamePastStep

\* A step that settles and slashes nothing keeps what was minted and struck.
LEMMA NoVerdictStep ==
  ASSUME NEW s \in State, Agree(s), NEW x, Kept(s, x),
         x.receipts = s.receipts, x.slashed = s.slashed,
         x.minted = s.minted, x.strikes = s.strikes
  PROVE  Step(s, x)
<1>1. [t \in Task |-> mint_term(x, t)] = [t \in Task |-> mint_term(s, t)]
  BY DEF mint_term
<1>2. Minted(s) => Minted(x)
  BY <1>1 DEF Minted
<1>3. ASSUME NEW t \in s.slashed PROVE x.tasks[t].provider = s.tasks[t].provider
  <2>1. t \in Task
    BY FieldType
  <2>2. s.tasks[t] # None /\ s.tasks[t].provider # None
    BY <2>1, StatusCases DEF Agree, records_agree, settled
  <2> QED BY <2>1, <2>2 DEF Kept, kept
<1>4. \A a : slashes(x, a) = slashes(s, a)
  BY <1>3 DEF slashes
<1>5. Struck(s) => Struck(x)
  BY <1>4 DEF Struck
<1> QED BY <1>2, <1>5 DEF Step

-----------------------------------------------------------------------------
(***************************************************************************)
(* The operations.                                                         *)
(***************************************************************************)
\* submit_task gives a body its first record.
LEMMA SubmitTaskHistory ==
  ASSUME NEW s \in State, Agree(s), NEW a \in Identity, NEW t \in Task,
         CanSubmitTask(s, a, t)
  PROVE  Step(s, submit_task(s, a, t))
<1> DEFINE x == submit_task(s, a, t)
<1>1. /\ x.proofs = s.proofs /\ x.receipts = s.receipts /\ x.q_ledger = s.q_ledger
      /\ x.slashed = s.slashed /\ x.released = s.released
      /\ x.minted = s.minted /\ x.strikes = s.strikes
      /\ \A v \in Task : v # t => x.tasks[v] = s.tasks[v]
  BY FieldType DEF submit_task, State
<1>2. x \in State
  BY SubmitTaskType
<1> HIDE DEF x
<1>3. s.tasks[t] = None /\ status(s, t) = "Unknown" /\ s.receipts[t] = None
  <2>1. records_agree(s, t)
    BY DEF Agree
  <2>2. s.tasks[t] = None /\ status(s, t) = "Unknown"
    BY DEF CanSubmitTask, status
  <2> QED BY <2>1, <2>2 DEF records_agree, settled
<1>4. kept(s, x, t)
  <2>1. stage(status(s, t)) <= stage(status(x, t))
    BY <1>2, <1>3, StageType, StageIs
  <2> QED BY <1>1, <1>3, <2>1 DEF kept
<1>5. Kept(s, x)
  BY <1>1, <1>4, SameTaskKept DEF Kept
<1> QED BY <1>1, <1>5, NoVerdictStep DEF x

\* The record of a claimed task.
LEMMA ClaimedIsSubmission ==
  ASSUME NEW s \in State, NEW a \in Identity, NEW t \in Task, s.tasks[t] # None
  PROVE  [s.tasks[t] EXCEPT !.provider    = a,
                            !.status      = "Executing",
                            !.claim_stake = stake(s, a, t)] \in Submission
<1>1. stake(s, a, t) \in Nat
  BY BodyType, AmountType, FieldType DEF stake
<1> QED BY <1>1, SubmissionType DEF Submission, TaskStatus

\* claim_task names the provider once.
LEMMA ClaimTaskHistory ==
  ASSUME NEW s \in State, Agree(s), NEW a \in Identity, NEW t \in Task,
         CanClaimTask(s, a, t)
  PROVE  Step(s, claim_task(s, a, t))
<1> DEFINE x   == claim_task(s, a, t)
           sub == [s.tasks[t] EXCEPT !.provider    = a,
                                     !.status      = "Executing",
                                     !.claim_stake = stake(s, a, t)]
<1>1. /\ x.proofs = s.proofs /\ x.receipts = s.receipts /\ x.q_ledger = s.q_ledger
      /\ x.slashed = s.slashed /\ x.released = s.released
      /\ x.minted = s.minted /\ x.strikes = s.strikes
      /\ x.tasks = [s.tasks EXCEPT ![t] = sub]
  BY FieldType DEF claim_task, State
<1>3. /\ s.tasks[t] # None /\ status(s, t) = "Submitted" /\ s.tasks[t].provider = None
      /\ s.receipts[t] = None
  <2>1. records_agree(s, t)
    BY DEF Agree
  <2>2. s.tasks[t] # None /\ status(s, t) = "Submitted"
    BY DEF CanClaimTask, status
  <2>3. s.tasks[t].status = "Submitted"
    BY <2>2 DEF status
  <2> QED BY <2>1, <2>2, <2>3 DEF records_agree, settled
<1>4. /\ sub.status = "Executing" /\ sub.requester = s.tasks[t].requester
  BY <1>3, SubmissionType DEF Submission
<1> HIDE DEF x, sub
<1>5. x.tasks[t] = sub
  BY <1>1, FieldType
<1>6. kept(s, x, t)
  <2>1. x.tasks[t] # None
    <3>1. sub \in Submission
      BY <1>3, ClaimedIsSubmission DEF sub
    <3> QED BY <1>5, <3>1, NoneAssumption
  <2>2. status(x, t) = "Executing"
    BY <1>4, <1>5, <2>1 DEF status
  <2>3. stage(status(s, t)) <= stage(status(x, t))
    BY <1>3, <2>2, StageIs
  <2> QED BY <1>1, <1>3, <1>4, <1>5, <2>3 DEF kept
<1>7. Kept(s, x)
  BY <1>1, <1>6, FieldType, SameTaskKept DEF Kept
<1> QED BY <1>1, <1>7, NoVerdictStep DEF x

\* What a step that writes one receipt mints is what the receipt says.
LEMMA ReceiptMints ==
  ASSUME NEW s \in State, NEW x \in State, NEW t \in Task, Minted(s),
         s.receipts[t] = None, x.receipts[t] # None,
         x.minted = s.minted + x.receipts[t].work_issuance,
         \A v \in Task : v # t => x.receipts[v] = s.receipts[v]
  PROVE  Minted(x)
<1> DEFINE f == [v \in Task |-> mint_term(s, v)]
           g == [v \in Task |-> mint_term(x, v)]
<1>1. f \in [Task -> Int] /\ g \in [Task -> Int]
  <2>1. ASSUME NEW v \in Task PROVE mint_term(s, v) \in Nat /\ mint_term(x, v) \in Nat
    BY ReceiptType DEF mint_term
  <2> QED BY <2>1
<1>2. /\ f[t] = 0 /\ g[t] = x.receipts[t].work_issuance
      /\ \A v \in Task : v # t => g[v] = f[v]
  BY DEF mint_term
<1>3. /\ s.minted = SumFunction(Allocation) + SumFunction(f)
      /\ Minted(x) <=> x.minted = SumFunction(Allocation) + SumFunction(g)
  BY DEF Minted
<1> HIDE DEF f, g
<1>4. SumFunction(f) \in Int /\ SumFunction(g) = SumFunction(f) + g[t] - f[t]
  BY <1>1, <1>2, TaskAssumption, SumFunctionChange
<1>5. /\ SumFunction(Allocation) \in Int /\ x.receipts[t].work_issuance \in Nat
  BY AllocationAssumption, IdentityAssumption, SumFunctionType, ReceiptType
<1> QED BY <1>2, <1>3, <1>4, <1>5

\* submit_proof writes the first and only receipt, proof and entry of its task.
LEMMA SubmitProofHistory ==
  ASSUME NEW s, Sound(s), NEW a \in Identity, NEW t \in Task,
         NEW proof \in ComputeProof, CanSubmitProof(s, a, t, proof)
  PROVE  Step(s, submit_proof(s, t, proof))
<1> DEFINE x   == submit_proof(s, t, proof)
           u   == proof.ucu_count
           sub == [s.tasks[t] EXCEPT !.ucu_count = u, !.status = "Settled"]
<1>1. /\ s \in State /\ Agree(s) /\ x \in State /\ Agree(x)
  BY SubmitProofSound DEF Sound
<1>2. /\ s.tasks[t] # None /\ status(s, t) = "Executing" /\ s.receipts[t] = None
      /\ t \notin s.slashed
  <2>1. records_agree(s, t)
    BY <1>1 DEF Agree
  <2>2. s.tasks[t] # None /\ status(s, t) = "Executing"
    BY DEF CanSubmitProof, status
  <2> QED BY <2>1, <2>2 DEF records_agree, settled
<1>3. /\ x.tasks = [s.tasks EXCEPT ![t] = sub]
      /\ x.proofs = [s.proofs EXCEPT ![t] = proof]
      /\ x.receipts = [s.receipts EXCEPT ![t] = receipt(s, t, u)]
      /\ x.slashed = s.slashed /\ x.released = s.released /\ x.strikes = s.strikes
      /\ x.minted = s.minted + issuance(u)
      /\ \A v \in Task : v # t => x.q_ledger[v] = s.q_ledger[v]
  <2>1. ProofSubmitted(s, x, t, proof)
    BY <1>1, <1>2, SubmitProofFields
  <2> HIDE DEF x
  <2> QED BY <1>1, <2>1, FieldType DEF ProofSubmitted
<1>4. /\ sub.status = "Settled" /\ sub.requester = s.tasks[t].requester
      /\ sub.provider = s.tasks[t].provider
      /\ sub.claim_stake = s.tasks[t].claim_stake
  BY <1>1, <1>2, SubmissionType DEF Submission
<1>5. receipt(s, t, u).work_issuance = issuance(u)
  BY DEF receipt
<1> HIDE DEF x, sub, u
<1>6. /\ x.tasks[t] = sub /\ x.receipts[t] = receipt(s, t, u)
      /\ \A v \in Task : v # t => /\ x.tasks[v] = s.tasks[v]
                                  /\ x.proofs[v] = s.proofs[v]
                                  /\ x.receipts[v] = s.receipts[v]
  BY <1>1, <1>3, FieldType
<1>7. /\ status(x, t) = "Settled" /\ x.receipts[t] # None
  <2>1. status(x, t) \in {"Unknown", "Settled"}
    BY <1>4, <1>6 DEF status
  <2>2. x.proofs[t] # None
    <3>1. x.proofs[t] = proof
      BY <1>1, <1>3, FieldType
    <3> QED BY <3>1, NoneAssumption
  <2>3. records_agree(x, t)
    BY <1>1 DEF Agree
  <2> QED BY <2>1, <2>2, <2>3 DEF records_agree, settled
<1>8. Kept(s, x)
  <2>1. stage(status(s, t)) <= stage(status(x, t))
    BY <1>2, <1>7, StageIs
  <2>2. kept(s, x, t)
    BY <1>2, <1>3, <1>4, <1>6, <2>1 DEF kept
  <2> QED BY <1>1, <1>3, <1>6, <2>2, SameTaskKept DEF Kept
<1>9. Minted(s) => Minted(x)
  <2>1. x.minted = s.minted + x.receipts[t].work_issuance
    BY <1>3, <1>5, <1>6
  <2>2. \A v \in Task : v # t => x.receipts[v] = s.receipts[v]
    BY <1>6
  <2> QED BY <1>1, <1>2, <1>7, <2>1, <2>2, ReceiptMints
<1>10. \A b : slashes(x, b) = slashes(s, b)
  <2>1. \A v \in s.slashed : v \in Task /\ v # t
    BY <1>1, <1>2, FieldType
  <2> QED BY <1>3, <1>6, <2>1 DEF slashes
<1>11. Struck(s) => Struck(x)
  BY <1>3, <1>10 DEF Struck
<1> QED BY <1>8, <1>9, <1>11 DEF Step, x

\* A punished task fails, is struck once, and keeps its records.
LEMMA PenaliseHistory ==
  ASSUME NEW s \in State, Agree(s), NEW t \in Task,
         NEW reward_to \in Identity \cup {None}, CanResolveFraud(s, t)
  PROVE  Step(s, penalise(s, t, reward_to))
<1> DEFINE x        == penalise(s, t, reward_to)
           mid      == take_fraud_penalties(s, t, reward_to)
           sub      == [s.tasks[t] EXCEPT !.status = "Failed"]
           provider == s.tasks[t].provider
<1>1. /\ mid.tasks = s.tasks /\ mid.proofs = s.proofs /\ mid.receipts = s.receipts
      /\ mid.q_ledger = s.q_ledger /\ mid.slashed = s.slashed
      /\ mid.released = s.released /\ mid.strikes = s.strikes /\ mid.minted = s.minted
  BY DEF take_fraud_penalties, State
<1>2. /\ settled(s, t) /\ s.tasks[t] # None /\ s.receipts[t] # None
      /\ t \notin s.slashed /\ provider \in Identity
  BY StatusCases, SubmissionType DEF CanResolveFraud, Agree
<1>3. mid \in State
  BY <1>2, FraudPenaltiesType DEF CanResolveFraud
<1>4. /\ x.tasks = [mid.tasks EXCEPT ![t] = [@ EXCEPT !.status = "Failed"]]
      /\ x.proofs = mid.proofs /\ x.receipts = mid.receipts /\ x.q_ledger = mid.q_ledger
      /\ x.slashed = mid.slashed \cup {t} /\ x.released = mid.released
      /\ x.strikes = Credit(mid.strikes, provider, 1) /\ x.minted = mid.minted
  <2> HIDE DEF mid
  <2> QED BY <1>3 DEF penalise, mid, State
<1> HIDE DEF x, mid
<1>5. /\ x.tasks[t] = sub
      /\ \A v \in Task : v # t => x.tasks[v] = s.tasks[v]
  BY <1>1, <1>4, FieldType
<1>6. /\ sub.status = "Failed" /\ sub # None /\ sub.requester = s.tasks[t].requester
      /\ sub.provider = provider /\ sub.claim_stake = s.tasks[t].claim_stake
  <2>1. sub \in Submission
    BY <1>2, SubmissionType DEF Submission, TaskStatus
  <2> QED BY <1>2, <2>1, SubmissionType, NoneAssumption DEF Submission
<1> HIDE DEF sub
<1>7. Kept(s, x)
  <2>1. status(x, t) = "Failed"
    BY <1>5, <1>6 DEF status
  <2>2. stage(status(s, t)) <= stage(status(x, t))
    BY <2>1, StageType, StageIs
  <2>3. kept(s, x, t)
    BY <1>1, <1>4, <1>5, <1>6, <2>2 DEF kept, provider
  <2> QED BY <1>1, <1>4, <1>5, <2>3, SameTaskKept DEF Kept
<1>8. Minted(s) => Minted(x)
  <2>1. [v \in Task |-> mint_term(x, v)] = [v \in Task |-> mint_term(s, v)]
    BY <1>1, <1>4 DEF mint_term
  <2> QED BY <1>1, <1>4, <2>1 DEF Minted
<1>9. ASSUME Struck(s), NEW a \in Identity
      PROVE  x.strikes[a] = Cardinality(slashes(x, a))
  <2>1. /\ IsFiniteSet(slashes(s, a)) /\ t \notin slashes(s, a)
    <3>1. slashes(s, a) \subseteq Task
      BY FieldType DEF slashes
    <3> QED BY <1>2, <3>1, TaskAssumption, FS_Subset DEF slashes
  <2>2. \A v \in s.slashed : v \in Task /\ v # t
    BY <1>2, FieldType
  <2>3. s.strikes \in [Identity -> Nat] /\ s.strikes[a] = Cardinality(slashes(s, a))
    BY <1>9, FieldType DEF Struck
  <2>4. CASE a = provider
    <3>1. slashes(x, a) = slashes(s, a) \cup {t}
      BY <1>1, <1>4, <1>5, <1>6, <2>2, <2>4 DEF slashes
    <3>2. Cardinality(slashes(x, a)) = Cardinality(slashes(s, a)) + 1
      BY <2>1, <3>1, FS_AddElement
    <3>3. x.strikes[a] = s.strikes[a] + 1
      BY <1>1, <1>4, <2>3, <2>4 DEF Credit
    <3> QED BY <2>3, <3>2, <3>3
  <2>5. CASE a # provider
    <3>1. slashes(x, a) = slashes(s, a)
      BY <1>1, <1>4, <1>5, <1>6, <2>2, <2>5 DEF slashes
    <3>2. x.strikes[a] = s.strikes[a]
      BY <1>1, <1>4, <2>3, <2>5 DEF Credit
    <3> QED BY <2>3, <3>1, <3>2
  <2> QED BY <2>4, <2>5
<1> QED BY <1>7, <1>8, <1>9 DEF Step, Struck, x

\* resolve_fraud, which may change nothing.
LEMMA ResolveFraudHistory ==
  ASSUME NEW s \in State, Agree(s), NEW t \in Task,
         NEW reward_to \in Identity \cup {None}
  PROVE  Step(s, resolve_fraud(s, t, reward_to))
<1>1. SamePast(s, s)
  BY DEF SamePast
<1> QED BY <1>1, PenaliseHistory, SamePastIsStep DEF resolve_fraud

\* resolve_challenge changes the past by its verdict alone.
LEMMA CloseChallengeHistory ==
  ASSUME NEW s \in State, Agree(s), NEW t \in Task, NEW fraud \in BOOLEAN,
         s.pending_challenges[t] # None
  PROVE  Step(s, close_challenge(s, t, fraud))
<1> DEFINE x  == close_challenge(s, t, fraud)
           c  == closed(s, t)
           j  == judged(s, t, fraud)
           ch == s.pending_challenges[t].challenger
<1>1. Submitted(s) /\ ch \in Identity
  BY AgreeSubmitted, PendingType
<1>2. c \in State /\ Agree(c) /\ SamePast(c, c)
  BY ClosedType, ClosedAgree DEF SamePast
<1>3. Step(c, j)
  BY <1>1, <1>2, ResolveFraudHistory, SamePastIsStep DEF judged
<1>4. SamePast(c, s)
  BY DEF closed, State, SamePast
<1>5. j \in State
  BY <1>1, JudgedType
<1>6. SamePast(j, x)
  <2> HIDE DEF j
  <2> QED BY <1>5, CloseChallengeIs DEF State, SamePast, j
<1> HIDE DEF c, j, x
<1> QED BY <1>3, <1>4, <1>6, SamePastStep DEF x

\* The epoch boundary releases and keeps.
LEMMA AdvanceEpochHistory ==
  ASSUME NEW s \in State, Agree(s)
  PROVE  Step(s, advance_epoch(s))
<1> DEFINE x == advance_epoch(s)
<1>1. /\ x.tasks = s.tasks /\ x.proofs = s.proofs /\ x.receipts = s.receipts
      /\ x.q_ledger = s.q_ledger /\ x.slashed = s.slashed
      /\ x.released = s.released \cup matured(s, s.epoch + 1)
      /\ x.minted = s.minted /\ x.strikes = s.strikes
  BY DEF advance_epoch, State
<1> HIDE DEF x
<1>2. Kept(s, x)
  BY <1>1, SameTaskKept DEF Kept
<1> QED BY <1>1, <1>2, NoVerdictStep DEF x

\* open_challenge, transfer and bump_nonce leave the past alone.
LEMMA SamePastOperations ==
  ASSUME NEW s \in State
  PROVE  /\ \A a, t, bond : SamePast(s, open_challenge(s, a, t, bond))
         /\ \A a, to, amount : SamePast(s, transfer(s, a, to, amount))
         /\ \A a : SamePast(s, bump_nonce(s, a))
<1>1. ASSUME NEW a, NEW t, NEW bond PROVE SamePast(s, open_challenge(s, a, t, bond))
  BY DEF open_challenge, State, SamePast
<1>2. ASSUME NEW a, NEW to, NEW amount PROVE SamePast(s, transfer(s, a, to, amount))
  BY DEF transfer, State, SamePast
<1>3. ASSUME NEW a PROVE SamePast(s, bump_nonce(s, a))
  BY DEF bump_nonce, State, SamePast
<1> QED BY <1>1, <1>2, <1>3

-----------------------------------------------------------------------------
\* The bump of the nonce adds nothing to a step.
LEMMA ApplyStep ==
  ASSUME NEW a \in Identity, NEW s \in State, Step(ledger, s), Apply(a, s)
  PROVE  Step(ledger, ledger')
<1>1. SamePast(s, ledger') /\ SamePast(ledger, ledger)
  BY SamePastOperations DEF Apply, SamePast
<1> QED BY <1>1, SamePastStep

\* Every step keeps the history.
LEMMA NextKeeps ==
  ASSUME IInv, [Next]_ledger
  PROVE  Step(ledger, ledger')
<1>1. ledger \in State /\ Agree(ledger) /\ Submitted(ledger) /\ Sound(ledger)
  BY AgreeSubmitted DEF IInv, Sound
<1>2. CASE SubmitTask
  BY <1>1, <1>2, SubmitTaskType, SubmitTaskHistory, ApplyStep DEF SubmitTask
<1>3. CASE ClaimTask
  BY <1>1, <1>3, ClaimTaskType, ClaimTaskHistory, ApplyStep DEF ClaimTask
<1>4. CASE SubmitProof
  <2>1. PICK a \in Identity, t \in Task, proof \in ComputeProof :
          /\ CanSubmitProof(ledger, a, t, proof)
          /\ Apply(a, submit_proof(ledger, t, proof))
    BY <1>4 DEF SubmitProof
  <2>2. submit_proof(ledger, t, proof) \in State
    BY <1>1, <2>1, SubmitProofSound DEF Sound
  <2>3. Step(ledger, submit_proof(ledger, t, proof))
    BY <1>1, <2>1, SubmitProofHistory
  <2> QED BY <2>1, <2>2, <2>3, ApplyStep
<1>5. CASE Challenge
  <2>1. PICK a \in Identity, t \in Task, bond \in Ucu :
          /\ CanOpenChallenge(ledger, a, t, bond)
          /\ Apply(a, open_challenge(ledger, a, t, bond))
    BY <1>5 DEF Challenge
  <2>2. open_challenge(ledger, a, t, bond) \in State
    BY <1>1, <2>1, OpenChallengeType
  <2>3. Step(ledger, open_challenge(ledger, a, t, bond))
    BY <1>1, SamePastOperations, SamePastIsStep
  <2> QED BY <2>1, <2>2, <2>3, ApplyStep
<1>6. CASE Transfer
  <2>1. PICK a \in Identity, to \in Identity, amount \in Ucu :
          /\ CanTransfer(ledger, a, amount)
          /\ Apply(a, transfer(ledger, a, to, amount))
    BY <1>6 DEF Transfer
  <2>2. transfer(ledger, a, to, amount) \in State
    BY <1>1, <2>1, TransferType
  <2>3. Step(ledger, transfer(ledger, a, to, amount))
    BY <1>1, SamePastOperations, SamePastIsStep
  <2> QED BY <2>1, <2>2, <2>3, ApplyStep
<1>7. CASE AdvanceEpoch
  BY <1>1, <1>7, AdvanceEpochHistory DEF AdvanceEpoch
<1>8. CASE ResolveChallenge
  BY <1>1, <1>8, CloseChallengeHistory DEF ResolveChallenge, resolve_challenge
<1>9. CASE SamplingAudit
  BY <1>1, <1>9, ResolveFraudHistory DEF SamplingAudit
<1>10. CASE UNCHANGED ledger
  <2>1. SamePast(ledger, ledger')
    BY <1>10 DEF SamePast
  <2> QED BY <1>1, <2>1, SamePastIsStep
<1> QED BY <1>2, <1>3, <1>4, <1>5, <1>6, <1>7, <1>8, <1>9, <1>10 DEF Next

\* Before the first task there is one mint, the genesis, and no strike.
LEMMA GenesisHistory == Minted(genesis) /\ Struck(genesis)
<1>1. Minted(genesis)
  <2> DEFINE f == [t \in Task |-> mint_term(genesis, t)]
  <2>1. f \in [Task -> Int] /\ \A t \in Task : f[t] = 0
    BY DEF mint_term, genesis, nothing
  <2>2. SumFunction(f) = 0
    <3> HIDE DEF f
    <3> QED BY <2>1, TaskAssumption, SumFunctionZero
  <2>3. SumFunction(Allocation) \in Nat
    BY AllocationAssumption, IdentityAssumption, SumFunctionType
  <2> QED BY <2>2, <2>3 DEF Minted, genesis
<1>2. Struck(genesis)
  <2>1. \A a : slashes(genesis, a) = {}
    BY DEF slashes, genesis
  <2> QED BY <2>1, FS_EmptySet DEF Struck, genesis, nobody
<1> QED BY <1>1, <1>2

HistoryInv == IInv /\ Minted(ledger) /\ Struck(ledger)

\* The invariant of the history.
LEMMA HistoryInvariant == Spec => []HistoryInv
<1>1. Init => HistoryInv
  BY GenesisSound, GenesisHistory DEF Init, HistoryInv, IInv
<1>2. HistoryInv /\ [Next]_ledger => HistoryInv'
  BY NextSound, NextKeeps DEF HistoryInv, Step
<1> QED BY <1>1, <1>2, PTL DEF Spec

\* Everything minted after genesis is the issuance of one receipt.
THEOREM MintsHaveReceipts == Spec => []MintedByWork
<1>1. HistoryInv => MintedByWork
  BY DEF HistoryInv, Minted, mint_term, MintedByWork
<1> QED BY <1>1, HistoryInvariant, PTL

\* What is settled is never rewritten.
THEOREM Finality == Spec => SettlementFinal
<1>1. IInv /\ [Next]_ledger => [\A t \in Task : kept(ledger, ledger', t)]_ledger
  BY NextKeeps DEF Step, Kept
<1> QED BY <1>1, Soundness, PTL DEF Spec, SettlementFinal

-----------------------------------------------------------------------------
\* The strikes of a step are those of the tasks slashed in it.
LEMMA StrikesOfStep ==
  ASSUME NEW s \in State, NEW x \in State, Agree(s), Kept(s, x),
         Struck(s), Struck(x), NEW a \in Identity
  PROVE  x.strikes[a] = s.strikes[a] + Cardinality(struck_for(s, x, a))
<1> DEFINE old == slashes(s, a)
           new == struck_for(s, x, a)
<1>1. s.slashed \subseteq Task /\ x.slashed \subseteq Task
  BY FieldType
<1>2. ASSUME NEW t \in s.slashed
      PROVE  t \in x.slashed /\ x.tasks[t].provider = s.tasks[t].provider
  <2>1. t \in Task
    BY <1>1
  <2>2. s.tasks[t] # None /\ s.tasks[t].provider # None
    BY <2>1, StatusCases DEF Agree, records_agree, settled
  <2> QED BY <2>1, <2>2 DEF Kept, kept
<1>3. slashes(x, a) = old \cup new /\ old \cap new = {}
  BY <1>2 DEF slashes, struck_for
<1>4. IsFiniteSet(old) /\ IsFiniteSet(new)
  <2>1. old \subseteq Task /\ new \subseteq Task
    BY <1>1 DEF slashes, struck_for
  <2> QED BY <2>1, TaskAssumption, FS_Subset
<1> HIDE DEF old, new
<1>5. /\ Cardinality(old) \in Nat /\ Cardinality(new) \in Nat
      /\ Cardinality(slashes(x, a)) = Cardinality(old) + Cardinality(new)
  BY <1>3, <1>4, FS_Union, FS_EmptySet, FS_CardinalityType
<1> QED BY <1>5 DEF Struck, old, new

\* A transaction takes a nonce of its author.
LEMMA ApplyTakesNonce ==
  ASSUME NEW a \in Identity, NEW s \in State, ledger \in State,
         s.nonces = ledger.nonces, Apply(a, s)
  PROVE  ledger'.nonces # ledger.nonces
<1>1. ledger'.nonces = Credit(ledger.nonces, a, 1)
  BY DEF Apply, bump_nonce, State
<1>2. ledger.nonces \in [Identity -> Nat]
  BY FieldType
<1>3. ledger'.nonces[a] = ledger.nonces[a] + 1
  BY <1>1, <1>2 DEF Credit
<1> QED BY <1>2, <1>3

\* A punished task was not slashed before.
LEMMA PenaliseSlashes ==
  ASSUME NEW s \in State, NEW t \in Task, NEW reward_to, CanResolveFraud(s, t)
  PROVE  penalise(s, t, reward_to).slashed # s.slashed
<1>1. t \in penalise(s, t, reward_to).slashed
  BY DEF penalise, take_fraud_penalties, State
<1> QED BY <1>1 DEF CanResolveFraud

\* A challenge that ends and slashes nothing costs at most its bond.
LEMMA VerdictTakesBond ==
  ASSUME NEW s \in State, Submitted(s), NEW t \in Task, NEW fraud \in BOOLEAN,
         s.pending_challenges[t] # None,
         close_challenge(s, t, fraud).slashed = s.slashed,
         NEW a \in Identity
  PROVE  loses_bond_only(s, close_challenge(s, t, fraud), a)
<1> DEFINE x  == close_challenge(s, t, fraud)
           c  == closed(s, t)
           j  == judged(s, t, fraud)
           ch == s.pending_challenges[t].challenger
           bond == s.pending_challenges[t].bond
           b  == returned(s, t, fraud)
<1>1. /\ c \in State /\ j \in State /\ ch \in Identity /\ bond \in Nat
      /\ b \in Nat /\ b <= j.bonded[ch]
  BY ClosedType, JudgedType, PendingType
<1>2. /\ x.slashed = j.slashed /\ x.pending_challenges = j.pending_challenges
      /\ x.bonded = Debit(j.bonded, ch, b)
      /\ x.balance = IF fraud THEN Credit(j.balance, ch, b) ELSE j.balance
  <2> HIDE DEF j, b, ch
  <2> QED BY <1>1, CloseChallengeIs DEF State, j, b, ch
<1>3. j = c
  <2>1. c.slashed = s.slashed
    BY DEF closed, State
  <2>2. CanResolveFraud(c, t) => penalise(c, t, ch).slashed # c.slashed
    BY <1>1, PenaliseSlashes
  <2> HIDE DEF x, c
  <2>3. j = c \/ (CanResolveFraud(c, t) /\ j = penalise(c, t, ch))
    BY DEF judged, resolve_fraud, c
  <2> QED BY <1>2, <2>1, <2>2, <2>3 DEF x
<1>4. /\ c.balance = s.balance /\ c.bonded = s.bonded
      /\ c.pending_challenges[t] = None
  BY FieldType DEF closed, State
<1>5. b <= bond
  <2>1. j.bonded[ch] \in Nat
    BY <1>1, FieldType
  <2> HIDE DEF j, ch, bond
  <2> QED BY <1>1, <2>1, LeastType DEF returned, j, ch, bond
<1>6. s.balance \in [Identity -> Nat] /\ s.bonded \in [Identity -> Nat]
  BY FieldType
<1> HIDE DEF x, c, j, b
<1>7. CASE a # ch
  <2>1. x.balance[a] = s.balance[a] /\ x.bonded[a] = s.bonded[a]
    BY <1>1, <1>2, <1>3, <1>4, <1>6, <1>7 DEF Credit, Debit
  <2> QED BY <2>1 DEF loses_bond_only, x
<1>8. CASE a = ch
  <2>1. x.balance[a] >= s.balance[a]
    BY <1>1, <1>2, <1>3, <1>4, <1>6, <1>8 DEF Credit
  <2>2. x.bonded[a] = s.bonded[a] - b
    BY <1>1, <1>2, <1>3, <1>4, <1>6, <1>8 DEF Debit
  <2>3. x.bonded[a] + bond >= s.bonded[a]
    <3>1. s.bonded[a] \in Nat
      BY <1>6
    <3> QED BY <1>1, <1>5, <2>2, <3>1
  <2>4. x.pending_challenges[t] = None
    BY <1>2, <1>3, <1>4
  <2> QED BY <1>8, <2>1, <2>3, <2>4 DEF loses_bond_only, x
<1> QED BY <1>7, <1>8

\* A step without transaction, epoch and slash moves a bond at most.
LEMMA NextTakesBond ==
  ASSUME IInv, Next, ledger'.slashed = ledger.slashed,
         ledger'.nonces = ledger.nonces, ledger'.epoch = ledger.epoch,
         NEW a \in Identity
  PROVE  loses_bond_only(ledger, ledger', a)
<1>1. ledger \in State /\ Agree(ledger) /\ Submitted(ledger) /\ Sound(ledger)
  BY AgreeSubmitted DEF IInv, Sound
<1>2. CASE SubmitTask
  <2>1. PICK b \in Identity, t \in Task :
          CanSubmitTask(ledger, b, t) /\ Apply(b, submit_task(ledger, b, t))
    BY <1>2 DEF SubmitTask
  <2>2. submit_task(ledger, b, t).nonces = ledger.nonces
    BY <1>1 DEF submit_task, State
  <2> QED BY <1>1, <2>1, <2>2, SubmitTaskType, ApplyTakesNonce
<1>3. CASE ClaimTask
  <2>1. PICK b \in Identity, t \in Task :
          CanClaimTask(ledger, b, t) /\ Apply(b, claim_task(ledger, b, t))
    BY <1>3 DEF ClaimTask
  <2>2. claim_task(ledger, b, t).nonces = ledger.nonces
    BY <1>1 DEF claim_task, State
  <2> QED BY <1>1, <2>1, <2>2, ClaimTaskType, ApplyTakesNonce
<1>4. CASE SubmitProof
  <2>1. PICK b \in Identity, t \in Task, proof \in ComputeProof :
          /\ CanSubmitProof(ledger, b, t, proof)
          /\ Apply(b, submit_proof(ledger, t, proof))
    BY <1>4 DEF SubmitProof
  <2>2. submit_proof(ledger, t, proof) \in State
    BY <1>1, <2>1, SubmitProofSound DEF Sound
  <2>3. submit_proof(ledger, t, proof).nonces = ledger.nonces
    BY <1>1 DEF submit_proof, settle, pay, State
  <2> QED BY <1>1, <2>1, <2>2, <2>3, ApplyTakesNonce
<1>5. CASE Challenge
  <2>1. PICK b \in Identity, t \in Task, bond \in Ucu :
          /\ CanOpenChallenge(ledger, b, t, bond)
          /\ Apply(b, open_challenge(ledger, b, t, bond))
    BY <1>5 DEF Challenge
  <2>2. open_challenge(ledger, b, t, bond).nonces = ledger.nonces
    BY <1>1 DEF open_challenge, State
  <2> QED BY <1>1, <2>1, <2>2, OpenChallengeType, ApplyTakesNonce
<1>6. CASE Transfer
  <2>1. PICK b \in Identity, to \in Identity, amount \in Ucu :
          /\ CanTransfer(ledger, b, amount)
          /\ Apply(b, transfer(ledger, b, to, amount))
    BY <1>6 DEF Transfer
  <2>2. transfer(ledger, b, to, amount).nonces = ledger.nonces
    BY <1>1 DEF transfer, State
  <2> QED BY <1>1, <2>1, <2>2, TransferType, ApplyTakesNonce
<1>7. CASE AdvanceEpoch
  <2>1. ledger'.epoch = ledger.epoch + 1 /\ ledger.epoch \in Nat
    BY <1>1, <1>7, FieldType DEF AdvanceEpoch, advance_epoch, State
  <2> QED BY <2>1
<1>8. CASE ResolveChallenge
  <2>1. PICK t \in Task, fraud \in BOOLEAN :
          /\ ledger.pending_challenges[t] # None
          /\ ledger' = close_challenge(ledger, t, fraud)
    BY <1>8 DEF ResolveChallenge, resolve_challenge
  <2> QED BY <1>1, <2>1, VerdictTakesBond
<1>9. CASE SamplingAudit
  <2>1. PICK t \in Task : CanResolveFraud(ledger, t) /\ ledger' = penalise(ledger, t, None)
    BY <1>9 DEF SamplingAudit, resolve_fraud
  <2> QED BY <1>1, <2>1, PenaliseSlashes
<1> QED BY <1>2, <1>3, <1>4, <1>5, <1>6, <1>7, <1>8, <1>9 DEF Next

\* A fraud is punished once, whichever of a challenge and an audit proves it
\* first: one strike for its slash, and nothing but a bond for any other verdict.
THEOREM OnePenalty == Spec => PenalisedOnce
<1> DEFINE Once ==
      /\ \A a \in Identity :
           ledger'.strikes[a]
             = ledger.strikes[a] + Cardinality(struck_for(ledger, ledger', a))
      /\ (/\ ledger'.slashed = ledger.slashed
          /\ ledger'.nonces = ledger.nonces /\ ledger'.epoch = ledger.epoch)
         => \A a \in Identity : loses_bond_only(ledger, ledger', a)
<1>1. ASSUME HistoryInv, HistoryInv', Next PROVE Once
  <2>1. ledger \in State /\ ledger' \in State /\ Agree(ledger)
    BY <1>1 DEF HistoryInv, IInv, Sound
  <2>2. Kept(ledger, ledger')
    BY <1>1, NextKeeps DEF HistoryInv, Step
  <2>3. Struck(ledger) /\ Struck(ledger')
    BY <1>1 DEF HistoryInv
  <2>4. IInv
    BY <1>1 DEF HistoryInv
  <2> QED BY <1>1, <2>1, <2>2, <2>3, <2>4, StrikesOfStep, NextTakesBond
<1>2. HistoryInv /\ HistoryInv' /\ [Next]_ledger => [Once]_ledger
  BY <1>1
<1> HIDE DEF Once
<1>3. Spec => [][Once]_ledger
  BY <1>2, HistoryInvariant, PTL DEF Spec
<1> QED BY <1>3 DEF PenalisedOnce, Once
=============================================================================
