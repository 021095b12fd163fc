---------------------------- MODULE NodeTheorems ----------------------------
(***************************************************************************)
(* The node implements the ledger state machine, for any number of threads *)
(* and any transactions that clients may send; so all that is proved of    *)
(* the ledger holds of the node.  On top of that: what a thread read under *)
(* the mutex is still true when it comes back (ClaimAnswerTrue), and a     *)
(* verdict computed without the mutex is right when it is applied          *)
(* (VerdictSound, HonestNeverSlashed); the chain has each nonce once and   *)
(* in order (NoReplay).  Last, a replica that follows the node over RPC,   *)
(* through restarts of the node, agrees with it.                           *)
(***************************************************************************)
EXTENDS Replica, LedgerTheorems

-----------------------------------------------------------------------------
(***************************************************************************)
(* What a submit publishes.                                                *)
(***************************************************************************)
\* A submit that is published applies its transaction.
LEMMA SubmitIs ==
  ASSUME NEW stx, Submit(stx)
  PROVE  /\ CanApply(ledger, stx)
         /\ Publish(block_on(sequencer, <<stx>>, apply(ledger, stx)), <<stx>>)
         /\ ledger' = apply(ledger, stx) /\ storage' = ledger'
<1>1. CanApply(ledger, stx)
  BY ProduceOne DEF Submit
<1>2. Publish(block_on(sequencer, <<stx>>, apply(ledger, stx)), <<stx>>)
  <2> DEFINE p == produce(sequencer, <<stx>>, ledger)
             b == block_on(sequencer, <<stx>>, apply(ledger, stx))
  <2>1. p.block = b /\ p.txs = <<stx>>
    <3>1. p = [block |-> b, txs |-> <<stx>>, state |-> apply(ledger, stx)]
      BY <1>1, ProduceOne
    <3> HIDE DEF p, b
    <3> QED BY <3>1
  <2>2. Publish(p.block, p.txs)
    BY DEF Submit
  <2> HIDE DEF p, b
  <2>3. Publish(b, <<stx>>)
    BY <2>1, <2>2 DEF Publish
  <2> QED BY <2>3 DEF b
<1>3. ledger' = apply(ledger, stx) /\ storage' = ledger'
  BY <1>2 DEF Publish, block_on
<1> QED BY <1>1, <1>2, <1>3

-----------------------------------------------------------------------------
(***************************************************************************)
(* Steps of the node are steps of the ledger.                              *)
(***************************************************************************)
\* The transactions that a client may send within the bound on nonces.
Sendable == {stx \in SignedTx : stx.nonce < MaxNonce}

\* The mail is such.
LEMMA MailSendable == Mail \subseteq Sendable
BY MailAssumption DEF Sendable

\* The parts of a transaction.
LEMMA TxIs ==
  ASSUME NEW stx \in Sendable
  PROVE  /\ stx.author \in Identity /\ stx.nonce < MaxNonce
         /\ stx.tx.type \in {"SubmitTask", "ClaimTask", "SubmitProof", "Challenge",
                             "Transfer"}
         /\ stx.tx.type # "Transfer" => stx.tx.task \in Task
         /\ stx.tx.type = "SubmitProof" => stx.tx.proof \in ComputeProof
         /\ stx.tx.type = "Challenge" => stx.tx.bond \in Ucu
         /\ stx.tx.type = "Transfer" => stx.tx.to \in Identity /\ stx.tx.amount \in Ucu
<1>1. stx \in SignedTx /\ stx.nonce < MaxNonce
  BY DEF Sendable
<1>2. stx.author \in Identity /\ stx.tx \in Tx
  BY <1>1 DEF SignedTx
<1> QED BY <1>1, <1>2 DEF Tx

\* A transaction that is applied is a step of the ledger.
LEMMA AppliedIsStep ==
  ASSUME NEW stx \in Sendable, CanApply(ledger, stx), ledger' = apply(ledger, stx)
  PROVE  Next
<1> DEFINE a  == stx.author
           tx == stx.tx
<1>1. a \in Identity /\ ledger.nonces[a] < MaxNonce
  BY TxIs DEF CanApply, NonceOk
<1>2. CASE tx.type = "SubmitTask"
  <2>1. CanSubmitTask(ledger, a, tx.task) /\ Apply(a, submit_task(ledger, a, tx.task))
    BY <1>1, <1>2 DEF CanApply, apply, effect, Apply
  <2> QED BY <1>1, <1>2, <2>1, TxIs DEF Next, SubmitTask
<1>3. CASE tx.type = "ClaimTask"
  <2>1. CanClaimTask(ledger, a, tx.task) /\ Apply(a, claim_task(ledger, a, tx.task))
    BY <1>1, <1>3 DEF CanApply, apply, effect, Apply
  <2> QED BY <1>1, <1>3, <2>1, TxIs DEF Next, ClaimTask
<1>4. CASE tx.type = "SubmitProof"
  <2>1. /\ CanSubmitProof(ledger, a, tx.task, tx.proof)
        /\ Apply(a, submit_proof(ledger, tx.task, tx.proof))
    BY <1>1, <1>4 DEF CanApply, apply, effect, Apply
  <2> QED BY <1>1, <1>4, <2>1, TxIs DEF Next, SubmitProof
<1>5. CASE tx.type = "Challenge"
  <2>1. /\ CanOpenChallenge(ledger, a, tx.task, tx.bond)
        /\ Apply(a, open_challenge(ledger, a, tx.task, tx.bond))
    BY <1>1, <1>5 DEF CanApply, apply, effect, Apply
  <2> QED BY <1>1, <1>5, <2>1, TxIs DEF Next, Challenge
<1>6. CASE tx.type = "Transfer"
  <2>1. CanTransfer(ledger, a, tx.amount) /\ Apply(a, transfer(ledger, a, tx.to, tx.amount))
    BY <1>1, <1>6 DEF CanApply, apply, effect, Apply
  <2> QED BY <1>1, <1>6, <2>1, TxIs DEF Next, Transfer
<1> QED BY <1>2, <1>3, <1>4, <1>5, <1>6, TxIs

\* No transaction closes a challenge or slashes a task.
LEMMA AppliedIsQuiet ==
  ASSUME NEW s \in State, NEW stx \in Sendable, CanApply(s, stx)
  PROVE  /\ apply(s, stx).slashed = s.slashed /\ apply(s, stx).epoch = s.epoch
         /\ \A t \in Task : s.pending_challenges[t] # None =>
              apply(s, stx).pending_challenges[t] = s.pending_challenges[t]
<1> DEFINE a  == stx.author
           tx == stx.tx
           x  == effect(s, stx)
<1>1. CASE tx.type = "SubmitTask"
  <2>1. x = submit_task(s, a, tx.task)
    BY <1>1 DEF effect
  <2> QED BY <2>1 DEF submit_task, State, apply, bump_nonce
<1>2. CASE tx.type = "ClaimTask"
  <2>1. x = claim_task(s, a, tx.task)
    BY <1>2 DEF effect
  <2> QED BY <2>1 DEF claim_task, State, apply, bump_nonce
<1>3. CASE tx.type = "SubmitProof"
  <2>1. x = submit_proof(s, tx.task, tx.proof)
    BY <1>3 DEF effect
  <2> QED BY <2>1 DEF submit_proof, settle, pay, State, apply, bump_nonce
<1>4. CASE tx.type = "Challenge"
  <2>1. x = open_challenge(s, a, tx.task, tx.bond)
    BY <1>4 DEF effect
  <2>2. s.pending_challenges[tx.task] = None
    BY <1>4 DEF CanApply, CanOpenChallenge
  <2> QED BY <2>1, <2>2 DEF open_challenge, State, apply, bump_nonce
<1>5. CASE tx.type = "Transfer"
  <2>1. x = transfer(s, a, tx.to, tx.amount)
    BY <1>5 DEF effect
  <2> QED BY <2>1 DEF transfer, State, apply, bump_nonce
<1> QED BY <1>1, <1>2, <1>3, <1>4, <1>5, TxIs

\* A transaction takes the next nonce of its author and no other.
LEMMA AppliedTakesNonce ==
  ASSUME NEW s \in State, NEW stx \in Sendable
  PROVE  apply(s, stx).nonces = Credit(s.nonces, stx.author, 1)
<1> DEFINE a  == stx.author
           tx == stx.tx
<1>1. CASE tx.type = "SubmitTask"
  <2>1. effect(s, stx) = submit_task(s, a, tx.task)
    BY <1>1 DEF effect
  <2> QED BY <2>1 DEF submit_task, State, apply, bump_nonce
<1>2. CASE tx.type = "ClaimTask"
  <2>1. effect(s, stx) = claim_task(s, a, tx.task)
    BY <1>2 DEF effect
  <2> QED BY <2>1 DEF claim_task, State, apply, bump_nonce
<1>3. CASE tx.type = "SubmitProof"
  <2>1. effect(s, stx) = submit_proof(s, tx.task, tx.proof)
    BY <1>3 DEF effect
  <2> QED BY <2>1 DEF submit_proof, settle, pay, State, apply, bump_nonce
<1>4. CASE tx.type = "Challenge"
  <2>1. effect(s, stx) = open_challenge(s, a, tx.task, tx.bond)
    BY <1>4 DEF effect
  <2> QED BY <2>1 DEF open_challenge, State, apply, bump_nonce
<1>5. CASE tx.type = "Transfer"
  <2>1. effect(s, stx) = transfer(s, a, tx.to, tx.amount)
    BY <1>5 DEF effect
  <2> QED BY <2>1 DEF transfer, State, apply, bump_nonce
<1> QED BY <1>1, <1>2, <1>3, <1>4, <1>5, TxIs

\* A task that fails.
failed(sub) == [sub EXCEPT !.status = "Failed"]

\* From s to x a verdict on task t was given.
Ruled(s, x, t, fraud) ==
  /\ x.slashed = IF fraud THEN s.slashed \cup {t} ELSE s.slashed
  /\ x.epoch = s.epoch /\ x.nonces = s.nonces /\ x.q_ledger = s.q_ledger
  /\ x.tasks = s.tasks \/ x.tasks = [s.tasks EXCEPT ![t] = failed(@)]
  /\ \A v \in Task \ {t} : x.pending_challenges[v] = s.pending_challenges[v]

\* A verdict closes its own challenge and slashes exactly on fraud.
LEMMA VerdictIs ==
  ASSUME NEW s \in State, Agree(s), NEW t \in Task, NEW fraud \in BOOLEAN,
         s.pending_challenges[t] # None
  PROVE  Ruled(s, resolve_challenge(s, t, fraud), t, fraud)
<1> DEFINE c  == closed(s, t)
           j  == judged(s, t, fraud)
           x  == close_challenge(s, t, fraud)
           ch == s.pending_challenges[t].challenger
           same(y) == /\ y.epoch = s.epoch /\ y.nonces = s.nonces
                      /\ y.q_ledger = s.q_ledger
                      /\ y.pending_challenges = [s.pending_challenges EXCEPT ![t] = None]
<1>1. Submitted(s) /\ ch \in Identity /\ j \in State /\ c \in State
  BY AgreeSubmitted, PendingType, JudgedType, ClosedType
<1>2. /\ c.slashed = s.slashed /\ c.receipts = s.receipts /\ c.tasks = s.tasks
      /\ same(c)
  BY DEF closed, State
<1>3. s.receipts[t] # None /\ s.tasks[t].provider # None
  <2>1. records_agree(s, t)
    BY DEF Agree
  <2>2. settled(s, t)
    BY <2>1 DEF records_agree
  <2>3. s.receipts[t] # None
    BY <2>1, <2>2 DEF records_agree
  <2> QED BY <2>1, <2>2, <2>3, StatusCases
<1>4. CanResolveFraud(c, t) <=> t \notin s.slashed
  <2> HIDE DEF c
  <2> QED BY <1>2, <1>3 DEF CanResolveFraud
<1>5. \A y \in State : /\ penalise(y, t, ch).slashed = y.slashed \cup {t}
                       /\ penalise(y, t, ch).epoch = y.epoch
                       /\ penalise(y, t, ch).nonces = y.nonces
                       /\ penalise(y, t, ch).q_ledger = y.q_ledger
                       /\ penalise(y, t, ch).tasks = [y.tasks EXCEPT ![t] = failed(@)]
                       /\ penalise(y, t, ch).pending_challenges = y.pending_challenges
  BY DEF penalise, take_fraud_penalties, State, failed
<1>6. /\ j.slashed = IF fraud THEN s.slashed \cup {t} ELSE s.slashed
      /\ same(j)
      /\ j.tasks = s.tasks \/ j.tasks = [s.tasks EXCEPT ![t] = failed(@)]
  <2>1. CASE fraud
    <3>1. j = IF t \notin s.slashed THEN penalise(c, t, ch) ELSE c
      BY <1>4, <2>1 DEF judged, resolve_fraud
    <3> HIDE DEF c, j
    <3> QED BY <1>1, <1>2, <1>5, <2>1, <3>1
  <2>2. CASE ~ fraud
    <3>1. j = c
      BY <2>2 DEF judged
    <3> HIDE DEF c, j
    <3> QED BY <1>2, <2>2, <3>1
  <2> QED BY <2>1, <2>2
<1>7. x.slashed = j.slashed /\ x.epoch = j.epoch /\ x.nonces = j.nonces
      /\ x.q_ledger = j.q_ledger /\ x.tasks = j.tasks
      /\ x.pending_challenges = j.pending_challenges
  <2> HIDE DEF j
  <2> QED BY <1>1, CloseChallengeIs DEF State, j
<1>8. resolve_challenge(s, t, fraud) = x
  BY DEF resolve_challenge
<1>9. s.pending_challenges \in [Task -> ChallengeRecord \cup {None}]
  BY FieldType
<1> HIDE DEF x, j
<1>10. Ruled(s, x, t, fraud)
  BY <1>6, <1>7, <1>9 DEF Ruled
<1> QED BY <1>8, <1>10

\* The verdict that thread c applies.
Decides(c) ==
  /\ rpc[c].pc = "check" /\ Outcome[rpc[c].task] # None
  /\ ledger' = resolve_challenge(ledger, rpc[c].task,
                                 is_fraud(rpc[c].task, rpc[c].proof))

\* What a step of the node does to the ledger.
LEMMA NodeStepIs ==
  ASSUME [NodeNext]_vars
  PROVE  \/ \E stx \in Mail : CanApply(ledger, stx) /\ ledger' = apply(ledger, stx)
         \/ AdvanceEpoch
         \/ \E c \in Thread : Decides(c)
         \/ UNCHANGED ledger
<1>1. CASE HandleTx \/ HandleClaim \/ HandleChallenge
  BY <1>1, SubmitIs DEF HandleTx, HandleClaim, HandleChallenge
<1>2. CASE CallResolve \/ PutBlob \/ \E c \in Thread : AnswerClaim(c) \/ Gather(c) \/ Panic(c)
  BY <1>2 DEF CallResolve, PutBlob, AnswerClaim, Gather, Panic, node
<1>3. CASE EndEpoch
  BY <1>3 DEF EndEpoch, AdvanceEpoch, Publish, seal_block, block_on
<1>4. CASE \E c \in Thread : Resolve(c)
  BY <1>4 DEF Resolve, Decides, Publish, seal_block, block_on
<1>5. CASE UNCHANGED vars
  BY <1>5 DEF vars
<1> QED BY <1>1, <1>2, <1>3, <1>4, <1>5 DEF NodeNext

-----------------------------------------------------------------------------
(***************************************************************************)
(* The invariant of the node: what the calls in progress remember of the   *)
(* ledger is still so.                                                     *)
(***************************************************************************)
remembers(s, call) ==
  /\ call.pc = "claimed" => /\ s.tasks[call.task] # None
                            /\ s.tasks[call.task].provider = call.provider
                            /\ s.tasks[call.task].claim_stake = call.stake
  /\ call.pc = "check" => s.proofs[call.task] = call.proof

NodeInv ==
  /\ IInv
  /\ rpc \in [Thread -> Call]
  /\ \A c \in Thread : remembers(ledger, rpc[c])
  /\ HonestNeverSlashed

\* The parts of a call.
LEMMA CallIs ==
  ASSUME NEW call \in Call
  PROVE  /\ call.pc \in {"idle", "claimed", "gather", "check"}
         /\ call.pc # "idle" => call.task \in Task
         /\ call.pc = "claimed" => call.provider \in Identity /\ call.stake \in Nat
         /\ call.pc = "check" => call.proof \in ComputeProof
BY DEF Call

\* A proof that is in the ledger has a receipt.
LEMMA ProofHasReceipt ==
  ASSUME NEW s, Agree(s), NEW t \in Task, s.proofs[t] # None
  PROVE  s.receipts[t] # None
<1>1. records_agree(s, t)
  BY DEF Agree
<1> QED BY <1>1 DEF records_agree

\* What a call remembers is not forgotten: claims and proofs are final.
LEMMA RemembersStill ==
  ASSUME IInv, [Next]_ledger, NEW call \in Call, remembers(ledger, call)
  PROVE  remembers(ledger', call)
<1>1. call.pc # "idle" => kept(ledger, ledger', call.task)
  BY NextKeeps, CallIs DEF Step, Kept
<1>2. ASSUME call.pc = "claimed"
      PROVE  /\ ledger'.tasks[call.task] # None
             /\ ledger'.tasks[call.task].provider = call.provider
             /\ ledger'.tasks[call.task].claim_stake = call.stake
  <2> DEFINE t == call.task
  <2>1. t \in Task /\ call.provider # None
    BY <1>2, CallIs, NoneAssumption
  <2>2. kept(ledger, ledger', t)
    BY <1>1, <1>2
  <2>3. ledger.tasks[t] # None /\ ledger.tasks[t].provider = call.provider
        /\ ledger.tasks[t].claim_stake = call.stake
    BY <1>2 DEF remembers
  <2>4. ledger'.tasks[t].provider = call.provider
        /\ ledger'.tasks[t].claim_stake = call.stake
    BY <2>1, <2>2, <2>3 DEF kept
  <2>5. ledger'.tasks[t] # None
    <3>1. /\ ledger \in State /\ ledger' \in State
      BY NextSound DEF IInv, Sound
    <3>2. /\ stage(status(ledger, t)) <= stage(status(ledger', t))
      BY <2>2 DEF kept
    <3>3. ledger.tasks[t].status \in TaskStatus
      BY <2>1, <2>3, <3>1, SubmissionType
    <3>4. status(ledger, t) \in TaskStatus
      BY <2>3, <3>3 DEF status
    <3>5. stage(status(ledger, t)) >= 1
      BY <3>4, StageIs DEF TaskStatus
    <3>6. status(ledger', t) # "Unknown"
      <4>1. stage(status(ledger, t)) \in 0..4 /\ stage(status(ledger', t)) \in 0..4
        BY <2>1, <3>1, StageType
      <4> QED BY <3>2, <3>5, <4>1, StageIs
    <3> QED BY <3>6 DEF status
  <2> QED BY <2>4, <2>5
<1>3. ASSUME call.pc = "check" PROVE ledger'.proofs[call.task] = call.proof
  <2>1. call.task \in Task /\ call.proof # None
    BY <1>3, CallIs, NoneAssumption
  <2>2. ledger.proofs[call.task] = call.proof
    BY <1>3 DEF remembers
  <2>3. ledger.receipts[call.task] # None
    BY <2>1, <2>2, ProofHasReceipt DEF IInv, Sound
  <2> QED BY <1>1, <1>3, <2>2, <2>3 DEF kept
<1> QED BY <1>2, <1>3 DEF remembers

\* A step of the node is a step of the ledger or none.
LEMMA NodeStepRefines ==
  ASSUME NodeInv, [NodeNext]_vars
  PROVE  [Next]_ledger
<1>1. CASE \E stx \in Mail : CanApply(ledger, stx) /\ ledger' = apply(ledger, stx)
  BY <1>1, AppliedIsStep, MailSendable
<1>2. CASE AdvanceEpoch
  BY <1>2 DEF Next
<1>3. CASE \E c \in Thread : Decides(c)
  <2>1. PICK c \in Thread : Decides(c)
    BY <1>3
  <2> DEFINE t     == rpc[c].task
             fraud == is_fraud(t, rpc[c].proof)
  <2>2. t \in Task /\ fraud \in BOOLEAN
    BY <2>1, CallIs DEF Decides, NodeInv, is_fraud
  <2>3. ledger' = resolve_challenge(ledger, t, fraud)
    BY <2>1 DEF Decides
  <2> HIDE DEF t, fraud
  <2>4. CASE ledger.pending_challenges[t] = None
    BY <2>3, <2>4 DEF resolve_challenge
  <2>5. CASE ledger.pending_challenges[t] # None
    BY <2>2, <2>3, <2>5 DEF Next, ResolveChallenge
  <2> QED BY <2>4, <2>5
<1> QED BY <1>1, <1>2, <1>3, NodeStepIs

\* What claimTask remembers is the claim that was applied.
LEMMA ClaimRemembered ==
  ASSUME NEW s \in State, NEW stx \in Sendable, stx.tx.type = "ClaimTask",
         CanApply(s, stx)
  PROVE  LET call == [ pc       |-> "claimed",
                       task     |-> stx.tx.task,
                       provider |-> stx.author,
                       stake    |-> stake(s, stx.author, stx.tx.task) ]
         IN call \in Call /\ remembers(apply(s, stx), call)
<1> DEFINE a == stx.author
           t == stx.tx.task
           x == claim_task(s, a, t)
<1>1. a \in Identity /\ t \in Task
  BY TxIs
<1>2. apply(s, stx) = bump_nonce(x, a) /\ CanClaimTask(s, a, t)
  BY DEF apply, effect, CanApply
<1>3. stake(s, a, t) \in Nat
  BY <1>1, BodyType, AmountType, FieldType DEF stake
<1>4. apply(s, stx).tasks = x.tasks
  BY <1>2 DEF bump_nonce, claim_task, State
<1>5. s.tasks[t] \in Submission
  BY <1>1, <1>2, FieldType DEF CanClaimTask, status
<1>6. /\ x.tasks[t].provider = a /\ x.tasks[t].claim_stake = stake(s, a, t)
      /\ x.tasks[t] \in Submission
  <2>1. x.tasks[t] = [s.tasks[t] EXCEPT !.provider    = a,
                                        !.status      = "Executing",
                                        !.claim_stake = stake(s, a, t)]
    BY <1>1, FieldType DEF claim_task, State
  <2> HIDE DEF x
  <2> QED BY <1>1, <1>3, <1>5, <2>1 DEF Submission, TaskStatus
<1>7. x.tasks[t] # None
  BY <1>6, NoneAssumption
<1> HIDE DEF x
<1> QED BY <1>1, <1>3, <1>4, <1>6, <1>7 DEF Call, remembers

\* After each step the calls in progress remember what is so.
LEMMA CallsRemember ==
  ASSUME NodeInv, [NodeNext]_vars
  PROVE  /\ rpc' \in [Thread -> Call]
         /\ \A c \in Thread : remembers(ledger', rpc'[c])
<1>1. ASSUME NEW c \in Thread, NEW call \in Call, goes_on(c, call),
             remembers(ledger', call)
      PROVE  /\ rpc' \in [Thread -> Call]
             /\ \A d \in Thread : remembers(ledger', rpc'[d])
  <2>1. \A d \in Thread : rpc[d] \in Call /\ remembers(ledger', rpc[d])
    BY NodeStepRefines, RemembersStill DEF NodeInv
  <2>2. rpc \in [Thread -> Call] /\ rpc' = [rpc EXCEPT ![c] = call]
    BY <1>1 DEF NodeInv, goes_on
  <2> QED BY <1>1, <2>1, <2>2
<1>2. CASE UNCHANGED rpc
  BY <1>2, NodeStepRefines, RemembersStill DEF NodeInv
<1>3. idle \in Call /\ remembers(ledger', idle)
  BY DEF idle, Call, remembers
<1>4. ASSUME NEW t \in Task
      PROVE  LET call == [pc |-> "gather", task |-> t]
             IN call \in Call /\ remembers(ledger', call)
  BY DEF Call, remembers
<1>5. CASE HandleTx \/ PutBlob \/ EndEpoch \/ UNCHANGED vars
  BY <1>2, <1>5 DEF HandleTx, PutBlob, EndEpoch, vars
<1>6. CASE HandleClaim
  <2>1. PICK c \in Thread, stx \in Mail :
          /\ stx.tx.type = "ClaimTask" /\ Submit(stx)
          /\ goes_on(c, [ pc       |-> "claimed",
                          task     |-> stx.tx.task,
                          provider |-> stx.author,
                          stake    |-> stake(ledger, stx.author, stx.tx.task) ])
    BY <1>6 DEF HandleClaim
  <2>2. ledger \in State /\ CanApply(ledger, stx) /\ ledger' = apply(ledger, stx)
    BY <2>1, SubmitIs DEF NodeInv, IInv, Sound
  <2> QED BY <1>1, <2>1, <2>2, ClaimRemembered, MailSendable
<1>7. CASE HandleChallenge
  <2>1. PICK c \in Thread, stx \in Mail :
          /\ stx.tx.type = "Challenge"
          /\ goes_on(c, [pc |-> "gather", task |-> stx.tx.task])
    BY <1>7 DEF HandleChallenge
  <2>2. stx.tx.task \in Task
    BY <2>1, TxIs, MailSendable
  <2> QED BY <1>1, <1>4, <2>1, <2>2
<1>8. CASE CallResolve
  <2>1. PICK c \in Thread, t \in Task : goes_on(c, [pc |-> "gather", task |-> t])
    BY <1>8 DEF CallResolve
  <2> QED BY <1>1, <1>4, <2>1
<1>9. ASSUME NEW c \in Thread, AnswerClaim(c) \/ Resolve(c) \/ Panic(c)
      PROVE  goes_on(c, idle)
  BY <1>9 DEF AnswerClaim, Resolve, Panic
<1>10. ASSUME NEW c \in Thread, Gather(c)
       PROVE  /\ rpc' \in [Thread -> Call]
              /\ \A d \in Thread : remembers(ledger', rpc'[d])
  <2> DEFINE t    == rpc[c].task
             call == [pc |-> "check", task |-> t, proof |-> ledger.proofs[t]]
  <2>1. t \in Task
    BY <1>10, CallIs DEF Gather, NodeInv
  <2>2. CASE goes_on(c, idle)
    BY <1>1, <1>3, <2>2
  <2>3. CASE goes_on(c, call) /\ ledger.proofs[t] # None
    <3>1. ledger.proofs[t] \in ComputeProof
      BY <2>1, <2>3, FieldType DEF NodeInv, IInv, Sound
    <3>2. call \in Call
      BY <2>1, <3>1 DEF Call
    <3>3. ledger' = ledger
      BY <1>10 DEF Gather, node
    <3>4. remembers(ledger', call)
      BY <3>3 DEF remembers
    <3> HIDE DEF call
    <3> QED BY <1>1, <2>3, <3>2, <3>4
  <2>4. goes_on(c, idle) \/ (goes_on(c, call) /\ ledger.proofs[t] # None)
    BY <1>10 DEF Gather
  <2> QED BY <2>2, <2>3, <2>4
<1> QED BY <1>1, <1>3, <1>5, <1>6, <1>7, <1>8, <1>9, <1>10 DEF NodeNext

-----------------------------------------------------------------------------
(***************************************************************************)
(* Verdicts.                                                               *)
(***************************************************************************)
\* A verdict between two states of the ledger decides every challenge that it
\* closes by the proof that the ledger holds.
Decided == \A t \in Task :
  (/\ ledger.pending_challenges[t] # None
   /\ ledger'.pending_challenges[t] = None)
  => ((t \in ledger'.slashed) = ~ honest(t))

\* Slashed and challenged tasks have a receipt.
LEMMA JudgedHasReceipt ==
  ASSUME NEW s, Agree(s), NEW t \in Task,
         t \in s.slashed \/ s.pending_challenges[t] # None
  PROVE  s.receipts[t] # None
<1>1. records_agree(s, t)
  BY DEF Agree
<1>2. settled(s, t)
  BY <1>1 DEF records_agree, settled
<1> QED BY <1>1, <1>2 DEF records_agree

\* Every step of the node judges rightly.
LEMMA VerdictStep ==
  ASSUME NodeInv, [NodeNext]_vars
  PROVE  HonestNeverSlashed' /\ Decided
<1>1. ledger \in State /\ Agree(ledger) /\ ledger.slashed \subseteq Task
  BY FieldType DEF NodeInv, IInv, Sound
<1>2. \A t \in Task : ledger.receipts[t] # None => (honest(t)' <=> honest(t))
  <2>1. \A t \in Task : kept(ledger, ledger', t)
    BY NodeStepRefines, NextKeeps DEF NodeInv, Step, Kept
  <2>2. \A t \in Task : ledger.receipts[t] # None => ledger'.proofs[t] = ledger.proofs[t]
    BY <2>1 DEF kept
  <2> QED BY <2>2 DEF honest
<1>3. \A t \in ledger.slashed : ~ honest(t)'
  BY <1>1, <1>2, JudgedHasReceipt DEF NodeInv, HonestNeverSlashed
<1>4. ASSUME /\ ledger'.slashed = ledger.slashed
             /\ \A t \in Task : ledger.pending_challenges[t] # None =>
                  ledger'.pending_challenges[t] = ledger.pending_challenges[t]
      PROVE  HonestNeverSlashed' /\ Decided
  BY <1>3, <1>4 DEF HonestNeverSlashed, Decided
<1>5. CASE \E stx \in Mail : CanApply(ledger, stx) /\ ledger' = apply(ledger, stx)
  BY <1>1, <1>4, <1>5, AppliedIsQuiet, MailSendable
<1>6. CASE AdvanceEpoch
  <2>1. /\ ledger'.slashed = ledger.slashed
        /\ ledger'.pending_challenges = ledger.pending_challenges
    BY <1>1, <1>6 DEF AdvanceEpoch, advance_epoch, State
  <2> QED BY <1>4, <2>1
<1>7. CASE UNCHANGED ledger
  BY <1>4, <1>7
<1>8. CASE \E c \in Thread : Decides(c)
  <2>1. PICK c \in Thread : Decides(c)
    BY <1>8
  <2>2. PICK t \in Task, fraud \in BOOLEAN :
          /\ t = rpc[c].task /\ fraud = is_fraud(t, rpc[c].proof)
          /\ ledger' = resolve_challenge(ledger, t, fraud)
    BY <2>1, CallIs DEF Decides, NodeInv, is_fraud
  <2>3. fraud <=> ~ honest(t)
    <3>1. ledger.proofs[t] = rpc[c].proof
      BY <2>1, <2>2 DEF Decides, NodeInv, remembers
    <3>2. Outcome[t] # None
      BY <2>1, <2>2 DEF Decides
    <3> QED BY <2>2, <3>1, <3>2 DEF is_fraud, honest
  <2>4. CASE ledger.pending_challenges[t] = None
    BY <1>7, <2>2, <2>4 DEF resolve_challenge
  <2>5. CASE ledger.pending_challenges[t] # None
    <3>1. /\ ledger'.slashed = IF fraud THEN ledger.slashed \cup {t} ELSE ledger.slashed
          /\ \A v \in Task \ {t} :
               ledger'.pending_challenges[v] = ledger.pending_challenges[v]
      <4>1. Ruled(ledger, resolve_challenge(ledger, t, fraud), t, fraud)
        BY <1>1, <2>5, VerdictIs
      <4>2. Ruled(ledger, ledger', t, fraud)
        BY <2>2, <4>1
      <4> QED BY <4>2 DEF Ruled
    <3>2. honest(t)' <=> honest(t)
      BY <1>1, <1>2, <2>2, <2>5, JudgedHasReceipt
    <3>3. HonestNeverSlashed'
      <4>1. \A v \in ledger'.slashed : ~ honest(v)'
        BY <1>3, <2>3, <3>1, <3>2
      <4> QED BY <4>1 DEF HonestNeverSlashed
    <3>4. t \in ledger'.slashed <=> ~ honest(t)
      BY <2>3, <3>1 DEF NodeInv, HonestNeverSlashed
    <3>5. Decided
      BY <2>2, <3>1, <3>4 DEF Decided
    <3> QED BY <3>3, <3>5
  <2> QED BY <2>4, <2>5
<1> QED BY <1>5, <1>6, <1>7, <1>8, NodeStepIs

-----------------------------------------------------------------------------
(***************************************************************************)
(* The theorems.                                                           *)
(***************************************************************************)
\* The node starts with nothing to remember.
LEMMA NodeStarts == NodeInit => NodeInv
<1> SUFFICES ASSUME NodeInit PROVE NodeInv
  OBVIOUS
<1>1. IInv
  BY GenesisSound DEF NodeInit, Init, IInv
<1>2. rpc = [c \in Thread |-> idle] /\ ledger.slashed = {}
  BY DEF NodeInit, Init, genesis
<1>3. idle \in Call /\ remembers(ledger, idle)
  BY DEF idle, Call, remembers
<1> QED BY <1>1, <1>2, <1>3 DEF NodeInv, HonestNeverSlashed

\* Every step keeps the invariant.
LEMMA NodeInvStep ==
  ASSUME NodeInv, [NodeNext]_vars
  PROVE  NodeInv'
<1>1. IInv'
  BY NodeStepRefines, NextSound DEF NodeInv
<1> QED BY <1>1, CallsRemember, VerdictStep DEF NodeInv

\* The invariant of the node.
THEOREM NodeSoundness == NodeSpec => []NodeInv
<1>1. NodeInit => NodeInv
  BY NodeStarts
<1>2. NodeInv /\ [NodeNext]_vars => NodeInv'
  BY NodeInvStep
<1> QED BY <1>1, <1>2, PTL DEF NodeSpec

\* The node implements the ledger state machine: every transaction, epoch and
\* verdict it publishes is one step of it, every other step none.
THEOREM NodeImplementsLedger == NodeSpec => LedgerSpec
<1>1. NodeInit => Init
  BY DEF NodeInit
<1>2. NodeInv /\ [NodeNext]_vars => [Next]_ledger
  BY NodeStepRefines
<1> QED BY <1>1, <1>2, NodeSoundness, PTL DEF NodeSpec, LedgerSpec, Spec

\* The answer to a claim is the stake of that claim, whatever ran in between.
THEOREM ClaimAnswers == NodeSpec => []ClaimAnswerTrue
<1>1. NodeInv => ClaimAnswerTrue
  BY DEF NodeInv, remembers, ClaimAnswerTrue
<1> QED BY <1>1, NodeSoundness, PTL

\* A challenge is decided by the proof the ledger holds when the verdict falls.
THEOREM VerdictsSound == NodeSpec => VerdictSound
<1>1. NodeInv /\ [NodeNext]_vars
        => [\A t \in Task :
              (/\ ledger.pending_challenges[t] # None
               /\ ledger'.pending_challenges[t] = None)
              => ((t \in ledger'.slashed) = ~ honest(t))]_vars
  BY VerdictStep DEF Decided
<1> QED BY <1>1, NodeSoundness, PTL DEF NodeSpec, VerdictSound

\* Nobody is slashed who proved what re-execution yields.
THEOREM HonestSafe == NodeSpec => []HonestNeverSlashed
<1>1. NodeInv => HonestNeverSlashed
  BY DEF NodeInv
<1> QED BY <1>1, NodeSoundness, PTL

-----------------------------------------------------------------------------
(***************************************************************************)
(* The chain.                                                              *)
(***************************************************************************)
Hash == {zero} \cup [ height     : Nat,
                      epoch      : Nat,
                      txs        : Seq(Mail),
                      state_root : State ]

Block == [ height     : Nat,
           parent     : Hash,
           epoch      : Nat,
           txs        : Seq(Mail),
           state_root : State ]

Sequencer == [height : Nat, parent : Hash, epoch : Nat]

\* The chain links up, and the next block will be of the ledger's epoch.
ChainInv == /\ blocks \in Seq(Block) /\ block_txs \in Seq(Seq(Mail))
            /\ sequencer \in Sequencer
            /\ sequencer.epoch = ledger.epoch
            /\ ChainLinked

\* A block on the head of the chain, in the epoch of its post-state.
NextBlock(b) == /\ b \in Block
                /\ b.height = sequencer.height + 1
                /\ b.parent = sequencer.parent
                /\ b.epoch = b.state_root.epoch

\* A sequence that is one element longer.
LEMMA AppendIs ==
  ASSUME NEW S, NEW q \in Seq(S), NEW e \in S, NEW n \in Nat, Len(q) = n
  PROVE  /\ Append(q, e) \in Seq(S) /\ Len(Append(q, e)) = n + 1
         /\ Append(q, e)[n + 1] = e
         /\ \A h \in 1..n : Append(q, e)[h] = q[h]
         /\ n = 0 <=> q = << >>
OBVIOUS

\* Publishing such a block lengthens the chain by one link.
LEMMA PublishChains ==
  ASSUME ChainInv, NEW b, NextBlock(b), Publish(b, b.txs)
  PROVE  ChainInv'
<1>0. PICK n \in Nat : n = Len(blocks)
  BY DEF ChainInv
<1>1. /\ blocks \in Seq(Block) /\ block_txs \in Seq(Seq(Mail)) /\ b \in Block
      /\ n = sequencer.height /\ Len(blocks) = n /\ Len(block_txs) = n
  BY <1>0 DEF ChainInv, ChainLinked, NextBlock
<1>2. /\ blocks' = Append(blocks, b) /\ block_txs' = Append(block_txs, b.txs)
      /\ ledger' = b.state_root /\ storage' = b.state_root
      /\ sequencer' = adopt(sequencer, b)
  BY DEF Publish
<1>3. b.txs \in Seq(Mail) /\ b.height \in Nat /\ b.epoch \in Nat /\ b.state_root \in State
  BY <1>1 DEF Block
<1>4. /\ blocks' \in Seq(Block) /\ block_txs' \in Seq(Seq(Mail))
      /\ Len(blocks') = n + 1 /\ Len(block_txs') = n + 1
      /\ blocks'[n + 1] = b /\ block_txs'[n + 1] = b.txs
      /\ \A h \in 1..n : blocks'[h] = blocks[h] /\ block_txs'[h] = block_txs[h]
  <2>1. /\ Append(blocks, b) \in Seq(Block) /\ Len(Append(blocks, b)) = n + 1
        /\ Append(blocks, b)[n + 1] = b
        /\ \A h \in 1..n : Append(blocks, b)[h] = blocks[h]
    BY <1>1, AppendIs
  <2>2. /\ Append(block_txs, b.txs) \in Seq(Seq(Mail))
        /\ Len(Append(block_txs, b.txs)) = n + 1
        /\ Append(block_txs, b.txs)[n + 1] = b.txs
        /\ \A h \in 1..n : Append(block_txs, b.txs)[h] = block_txs[h]
    BY <1>1, <1>3, AppendIs
  <2> QED BY <1>2, <2>1, <2>2
<1>5. /\ sequencer' \in Sequencer /\ sequencer'.epoch = ledger'.epoch
      /\ sequencer'.height = n + 1 /\ sequencer'.parent = block_hash(b)
  BY <1>1, <1>2, <1>3 DEF adopt, Sequencer, Hash, block_hash, NextBlock
<1>6. ASSUME NEW h \in 1..(n + 1)
      PROVE  /\ blocks'[h].height = h
             /\ blocks'[h].parent = IF h = 1 THEN zero ELSE block_hash(blocks'[h - 1])
             /\ blocks'[h].txs = block_txs'[h]
             /\ blocks'[h].epoch = blocks'[h].state_root.epoch
  <2>1. CASE h \in 1..n
    <3>1. /\ blocks[h].height = h
          /\ blocks[h].parent = IF h = 1 THEN zero ELSE block_hash(blocks[h - 1])
          /\ blocks[h].txs = block_txs[h]
          /\ blocks[h].epoch = blocks[h].state_root.epoch
      BY <1>0, <2>1 DEF ChainInv, ChainLinked
    <3>2. h # 1 => blocks'[h - 1] = blocks[h - 1]
      <4>1. h # 1 => h - 1 \in 1..n
        BY <2>1
      <4> QED BY <1>4, <4>1
    <3> QED BY <1>4, <2>1, <3>1, <3>2
  <2>2. CASE h = n + 1
    <3>1. b.parent = IF n = 0 THEN zero ELSE block_hash(blocks[n])
      <4>1. n = 0 <=> blocks = << >>
        <5>1. blocks \in Seq(Block) /\ Len(blocks) = n
          BY <1>1
        <5> QED BY <5>1
      <4> QED BY <1>0, <4>1 DEF NextBlock, ChainInv, ChainLinked, Last
    <3>2. n # 0 => blocks'[n] = blocks[n]
      <4>1. n # 0 => n \in 1..n
        OBVIOUS
      <4> QED BY <1>4, <4>1
    <3>3. h = 1 <=> n = 0
      BY <1>1, <2>2
    <3>4. h - 1 = n
      BY <1>1, <2>2
    <3> QED BY <1>1, <1>4, <2>2, <3>1, <3>2, <3>3, <3>4 DEF NextBlock
  <2> QED BY <1>1, <2>1, <2>2
<1>7. ChainLinked'
  <2>1. blocks' # << >> /\ blocks'[Len(blocks')] = b
    BY <1>4
  <2>2. ledger' = root(n + 1)'
    BY <1>2, <1>4 DEF root
  <2> QED BY <1>2, <1>4, <1>5, <1>6, <2>1, <2>2 DEF ChainLinked, Last
<1> QED BY <1>4, <1>5, <1>7 DEF ChainInv

\* What a step of the node publishes, if anything, is the next block.
LEMMA NodePublishes ==
  ASSUME NodeInv, ChainInv, [NodeNext]_vars
  PROVE  \/ UNCHANGED node
         \/ \E b : NextBlock(b) /\ Publish(b, b.txs)
<1>1. /\ ledger \in State /\ ledger' \in State /\ sequencer \in Sequencer
      /\ sequencer.height \in Nat /\ sequencer.parent \in Hash
      /\ sequencer.epoch = ledger.epoch
  BY NodeStepRefines, NextSound DEF NodeInv, IInv, Sound, ChainInv, Sequencer
<1>2. ASSUME NEW seq, NEW txs \in Seq(Mail), NEW s, Publish(block_on(seq, txs, s), txs),
             seq.height = sequencer.height, seq.parent = sequencer.parent,
             seq.epoch = s.epoch
      PROVE  \E b : NextBlock(b) /\ Publish(b, b.txs)
  <2> DEFINE b == block_on(seq, txs, s)
  <2>1. s \in State /\ s.epoch \in Nat
    <3>1. ledger' = s
      BY <1>2 DEF Publish, block_on
    <3> QED BY <1>1, <3>1, FieldType
  <2>2. NextBlock(b)
    BY <1>1, <1>2, <2>1 DEF block_on, NextBlock, Block
  <2>3. b.txs = txs
    BY DEF block_on
  <2>4. Publish(b, b.txs)
    BY <1>2, <2>3
  <2> HIDE DEF b
  <2> QED BY <2>2, <2>4
<1>3. CASE HandleTx \/ HandleClaim \/ HandleChallenge
  <2>1. PICK stx \in Mail : Submit(stx)
    BY <1>3 DEF HandleTx, HandleClaim, HandleChallenge
  <2>2. /\ CanApply(ledger, stx)
        /\ Publish(block_on(sequencer, <<stx>>, apply(ledger, stx)), <<stx>>)
    BY <2>1, SubmitIs
  <2>3. apply(ledger, stx).epoch = ledger.epoch
    BY <1>1, <2>2, AppliedIsQuiet, MailSendable
  <2>4. <<stx>> \in Seq(Mail)
    OBVIOUS
  <2> QED BY <1>1, <1>2, <2>2, <2>3, <2>4
<1>4. CASE CallResolve \/ PutBlob \/ \E c \in Thread : AnswerClaim(c) \/ Gather(c) \/ Panic(c)
  BY <1>4 DEF CallResolve, PutBlob, AnswerClaim, Gather, Panic
<1>5. << >> \in Seq(Mail)
  OBVIOUS
<1>6. CASE EndEpoch
  <2> DEFINE s   == advance_epoch(ledger)
             seq == at_epoch(sequencer, s)
  <2>1. Publish(block_on(seq, << >>, s), << >>)
    BY <1>6 DEF EndEpoch, seal_block
  <2>2. seq.height = sequencer.height /\ seq.parent = sequencer.parent
        /\ seq.epoch = s.epoch
    BY <1>1 DEF at_epoch, Sequencer
  <2> HIDE DEF s, seq
  <2> QED BY <1>2, <1>5, <2>1, <2>2
<1>7. CASE \E c \in Thread : Resolve(c)
  <2>1. PICK c \in Thread : Resolve(c)
    BY <1>7
  <2>2. PICK t \in Task, fraud \in BOOLEAN :
          Publish(block_on(sequencer, << >>, resolve_challenge(ledger, t, fraud)), << >>)
    BY <2>1, CallIs DEF Resolve, NodeInv, is_fraud, seal_block
  <2> DEFINE x == resolve_challenge(ledger, t, fraud)
  <2>3. x.epoch = ledger.epoch
    <3>1. Agree(ledger)
      BY DEF NodeInv, IInv, Sound
    <3>2. CASE ledger.pending_challenges[t] = None
      BY <3>2 DEF resolve_challenge
    <3>3. CASE ledger.pending_challenges[t] # None
      <4>1. Ruled(ledger, x, t, fraud)
        BY <1>1, <3>1, <3>3, VerdictIs
      <4> HIDE DEF x
      <4> QED BY <4>1 DEF Ruled
    <3> QED BY <3>2, <3>3
  <2> HIDE DEF x
  <2> QED BY <1>1, <1>2, <1>5, <2>2, <2>3 DEF x
<1>8. CASE UNCHANGED vars
  BY <1>8 DEF vars, node
<1> QED BY <1>3, <1>4, <1>6, <1>7, <1>8 DEF NodeNext

\* The node starts without a block.
LEMMA ChainStarts == NodeInit => ChainInv
<1> SUFFICES ASSUME NodeInit PROVE ChainInv
  OBVIOUS
<1>1. /\ blocks = << >> /\ block_txs = << >> /\ sequencer = new_sequencer
      /\ ledger = genesis /\ storage = genesis
  BY DEF NodeInit, Init
<1>2. /\ blocks \in Seq(Block) /\ block_txs \in Seq(Seq(Mail))
      /\ Len(blocks) = 0 /\ Len(block_txs) = 0
  BY <1>1
<1>3. sequencer \in Sequencer /\ sequencer.epoch = ledger.epoch
  BY <1>1 DEF new_sequencer, Sequencer, Hash, genesis
<1>4. sequencer.height = 0 /\ sequencer.parent = zero
  BY <1>1 DEF new_sequencer
<1> QED BY <1>1, <1>2, <1>3, <1>4 DEF ChainInv, ChainLinked, root

\* Every step keeps the invariant.
LEMMA ChainInvStep ==
  ASSUME NodeInv, ChainInv, [NodeNext]_vars
  PROVE  ChainInv'
<1>1. ASSUME UNCHANGED node PROVE ChainInv'
  BY <1>1 DEF ChainInv, ChainLinked, root, node
<1> QED BY <1>1, NodePublishes, PublishChains

\* The invariant of the chain.
THEOREM ChainSoundness == NodeSpec => []ChainInv
<1>1. NodeInit => ChainInv
  BY ChainStarts
<1>2. NodeInv /\ ChainInv /\ [NodeNext]_vars => ChainInv'
  BY ChainInvStep
<1> QED BY <1>1, <1>2, NodeSoundness, PTL DEF NodeSpec

\* The chain links up after every step, at every length.
THEOREM ChainLinks == NodeSpec => []ChainLinked
<1>1. ChainInv => ChainLinked
  BY DEF ChainInv
<1> QED BY <1>1, ChainSoundness, PTL

\* The node keeps its types, blobs included.
THEOREM NodeTypeCorrect == NodeSpec => []NodeTypeOK
<1>1. NodeInit => blobs \subseteq Blob
  BY DEF NodeInit
<1>2. blobs \subseteq Blob /\ [NodeNext]_vars => (blobs \subseteq Blob)'
  BY DEF NodeNext, HandleTx, HandleClaim, HandleChallenge, CallResolve, PutBlob,
         EndEpoch, AnswerClaim, Gather, Resolve, Panic, vars
<1>3. NodeInv /\ ChainInv /\ blobs \subseteq Blob => NodeTypeOK
  <2>1. NodeInv => ledger \in State
    BY DEF NodeInv, IInv, Sound
  <2>2. ChainInv => storage = ledger /\ sequencer.height \in Nat /\ sequencer.epoch \in Nat
    BY DEF ChainInv, ChainLinked, Sequencer
  <2> QED BY <2>1, <2>2 DEF NodeTypeOK, NodeInv
<1> QED BY <1>1, <1>2, <1>3, NodeSoundness, ChainSoundness, PTL DEF NodeSpec

-----------------------------------------------------------------------------
(***************************************************************************)
(* The transactions of the chain.                                          *)
(***************************************************************************)
\* What a step appends: a transaction that takes its author's next nonce, or
\* nothing, when no nonce is taken.
LEMMA NodeAppends ==
  ASSUME NodeInv, [NodeNext]_vars
  PROVE  \/ UNCHANGED <<ledger, block_txs>>
         \/ \E stx \in Mail :
              /\ stx.sig = stx.author /\ stx.nonce = ledger.nonces[stx.author]
              /\ block_txs' = Append(block_txs, <<stx>>)
              /\ ledger'.nonces = Credit(ledger.nonces, stx.author, 1)
         \/ block_txs' = Append(block_txs, << >>) /\ ledger'.nonces = ledger.nonces
<1>1. ledger \in State /\ Agree(ledger)
  BY DEF NodeInv, IInv, Sound
<1>2. CASE HandleTx \/ HandleClaim \/ HandleChallenge
  <2>1. PICK stx \in Mail : Submit(stx)
    BY <1>2 DEF HandleTx, HandleClaim, HandleChallenge
  <2>2. /\ CanApply(ledger, stx) /\ ledger' = apply(ledger, stx)
        /\ Publish(block_on(sequencer, <<stx>>, apply(ledger, stx)), <<stx>>)
    BY <2>1, SubmitIs
  <2>3. ledger'.nonces = Credit(ledger.nonces, stx.author, 1)
    BY <1>1, <2>2, AppliedTakesNonce, MailSendable
  <2>4. block_txs' = Append(block_txs, <<stx>>)
    BY <2>2 DEF Publish
  <2> QED BY <2>2, <2>3, <2>4 DEF CanApply, NonceOk, verify_sig
<1>3. CASE CallResolve \/ PutBlob \/ \E c \in Thread : AnswerClaim(c) \/ Gather(c) \/ Panic(c)
  BY <1>3 DEF CallResolve, PutBlob, AnswerClaim, Gather, Panic, node
<1>4. CASE EndEpoch
  <2>1. ledger' = advance_epoch(ledger) /\ block_txs' = Append(block_txs, << >>)
    BY <1>4 DEF EndEpoch, Publish, seal_block, block_on
  <2>2. advance_epoch(ledger).nonces = ledger.nonces
    BY <1>1 DEF advance_epoch, State
  <2> QED BY <2>1, <2>2
<1>5. CASE \E c \in Thread : Resolve(c)
  <2>1. PICK t \in Task, fraud \in BOOLEAN :
          ledger' = resolve_challenge(ledger, t, fraud)
    BY <1>5, CallIs DEF Resolve, NodeInv, is_fraud, Publish, seal_block, block_on
  <2>2. block_txs' = Append(block_txs, << >>)
    BY <1>5 DEF Resolve, Publish
  <2>3. ledger'.nonces = ledger.nonces
    <3>1. CASE ledger.pending_challenges[t] = None
      BY <2>1, <3>1 DEF resolve_challenge
    <3>2. CASE ledger.pending_challenges[t] # None
      <4>1. Ruled(ledger, resolve_challenge(ledger, t, fraud), t, fraud)
        BY <1>1, <3>2, VerdictIs
      <4>2. Ruled(ledger, ledger', t, fraud)
        BY <2>1, <4>1
      <4> QED BY <4>2 DEF Ruled
    <3> QED BY <3>1, <3>2
  <2> QED BY <2>2, <2>3
<1>6. CASE UNCHANGED vars
  BY <1>6 DEF vars
<1> QED BY <1>2, <1>3, <1>4, <1>5, <1>6 DEF NodeNext

\* A place is a block and a position in it.
LEMMA PlaceIs ==
  ASSUME NEW q
  PROVE  \A p : p \in UNION {{h} \X DOMAIN q[h] : h \in DOMAIN q}
                <=> \E h \in DOMAIN q : \E i \in DOMAIN q[h] : p = <<h, i>>
OBVIOUS

\* The places after a block was appended.
LEMMA PlacesGrow ==
  ASSUME block_txs \in Seq(Seq(Mail)), NEW txs \in Seq(Mail),
         block_txs' = Append(block_txs, txs), NEW n, n = Len(block_txs)
  PROVE  /\ n \in Nat /\ block_txs' \in Seq(Seq(Mail))
         /\ \A p : p \in places' <=> \/ p \in places
                                      \/ \E i \in DOMAIN txs : p = <<n + 1, i>>
         /\ \A p \in places : /\ p[1] \in 1..n /\ p[2] \in Nat
                               /\ tx_at(p)' = tx_at(p) /\ tx_at(p) \in Mail
         /\ \A i \in DOMAIN txs : tx_at(<<n + 1, i>>)' = txs[i]
<1>1. /\ n \in Nat /\ DOMAIN block_txs = 1..n
      /\ block_txs' \in Seq(Seq(Mail)) /\ DOMAIN block_txs' = 1..(n + 1)
      /\ \A h \in 1..n : block_txs'[h] = block_txs[h] /\ block_txs[h] \in Seq(Mail)
      /\ block_txs'[n + 1] = txs
  OBVIOUS
<1>2. \A h : h \in 1..(n + 1) <=> h \in 1..n \/ h = n + 1
  BY <1>1
<1>3. \A p : p \in places <=> \E h \in 1..n : \E i \in DOMAIN block_txs[h] : p = <<h, i>>
  BY <1>1, PlaceIs DEF places
<1>4. \A p : p \in places' <=>
        \E h \in 1..(n + 1) : \E i \in DOMAIN block_txs'[h] : p = <<h, i>>
  BY <1>1, PlaceIs DEF places
<1>5. ASSUME NEW p
      PROVE  p \in places' <=> \/ p \in places
                               \/ \E i \in DOMAIN txs : p = <<n + 1, i>>
  BY <1>1, <1>2, <1>3, <1>4
<1>6. ASSUME NEW p \in places
      PROVE  /\ p[1] \in 1..n /\ p[2] \in Nat
             /\ tx_at(p)' = tx_at(p) /\ tx_at(p) \in Mail
  <2>1. PICK h \in 1..n : \E i \in DOMAIN block_txs[h] : p = <<h, i>>
    BY <1>3, <1>6
  <2>2. PICK i \in DOMAIN block_txs[h] : p = <<h, i>>
    BY <2>1
  <2>3. block_txs[h] \in Seq(Mail) /\ i \in Nat /\ block_txs[h][i] \in Mail
    BY <1>1
  <2>4. tx_at(p) = block_txs[h][i] /\ tx_at(p)' = block_txs'[h][i]
    BY <2>2 DEF tx_at
  <2> QED BY <1>1, <2>1, <2>2, <2>3, <2>4
<1>7. \A i \in DOMAIN txs : tx_at(<<n + 1, i>>)' = txs[i]
  BY <1>1 DEF tx_at
<1> QED BY <1>1, <1>5, <1>6, <1>7

\* A step keeps the promise.
LEMMA TxsStep ==
  ASSUME NodeInv, ChainInv, ChainInv', NoReplay, [NodeNext]_vars
  PROVE  NoReplay'
<1>n. PICK n : n = Len(block_txs)
  OBVIOUS
<1>1. /\ block_txs \in Seq(Seq(Mail)) /\ ledger \in State
      /\ ledger.nonces \in [Identity -> Nat]
  BY FieldType DEF NodeInv, IInv, Sound, ChainInv
<1>2. CASE UNCHANGED <<ledger, block_txs>>
  <2>1. places' = places /\ \A p : tx_at(p)' = tx_at(p)
    BY <1>2 DEF places, tx_at
  <2> QED BY <1>2, <2>1 DEF NoReplay
<1>3. CASE block_txs' = Append(block_txs, << >>) /\ ledger'.nonces = ledger.nonces
  <2>1. << >> \in Seq(Mail) /\ DOMAIN << >> = {}
    OBVIOUS
  <2>2. /\ \A p : p \in places' <=> p \in places
        /\ \A p \in places : tx_at(p)' = tx_at(p)
    BY <1>1, <1>3, <2>1, PlacesGrow
  <2> QED BY <1>3, <2>2 DEF NoReplay
<1>4. ASSUME NEW stx \in Mail,
             stx.sig = stx.author, stx.nonce = ledger.nonces[stx.author],
             block_txs' = Append(block_txs, <<stx>>),
             ledger'.nonces = Credit(ledger.nonces, stx.author, 1)
      PROVE  NoReplay'
  <2> DEFINE last == <<n + 1, 1>>
  <2>1. <<stx>> \in Seq(Mail) /\ DOMAIN <<stx>> = {1} /\ <<stx>>[1] = stx
    OBVIOUS
  <2>2. /\ n \in Nat
        /\ \A p : p \in places' <=> p \in places \/ p = last
        /\ \A p \in places : /\ p[1] \in 1..n /\ p[2] \in Nat
                              /\ tx_at(p)' = tx_at(p) /\ tx_at(p) \in Mail
        /\ tx_at(last)' = stx
    <3> DEFINE txs == <<stx>>
    <3>1. txs \in Seq(Mail) /\ DOMAIN txs = {1} /\ txs[1] = stx
      BY <2>1
    <3>2. block_txs' = Append(block_txs, txs)
      BY <1>4
    <3> HIDE DEF txs
    <3>3. /\ n \in Nat
          /\ \A p : p \in places' <=> \/ p \in places
                                       \/ \E i \in DOMAIN txs : p = <<n + 1, i>>
          /\ \A p \in places : /\ p[1] \in 1..n /\ p[2] \in Nat
                                /\ tx_at(p)' = tx_at(p) /\ tx_at(p) \in Mail
          /\ \A i \in DOMAIN txs : tx_at(<<n + 1, i>>)' = txs[i]
      BY <1>n, <1>1, <3>1, <3>2, PlacesGrow DEF tx_at
    <3> QED BY <3>1, <3>3
  <2>3. /\ last[1] = n + 1 /\ last[2] = 1
    OBVIOUS
  <2>4. /\ stx.author \in Identity /\ stx.nonce \in Nat
        /\ \A p \in places : tx_at(p).author \in Identity /\ tx_at(p).nonce \in Nat
    <3>1. \A m \in Mail : m.author \in Identity /\ m.nonce \in Nat
      BY MailAssumption DEF SignedTx
    <3> QED BY <2>2, <3>1
  <2> HIDE DEF last
  <2>5. \A a \in Identity :
          ledger'.nonces[a] = IF a = stx.author THEN ledger.nonces[a] + 1
                                                ELSE ledger.nonces[a]
    BY <1>1, <1>4, <2>4 DEF Credit
  <2>6. ASSUME NEW p \in places'
        PROVE  /\ tx_at(p)'.sig = tx_at(p)'.author
               /\ tx_at(p)'.nonce < ledger'.nonces[tx_at(p)'.author]
    <3>1. CASE p = last
      <4>1. tx_at(p)' = stx
        BY <2>2, <3>1
      <4> QED BY <1>1, <1>4, <2>4, <2>5, <4>1
    <3>2. CASE p \in places
      <4>1. /\ tx_at(p).sig = tx_at(p).author
            /\ tx_at(p).nonce < ledger.nonces[tx_at(p).author]
        BY <3>2 DEF NoReplay
      <4>2. tx_at(p)' = tx_at(p)
        BY <2>2, <3>2
      <4> QED BY <1>1, <2>4, <2>5, <3>2, <4>1, <4>2
    <3> QED BY <2>2, <3>1, <3>2
  <2>7. ASSUME NEW p \in places', NEW r \in places', before(p, r),
               tx_at(p)'.author = tx_at(r)'.author
        PROVE  tx_at(p)'.nonce < tx_at(r)'.nonce
    <3>1. CASE p = last
      <4>1. r[1] \in 1..n \/ r = last
        BY <2>2
      <4>2. ~ before(p, r)
        BY <2>2, <2>3, <3>1, <4>1 DEF before
      <4> QED BY <2>7, <4>2
    <3>2. CASE p \in places /\ r \in places
      <4>1. tx_at(p).author = tx_at(r).author => tx_at(p).nonce < tx_at(r).nonce
        BY <2>7, <3>2 DEF NoReplay
      <4> QED BY <2>2, <2>7, <3>2, <4>1
    <3>3. CASE p \in places /\ r = last
      <4>1. tx_at(p).nonce < ledger.nonces[tx_at(p).author]
        BY <3>3 DEF NoReplay
      <4>2. tx_at(p)' = tx_at(p) /\ tx_at(r)' = stx
        BY <2>2, <3>3
      <4> QED BY <1>4, <2>7, <4>1, <4>2
    <3> QED BY <2>2, <3>1, <3>2, <3>3
  <2>8. ASSUME NEW a \in Identity, NEW k \in 0..(ledger'.nonces[a] - 1)
        PROVE  \E p \in places' : tx_at(p)'.author = a /\ tx_at(p)'.nonce = k
    <3>1. CASE k \in 0..(ledger.nonces[a] - 1)
      <4>1. PICK p \in places : tx_at(p).author = a /\ tx_at(p).nonce = k
        BY <3>1 DEF NoReplay
      <4> QED BY <2>2, <4>1
    <3>2. CASE a = stx.author /\ k = stx.nonce
      <4>1. last \in places' /\ tx_at(last)' = stx
        BY <2>2
      <4> QED BY <3>2, <4>1
    <3>3. k \in 0..(ledger.nonces[a] - 1) \/ (a = stx.author /\ k = stx.nonce)
      BY <1>1, <1>4, <2>4, <2>5
    <3> QED BY <3>1, <3>2, <3>3
  <2>9. \A p, r : before(p, r)' = before(p, r)
    BY DEF before
  <2> QED BY <2>6, <2>7, <2>8, <2>9 DEF NoReplay
<1> QED BY <1>2, <1>3, <1>4, NodeAppends

\* However often a client sends a transaction and in whatever order the calls
\* arrive, the chain has each author's nonces once each and in order, on
\* transactions that the author signed: apply checks the signature and the
\* nonce under the lock in which the block is pushed.
THEOREM NothingReplayed == NodeSpec => []NoReplay
<1>1. NodeInit => NoReplay
  <2> SUFFICES ASSUME NodeInit PROVE NoReplay
    OBVIOUS
  <2>1. block_txs = << >> /\ ledger = genesis
    BY DEF NodeInit, Init
  <2>2. places = {}
    BY <2>1 DEF places
  <2>3. \A a \in Identity : 0..(ledger.nonces[a] - 1) = {}
    BY <2>1 DEF genesis, nobody
  <2> QED BY <2>2, <2>3 DEF NoReplay
<1>2. NodeInv /\ ChainInv /\ ChainInv' /\ NoReplay /\ [NodeNext]_vars => NoReplay'
  BY TxsStep
<1> QED BY <1>1, <1>2, NodeSoundness, ChainSoundness, PTL DEF NodeSpec

-----------------------------------------------------------------------------
(***************************************************************************)
(* The replica.                                                            *)
(***************************************************************************)
\* The chains of all lives of the node.
Lives == {blocks} \cup {abandoned[i] : i \in 1..Len(abandoned)}

numbered(chain) == \A h \in 1..Len(chain) : chain[h].height = h

\* Block b is in the chain of some life, at its height.
OfSomeLife(b) ==
  \E chain \in Lives : b.height \in 1..Len(chain) /\ chain[b.height] = b

\* The replica stands at block b.
StandsAt(b) == /\ replica.state = b.state_root
               /\ replica.sequencer = adopt(new_sequencer, b)

ReplicaInv ==
  /\ NodeInv /\ ChainInv
  /\ abandoned \in Seq(Seq(Block))
  /\ \A i \in 1..Len(abandoned) : numbered(abandoned[i])
  /\ replica \in [ state     : State,
                   sequencer : Sequencer,
                   block     : Block \cup {None},
                   rejected  : BOOLEAN ]
  /\ replica.block # None => OfSomeLife(replica.block)
  /\ \/ replica.sequencer.height = 0 /\ replica.state = genesis
     \/ \E b \in Block : StandsAt(b) /\ OfSomeLife(b)

\* After a restart the node is where it started.
LEMMA RestartStarts == RestartNode => (NodeInv /\ ChainInv)'
<1>1. RestartNode => NodeInit'
  BY DEF RestartNode, NodeInit, Init
<1>2. NodeInit' => (NodeInv /\ ChainInv)'
  BY NodeStarts, ChainStarts, PTL
<1> QED BY <1>1, <1>2

\* No step takes a block out of the chains.
LEMMA LivesGrow ==
  ASSUME ReplicaInv, [ReplicaNext]_replica_vars
  PROVE  /\ abandoned' \in Seq(Seq(Block))
         /\ \A i \in 1..Len(abandoned') : numbered(abandoned'[i])
         /\ \A b : OfSomeLife(b) => OfSomeLife(b)'
<1>0. PICK n \in Nat : n = Len(abandoned)
  BY DEF ReplicaInv
<1>1. blocks \in Seq(Block) /\ abandoned \in Seq(Seq(Block)) /\ Len(abandoned) = n
  BY <1>0 DEF ReplicaInv, ChainInv
<1>2. CASE abandoned' = abandoned
           /\ (blocks' = blocks \/ \E b \in Block : blocks' = Append(blocks, b))
  <2>1. PICK m \in Nat : Len(blocks) = m
    BY <1>1
  <2>2. m <= Len(blocks') /\ \A h \in 1..m : h \in 1..Len(blocks') /\ blocks'[h] = blocks[h]
    <3>1. CASE blocks' = blocks
      BY <2>1, <3>1
    <3>2. CASE \E b \in Block : blocks' = Append(blocks, b)
      <4>1. PICK b \in Block : blocks' = Append(blocks, b)
        BY <3>2
      <4>2. Len(blocks') = m + 1 /\ \A h \in 1..m : blocks'[h] = blocks[h]
        BY <1>1, <2>1, <4>1, AppendIs
      <4> QED BY <4>2
    <3> QED BY <1>2, <3>1, <3>2
  <2>3. ASSUME NEW b, OfSomeLife(b) PROVE OfSomeLife(b)'
    <3>1. PICK chain \in Lives : b.height \in 1..Len(chain) /\ chain[b.height] = b
      BY <2>3 DEF OfSomeLife
    <3>2. CASE chain = blocks
      <4>1. b.height \in 1..Len(blocks') /\ blocks'[b.height] = b
        BY <2>1, <2>2, <3>1, <3>2
      <4> QED BY <4>1 DEF OfSomeLife, Lives
    <3>3. CASE chain # blocks
      <4>1. chain \in Lives'
        BY <1>2, <3>1, <3>3 DEF Lives
      <4> QED BY <3>1, <4>1 DEF OfSomeLife
    <3> QED BY <3>2, <3>3
  <2> QED BY <1>1, <1>2, <2>3 DEF ReplicaInv
<1>3. CASE Restart
  <2>1. abandoned' = Append(abandoned, blocks)
    BY <1>3 DEF Restart
  <2>2. /\ abandoned' \in Seq(Seq(Block)) /\ Len(abandoned') = n + 1
        /\ abandoned'[n + 1] = blocks
        /\ \A i \in 1..n : abandoned'[i] = abandoned[i]
    BY <1>1, <2>1, AppendIs
  <2>3. numbered(blocks)
    BY DEF ReplicaInv, ChainInv, ChainLinked, numbered
  <2>4. ASSUME NEW i \in 1..(n + 1) PROVE numbered(abandoned'[i])
    <3>1. CASE i = n + 1
      BY <2>2, <2>3, <3>1
    <3>2. CASE i # n + 1
      <4>1. i \in 1..n
        BY <3>2
      <4>2. numbered(abandoned[i]) /\ abandoned'[i] = abandoned[i]
        BY <1>1, <2>2, <4>1 DEF ReplicaInv
      <4> QED BY <4>2
    <3> QED BY <3>1, <3>2
  <2>5. Lives \subseteq Lives'
    BY <1>1, <2>2 DEF Lives
  <2> QED BY <2>2, <2>4, <2>5 DEF OfSomeLife
<1>4. CASE [NodeNext]_vars /\ abandoned' = abandoned
  <2>1. CASE UNCHANGED node
    BY <1>2, <1>4, <2>1 DEF node
  <2>2. CASE \E b : NextBlock(b) /\ Publish(b, b.txs)
    BY <1>2, <1>4, <2>2 DEF NextBlock, Publish
  <2> QED BY <1>4, <2>1, <2>2, NodePublishes DEF ReplicaInv
<1> QED BY <1>3, <1>4 DEF ReplicaNext, FetchBlock, Replay, replica_vars

\* The replica stands where some life of the node once stood.
LEMMA ReplicaStep ==
  ASSUME ReplicaInv, [ReplicaNext]_replica_vars
  PROVE  ReplicaInv'
<1>1. NodeInv' /\ ChainInv'
  <2>1. CASE Restart
    BY <2>1, RestartStarts DEF Restart
  <2>2. CASE [NodeNext]_vars
    <3>1. NodeInv /\ ChainInv
      BY DEF ReplicaInv
    <3> QED BY <2>2, <3>1, NodeInvStep, ChainInvStep
  <2> QED BY <2>1, <2>2 DEF ReplicaNext, FetchBlock, Replay, replica_vars
<1>2. CASE UNCHANGED replica
  BY <1>1, <1>2, LivesGrow DEF ReplicaInv, StandsAt
<1>3. CASE FetchBlock
  <2> DEFINE b == blocks[next_height]
  <2>1. /\ next_height \in 1..Len(blocks) /\ b \in Block /\ b.height = next_height
    <3>1. next_height \in 1..Len(blocks)
      BY <1>3 DEF FetchBlock, next_height, ReplicaInv, Sequencer, ChainInv
    <3> QED BY <3>1 DEF ReplicaInv, ChainInv, ChainLinked
  <2>2. OfSomeLife(b)
    BY <2>1 DEF OfSomeLife, Lives
  <2>3. replica' = [replica EXCEPT !.block = b]
    BY <1>3 DEF FetchBlock
  <2> HIDE DEF b
  <2>4. /\ replica' \in [ state     : State,
                          sequencer : Sequencer,
                          block     : Block \cup {None},
                          rejected  : BOOLEAN ]
        /\ replica'.block = b /\ replica'.state = replica.state
        /\ replica'.sequencer = replica.sequencer
    BY <2>1, <2>3 DEF ReplicaInv
  <2>5. PICK d : d = b
    OBVIOUS
  <2>6. OfSomeLife(d)'
    BY <2>2, <2>5, LivesGrow
  <2>7. replica'.block = d
    BY <2>4, <2>5
  <2>8. OfSomeLife(replica.block)'
    BY <2>6, <2>7 DEF OfSomeLife
  <2> QED BY <1>1, <2>4, <2>8, LivesGrow DEF ReplicaInv, StandsAt
<1>4. CASE Replay
  <2>1. PICK b : b = replica.block
    OBVIOUS
  <2>2. b \in Block /\ b # None /\ OfSomeLife(b)
    BY <1>4, <2>1 DEF Replay, ReplicaInv
  <2>3. CASE replica' = [replica EXCEPT !.rejected = TRUE]
    <3>1. /\ replica' \in [ state     : State,
                            sequencer : Sequencer,
                            block     : Block \cup {None},
                            rejected  : BOOLEAN ]
          /\ replica'.block = b /\ replica'.state = replica.state
          /\ replica'.sequencer = replica.sequencer
      BY <2>1, <2>3 DEF ReplicaInv
    <3>2. OfSomeLife(b)'
      BY <2>2, LivesGrow
    <3>3. OfSomeLife(replica.block)'
      BY <3>1, <3>2 DEF OfSomeLife
    <3> QED BY <1>1, <3>1, <3>3, LivesGrow DEF ReplicaInv, StandsAt
  <2>4. CASE replica' = [replica EXCEPT !.state     = b.state_root,
                                        !.sequencer = adopt(@, b),
                                        !.block     = None]
    <3>1. /\ adopt(replica.sequencer, b) = adopt(new_sequencer, b)
          /\ adopt(new_sequencer, b) \in Sequencer /\ b.state_root \in State
      BY <2>2 DEF adopt, Sequencer, Hash, block_hash, Block
    <3>2. /\ replica' \in [ state     : State,
                            sequencer : Sequencer,
                            block     : Block \cup {None},
                            rejected  : BOOLEAN ]
          /\ replica'.block = None /\ StandsAt(b)'
      BY <2>4, <3>1 DEF ReplicaInv, StandsAt
    <3> QED BY <1>1, <2>2, <3>2, LivesGrow DEF ReplicaInv
  <2>5. \/ replica' = [replica EXCEPT !.rejected = TRUE]
        \/ replica' = [replica EXCEPT !.state     = b.state_root,
                                      !.sequencer = adopt(@, b),
                                      !.block     = None]
    BY <1>4, <2>1 DEF Replay, commit
  <2> QED BY <2>3, <2>4, <2>5
<1> QED BY <1>2, <1>3, <1>4 DEF ReplicaNext, Restart, replica_vars

\* As far as a replica gets it agrees with the node, in one of its lives.
THEOREM ReplicaFollows == ReplicaSpec => []ReplicaAgrees
<1>1. ReplicaInit => ReplicaInv
  <2>1. ASSUME ReplicaInit PROVE ReplicaInv
    <3>1. NodeInv /\ ChainInv
      BY <2>1, NodeStarts, ChainStarts DEF ReplicaInit
    <3>2. abandoned = << >> /\ Len(abandoned) = 0 /\ abandoned \in Seq(Seq(Block))
      BY <2>1 DEF ReplicaInit
    <3>3. genesis \in State /\ new_sequencer \in Sequencer /\ new_sequencer.height = 0
      BY GenesisSound DEF Sound, new_sequencer, Sequencer, Hash
    <3> QED BY <2>1, <3>1, <3>2, <3>3 DEF ReplicaInit, ReplicaInv
  <2> QED BY <2>1
<1>2. ReplicaInv /\ [ReplicaNext]_replica_vars => ReplicaInv'
  BY ReplicaStep
<1>3. ReplicaInv => ReplicaAgrees
  <2> SUFFICES ASSUME ReplicaInv PROVE ReplicaAgrees
    OBVIOUS
  <2> DEFINE h == replica.sequencer.height
  <2>1. CASE h = 0 /\ replica.state = genesis
    BY <2>1 DEF ReplicaAgrees
  <2>2. CASE \E b \in Block : StandsAt(b) /\ OfSomeLife(b)
    <3>1. PICK b \in Block : StandsAt(b) /\ OfSomeLife(b)
      BY <2>2
    <3>2. PICK chain \in Lives : b.height \in 1..Len(chain) /\ chain[b.height] = b
      BY <3>1 DEF OfSomeLife
    <3>3. h = b.height /\ on(chain, h)
      BY <3>1, <3>2 DEF StandsAt, on, adopt
    <3>4. h # 0
      BY <3>2, <3>3
    <3>5. chain = blocks \/ \E i \in 1..Len(abandoned) : chain = abandoned[i]
      BY <3>2 DEF Lives
    <3> HIDE DEF h
    <3> QED BY <3>3, <3>4, <3>5 DEF ReplicaAgrees, h
  <2> QED BY <2>1, <2>2 DEF ReplicaInv
<1> QED BY <1>1, <1>2, <1>3, PTL DEF ReplicaSpec
=============================================================================
