----------------------------- MODULE LedgerMoney ------------------------------
(***************************************************************************)
(* The supply and the bonds, for every parameter set, any finite sets of   *)
(* accounts and tasks, any width of the words, and any bounds.             *)
(*                                                                         *)
(* The supply is conserved: every operation moves amounts between the      *)
(* balances, the escrow, the bonds and the fee pool, and what it adds to   *)
(* their sum or takes from it is minted or burned.  The ledger implements  *)
(* the abstract supply, and machine words admit what natural numbers       *)
(* admit.                                                                  *)
(*                                                                         *)
(* One bonded amount per account backs all its claims and challenges       *)
(* (BondsBacked).  From that a challenger who proves fraud gets the bond   *)
(* back (HonestChallengerMadeWhole), and a requester the payment as far as *)
(* the stake covers it (ClawbackReachesRequester): the clamps of the code  *)
(* never bite an account that was not struck before.                       *)
(***************************************************************************)
EXTENDS LedgerTheorems, Words

Conserved(s) == held(s) = s.minted - s.burned

\* The sums of the amounts held are natural numbers.
LEMMA SumsType ==
  ASSUME NEW s \in State
  PROVE  /\ SumFunction(s.balance) \in Nat /\ SumFunction(s.escrowed) \in Nat
         /\ SumFunction(s.bonded) \in Nat /\ s.fee_pool \in Nat
         /\ s.minted \in Nat /\ s.burned \in Nat
         /\ held(s) \in Nat
<1>1. /\ SumFunction(s.balance) \in Nat /\ SumFunction(s.escrowed) \in Nat
      /\ SumFunction(s.bonded) \in Nat
  BY FieldType, IdentityAssumption, SumFunctionType
<1> QED BY <1>1, FieldType DEF held

\* A credit adds to the sum, a debit takes from it.
LEMMA CreditDebitSum ==
  ASSUME NEW f \in [Identity -> Nat], NEW a \in Identity, NEW n \in Nat
  PROVE  /\ SumFunction(f) \in Int
         /\ SumFunction(Credit(f, a, n)) = SumFunction(f) + n
         /\ SumFunction(Debit(f, a, n)) = SumFunction(f) - n
<1>1. f \in [Identity -> Int] /\ f[a] \in Int /\ f[a] + n \in Int /\ f[a] - n \in Int
  OBVIOUS
<1>2. /\ SumFunction(f) \in Int
      /\ SumFunction([f EXCEPT ![a] = f[a] + n]) = SumFunction(f) + (f[a] + n) - f[a]
      /\ SumFunction([f EXCEPT ![a] = f[a] - n]) = SumFunction(f) + (f[a] - n) - f[a]
  BY <1>1, IdentityAssumption, SumFunctionExcept
<1>3. /\ Credit(f, a, n) = [f EXCEPT ![a] = f[a] + n]
      /\ Debit(f, a, n) = [f EXCEPT ![a] = f[a] - n]
  BY DEF Credit, Debit
<1> QED BY <1>1, <1>2, <1>3

\* submit_task moves the need from the balance into escrow.
LEMMA SubmitTaskConserves ==
  ASSUME NEW s \in State, Conserved(s), NEW a \in Identity, NEW t \in Task
  PROVE  Conserved(submit_task(s, a, t))
<1> DEFINE x == submit_task(s, a, t)
<1>1. /\ x.balance = Debit(s.balance, a, need(t))
      /\ x.escrowed = Credit(s.escrowed, a, need(t))
      /\ x.bonded = s.bonded /\ x.fee_pool = s.fee_pool
      /\ x.minted = s.minted /\ x.burned = s.burned
  BY DEF submit_task, State
<1> HIDE DEF x
<1>2. /\ need(t) \in Nat
      /\ s.balance \in [Identity -> Nat] /\ s.escrowed \in [Identity -> Nat]
  BY BodyType, FieldType
<1>3. /\ SumFunction(x.balance) = SumFunction(s.balance) - need(t)
      /\ SumFunction(x.escrowed) = SumFunction(s.escrowed) + need(t)
  BY <1>1, <1>2, CreditDebitSum
<1>4. held(x) = held(s)
  BY <1>1, <1>2, <1>3, SumsType DEF held
<1> QED BY <1>1, <1>4 DEF Conserved, x

\* claim_task and open_challenge move a stake or a bond from the balance into
\* the bonded amount.
LEMMA BondConserves ==
  ASSUME NEW s \in State, Conserved(s), NEW a \in Identity, NEW n \in Nat, NEW x,
         x.balance = Debit(s.balance, a, n), x.bonded = Credit(s.bonded, a, n),
         x.escrowed = s.escrowed, x.fee_pool = s.fee_pool,
         x.minted = s.minted, x.burned = s.burned
  PROVE  Conserved(x)
<1>1. /\ SumFunction(x.balance) = SumFunction(s.balance) - n
      /\ SumFunction(x.bonded) = SumFunction(s.bonded) + n
  <2>1. s.balance \in [Identity -> Nat] /\ s.bonded \in [Identity -> Nat]
    BY FieldType
  <2> QED BY <2>1, CreditDebitSum
<1>2. held(x) = held(s)
  BY <1>1, SumsType DEF held
<1> QED BY <1>2 DEF Conserved

\* claim_task.
LEMMA ClaimTaskConserves ==
  ASSUME NEW s \in State, Conserved(s), NEW a \in Identity, NEW t \in Task
  PROVE  Conserved(claim_task(s, a, t))
<1> DEFINE x == claim_task(s, a, t)
<1>1. /\ x.balance = Debit(s.balance, a, stake(s, a, t))
      /\ x.bonded = Credit(s.bonded, a, stake(s, a, t))
      /\ x.escrowed = s.escrowed /\ x.fee_pool = s.fee_pool
      /\ x.minted = s.minted /\ x.burned = s.burned
  BY DEF claim_task, State
<1>2. stake(s, a, t) \in Nat
  BY BodyType, AmountType, FieldType DEF stake
<1> QED BY <1>1, <1>2, BondConserves

\* open_challenge.
LEMMA OpenChallengeConserves ==
  ASSUME NEW s \in State, Conserved(s), NEW a \in Identity, NEW t \in Task,
         NEW bond \in Ucu
  PROVE  Conserved(open_challenge(s, a, t, bond))
<1> DEFINE x == open_challenge(s, a, t, bond)
<1>1. /\ x.balance = Debit(s.balance, a, bond)
      /\ x.bonded = Credit(s.bonded, a, bond)
      /\ x.escrowed = s.escrowed /\ x.fee_pool = s.fee_pool
      /\ x.minted = s.minted /\ x.burned = s.burned
  BY DEF open_challenge, State
<1>2. bond \in Nat
  BY UcuAssumption
<1> QED BY <1>1, <1>2, BondConserves

\* transfer, to oneself included.
LEMMA TransferConserves ==
  ASSUME NEW s \in State, Conserved(s), NEW a \in Identity, NEW to \in Identity,
         NEW amount \in Ucu, CanTransfer(s, a, amount)
  PROVE  Conserved(transfer(s, a, to, amount))
<1> DEFINE x == transfer(s, a, to, amount)
           d == Debit(s.balance, a, amount)
<1>1. /\ x.balance = Credit(d, to, amount)
      /\ x.bonded = s.bonded /\ x.escrowed = s.escrowed /\ x.fee_pool = s.fee_pool
      /\ x.minted = s.minted /\ x.burned = s.burned
  BY DEF transfer, State
<1>2. amount \in Nat /\ amount <= s.balance[a]
  BY UcuAssumption, FieldType DEF CanTransfer
<1>3. d \in [Identity -> Nat] /\ SumFunction(d) = SumFunction(s.balance) - amount
  BY <1>2, FieldType, CreditDebitType, CreditDebitSum
<1> HIDE DEF x, d
<1>4. SumFunction(x.balance) = SumFunction(d) + amount
  BY <1>1, <1>2, <1>3, CreditDebitSum
<1>5. held(x) = held(s)
  BY <1>1, <1>2, <1>3, <1>4, SumsType DEF held
<1> QED BY <1>1, <1>5 DEF Conserved, x

\* bump_nonce.
LEMMA BumpNonceConserves ==
  ASSUME NEW s \in State, Conserved(s), NEW a
  PROVE  Conserved(bump_nonce(s, a))
<1> DEFINE x == bump_nonce(s, a)
<1>1. /\ x.balance = s.balance /\ x.escrowed = s.escrowed /\ x.bonded = s.bonded
      /\ x.fee_pool = s.fee_pool /\ x.minted = s.minted /\ x.burned = s.burned
  BY DEF bump_nonce, State
<1> QED BY <1>1 DEF Conserved, held

\* settle empties the escrow of the task into payment, refund and fee, and mints
\* the issuance on top.
LEMMA SubmitProofConserves ==
  ASSUME NEW s \in State, Agree(s), Conserved(s), NEW a \in Identity, NEW t \in Task,
         NEW proof \in ComputeProof, CanSubmitProof(s, a, t, proof)
  PROVE  Conserved(submit_proof(s, t, proof))
<1> DEFINE x   == submit_proof(s, t, proof)
           u   == proof.ucu_count
           w   == issuance(u)
           f   == s.tasks[t].fee
           max_ucu   == Body[t].max_ucu
           requester == s.tasks[t].requester
           r   == Credit(s.balance, requester, max_ucu - u)
<1>1. s.tasks[t] # None
  BY DEF CanSubmitProof, status
<1>2. /\ requester \in Identity /\ f \in Nat /\ max_ucu \in Nat
      /\ u \in Nat /\ u <= max_ucu /\ proof.provider \in Identity
  BY <1>1, SubmissionType, BodyType, UcuAssumption DEF CanSubmitProof, ComputeProof
<1>3. w \in Nat
  BY <1>2, AmountType
<1>4. /\ x.balance = Credit(r, proof.provider, u + w)
      /\ x.escrowed = Debit(s.escrowed, requester, max_ucu + f)
      /\ x.bonded = s.bonded /\ x.fee_pool = s.fee_pool + f
      /\ x.minted = s.minted + w /\ x.burned = s.burned
  <2>1. ProofSubmitted(s, x, t, proof)
    BY <1>1, SubmitProofFields
  <2> HIDE DEF x
  <2> QED BY <2>1 DEF ProofSubmitted
<1> HIDE DEF x, u, w, f, max_ucu, requester
<1>5. max_ucu - u \in Nat /\ max_ucu + f \in Nat /\ u + w \in Nat
  BY <1>2, <1>3
<1>6. r \in [Identity -> Nat] /\ SumFunction(r) = SumFunction(s.balance) + (max_ucu - u)
  BY <1>2, <1>5, FieldType, CreditDebitType, CreditDebitSum
<1> HIDE DEF r
<1>7. SumFunction(x.balance) = SumFunction(r) + (u + w)
  BY <1>2, <1>4, <1>5, <1>6, CreditDebitSum
<1>8. SumFunction(x.escrowed) = SumFunction(s.escrowed) - (max_ucu + f)
  BY <1>2, <1>4, <1>5, FieldType, CreditDebitSum
<1>9. held(x) = held(s) + w
  BY <1>2, <1>3, <1>4, <1>6, <1>7, <1>8, SumsType DEF held
<1>10. held(s) = s.minted - s.burned
  BY DEF Conserved
<1>11. held(x) = x.minted - x.burned
  BY <1>3, <1>4, <1>9, <1>10, SumsType
<1> QED BY <1>11 DEF Conserved, x

\* The epoch boundary moves what it frees from the bonds into the balances.
LEMMA AdvanceEpochConserves ==
  ASSUME NEW s \in State, Submitted(s), Conserved(s)
  PROVE  Conserved(advance_epoch(s))
<1> DEFINE x == advance_epoch(s)
           fr == [a \in Identity |-> freed(s, s.epoch + 1, a)]
<1>1. /\ x.balance = [a \in Identity |-> s.balance[a] + freed(s, s.epoch + 1, a)]
      /\ x.bonded = [a \in Identity |-> s.bonded[a] - freed(s, s.epoch + 1, a)]
      /\ x.escrowed = s.escrowed /\ x.fee_pool = s.fee_pool
      /\ x.minted = s.minted /\ x.burned = s.burned
  BY DEF advance_epoch, State
<1>2. x \in State
  BY AdvanceEpochType
<1> HIDE DEF x
<1>3. \A a \in Identity : freed(s, s.epoch + 1, a) \in Nat
  BY FreedType
<1>4. /\ fr \in [Identity -> Int]
      /\ \A a \in Identity : /\ x.balance[a] = s.balance[a] + fr[a]
                             /\ x.bonded[a] = s.bonded[a] - fr[a]
  BY <1>1, <1>3
<1> HIDE DEF fr
<1>5. /\ x.balance \in [Identity -> Int] /\ s.balance \in [Identity -> Int]
      /\ x.bonded \in [Identity -> Int] /\ s.bonded \in [Identity -> Int]
  BY <1>2, FieldType
<1>6. SumFunction(x.balance) = SumFunction(s.balance) + SumFunction(fr)
  BY <1>4, <1>5, IdentityAssumption, SumFunctionAdd
<1>7. SumFunction(s.bonded) = SumFunction(x.bonded) + SumFunction(fr)
  <2>1. \A a \in Identity : s.bonded[a] = x.bonded[a] + fr[a]
    <3>1. ASSUME NEW a \in Identity PROVE s.bonded[a] = x.bonded[a] + fr[a]
      <4>1. /\ s.bonded[a] \in Int /\ fr[a] \in Int
            /\ x.bonded[a] = s.bonded[a] - fr[a]
        BY <1>4, <1>5
      <4> QED BY <4>1
    <3> QED BY <3>1
  <2>2. fr \in [Identity -> Int]
    BY <1>4
  <2> QED BY <1>5, <2>1, <2>2, IdentityAssumption, SumFunctionAdd
<1>8. SumFunction(fr) \in Int
  <2>1. \A a \in Identity : fr[a] \in Int
    BY <1>4
  <2>2. DOMAIN fr = Identity
    BY <1>4
  <2>3. SumFunctionOnSet(fr, Identity) \in Int
    BY <2>1, IdentityAssumption, SumInt
  <2> QED BY <2>2, <2>3 DEF SumFunction
<1>9. held(x) = held(s)
  <2>1. /\ SumFunction(s.balance) \in Int /\ SumFunction(s.escrowed) \in Int
        /\ SumFunction(x.bonded) \in Int /\ s.fee_pool \in Int
    BY <1>2, SumsType
  <2> QED BY <1>1, <1>6, <1>7, <1>8, <2>1 DEF held
<1> QED BY <1>1, <1>9 DEF Conserved, x

\* The penalties take from the sum what they burn.
LEMMA PenaliseConserves ==
  ASSUME NEW s \in State, Conserved(s), NEW t \in Task,
         NEW reward_to \in Identity \cup {None},
         s.tasks[t] # None, s.receipts[t] # None, s.tasks[t].provider # None
  PROVE  Conserved(penalise(s, t, reward_to))
<1> DEFINE provider  == s.tasks[t].provider
           requester == s.tasks[t].requester
           mid       == take_fraud_penalties(s, t, reward_to)
           x         == penalise(s, t, reward_to)
<1>1. PICK recovered \in Nat, burn_w \in Nat, fine_avail \in Nat, reward \in Nat :
        Penalties(s, t, reward_to, recovered, burn_w, fine_avail, reward)
  BY FraudPenaltiesAre
<1> DEFINE repaid   == Credit(s.balance, requester, recovered)
           punished == Debit(repaid, provider, burn_w)
<1>2. /\ mid.bonded = Debit(s.bonded, provider, recovered + fine_avail)
      /\ mid.balance = IF reward_to = None THEN punished
                       ELSE Credit(punished, reward_to, reward)
      /\ mid.fee_pool = IF reward_to = None THEN s.fee_pool + reward ELSE s.fee_pool
      /\ mid.burned = s.burned + burn_w + (fine_avail - reward)
      /\ mid.minted = s.minted /\ mid.escrowed = s.escrowed
  <2> HIDE DEF mid
  <2> QED BY <1>1 DEF Penalties, mid, State
<1>3. burn_w <= repaid[provider] /\ reward <= fine_avail
  BY <1>1 DEF Penalties
<1>4. provider \in Identity /\ requester \in Identity
  BY SubmissionType
<1>5. mid \in State
  BY FraudPenaltiesType
<1>6. /\ x.bonded = mid.bonded /\ x.balance = mid.balance
      /\ x.fee_pool = mid.fee_pool /\ x.burned = mid.burned
      /\ x.minted = mid.minted /\ x.escrowed = mid.escrowed
  <2> HIDE DEF mid
  <2> QED BY <1>5 DEF penalise, mid, State
<1> HIDE DEF mid, x, provider, requester
<1>7. /\ repaid \in [Identity -> Nat]
      /\ SumFunction(repaid) = SumFunction(s.balance) + recovered
  BY <1>4, FieldType, CreditDebitType, CreditDebitSum
<1> HIDE DEF repaid
<1>8. /\ punished \in [Identity -> Nat]
      /\ SumFunction(punished) = SumFunction(repaid) - burn_w
  BY <1>3, <1>4, <1>7, CreditDebitType, CreditDebitSum
<1> HIDE DEF punished
<1>9. SumFunction(mid.bonded) = SumFunction(s.bonded) - (recovered + fine_avail)
  <2>1. recovered + fine_avail \in Nat
    OBVIOUS
  <2> QED BY <1>2, <1>4, <2>1, FieldType, CreditDebitSum
<1>10. SumFunction(mid.balance) + mid.fee_pool
         = SumFunction(punished) + reward + s.fee_pool
  <2>1. SumFunction(punished) \in Int /\ s.fee_pool \in Int
    BY <1>4, <1>8, CreditDebitSum, FieldType
  <2>2. CASE reward_to = None
    BY <1>2, <2>1, <2>2
  <2>3. CASE reward_to # None
    <3>1. SumFunction(Credit(punished, reward_to, reward))
            = SumFunction(punished) + reward
      BY <1>8, <2>3, CreditDebitSum
    <3> QED BY <1>2, <2>1, <2>3, <3>1
  <2> QED BY <2>2, <2>3
<1>11. /\ SumFunction(s.balance) \in Nat /\ SumFunction(s.escrowed) \in Nat
       /\ SumFunction(s.bonded) \in Nat /\ s.fee_pool \in Nat
       /\ SumFunction(mid.balance) \in Nat /\ mid.fee_pool \in Nat
       /\ s.minted \in Nat /\ s.burned \in Nat
  BY <1>5, SumsType
<1>12. SumFunction(mid.balance) + SumFunction(mid.escrowed)
         + SumFunction(mid.bonded) + mid.fee_pool
         = SumFunction(s.balance) + SumFunction(s.escrowed) + SumFunction(s.bonded)
             + s.fee_pool - burn_w - (fine_avail - reward)
  BY <1>2, <1>7, <1>8, <1>9, <1>10, <1>11
<1>13. held(x) = held(s) - burn_w - (fine_avail - reward)
  <2>1. held(x) = SumFunction(mid.balance) + SumFunction(mid.escrowed)
                    + SumFunction(mid.bonded) + mid.fee_pool
    BY <1>6 DEF held
  <2>2. held(s) = SumFunction(s.balance) + SumFunction(s.escrowed)
                    + SumFunction(s.bonded) + s.fee_pool
    BY DEF held
  <2> QED BY <1>11, <1>12, <2>1, <2>2
<1>14. held(s) = s.minted - s.burned
  BY DEF Conserved
<1>15. held(x) = x.minted - x.burned
  BY <1>2, <1>6, <1>11, <1>13, <1>14
<1> QED BY <1>15 DEF Conserved, x

\* resolve_fraud.
LEMMA ResolveFraudConserves ==
  ASSUME NEW s \in State, Submitted(s), Conserved(s), NEW t \in Task,
         NEW reward_to \in Identity \cup {None}
  PROVE  Conserved(resolve_fraud(s, t, reward_to))
BY PenaliseConserves DEF resolve_fraud, CanResolveFraud, Submitted

\* resolve_challenge returns what is left of the bond, or burns it.
LEMMA CloseChallengeConserves ==
  ASSUME NEW s \in State, Submitted(s), Conserved(s), NEW t \in Task,
         NEW fraud \in BOOLEAN, s.pending_challenges[t] # None
  PROVE  Conserved(close_challenge(s, t, fraud))
<1> DEFINE x  == close_challenge(s, t, fraud)
           c  == closed(s, t)
           j  == judged(s, t, fraud)
           b  == returned(s, t, fraud)
           ch == s.pending_challenges[t].challenger
<1>1. ch \in Identity
  BY PendingType
<1>2. c \in State /\ Submitted(c)
  BY ClosedType
<1>3. Conserved(c)
  <2>1. /\ c.balance = s.balance /\ c.escrowed = s.escrowed /\ c.bonded = s.bonded
        /\ c.fee_pool = s.fee_pool /\ c.minted = s.minted /\ c.burned = s.burned
    BY DEF closed, State
  <2> HIDE DEF c
  <2> QED BY <2>1 DEF Conserved, held
<1>4. Conserved(j)
  BY <1>1, <1>2, <1>3, ResolveFraudConserves DEF judged
<1>5. j \in State /\ b \in Nat
  BY JudgedType
<1>6. /\ x.bonded = Debit(j.bonded, ch, b)
      /\ x.balance = IF fraud THEN Credit(j.balance, ch, b) ELSE j.balance
      /\ x.burned = IF fraud THEN j.burned ELSE j.burned + b
      /\ x.escrowed = j.escrowed /\ x.fee_pool = j.fee_pool /\ x.minted = j.minted
  <2> HIDE DEF j, b
  <2> QED BY <1>5, CloseChallengeIs DEF State, j, b
<1> HIDE DEF x, j, b, ch
<1>7. SumFunction(x.bonded) = SumFunction(j.bonded) - b
  BY <1>1, <1>5, <1>6, FieldType, CreditDebitSum
<1>8. held(j) = j.minted - j.burned
  BY <1>4 DEF Conserved
<1>9. CASE fraud
  <2>1. SumFunction(x.balance) = SumFunction(j.balance) + b
    BY <1>1, <1>5, <1>6, <1>9, FieldType, CreditDebitSum
  <2>2. held(x) = held(j)
    BY <1>5, <1>6, <1>7, <2>1, SumsType DEF held
  <2> QED BY <1>6, <1>8, <1>9, <2>2 DEF Conserved, x
<1>10. CASE ~ fraud
  <2>1. held(x) = held(j) - b
    BY <1>5, <1>6, <1>7, <1>10, SumsType DEF held
  <2>2. held(x) = x.minted - x.burned
    BY <1>5, <1>6, <1>8, <1>10, <2>1, SumsType
  <2> QED BY <2>2 DEF Conserved, x
<1> QED BY <1>9, <1>10

-----------------------------------------------------------------------------
\* The genesis state holds what it minted.
LEMMA GenesisConserves == Conserved(genesis)
<1>1. nobody \in [Identity -> Int] /\ \A a \in Identity : nobody[a] = 0
  BY DEF nobody
<1>2. SumFunction(nobody) = 0
  BY <1>1, IdentityAssumption, SumFunctionZero
<1>3. SumFunction(Allocation) \in Nat
  BY AllocationAssumption, IdentityAssumption, SumFunctionType
<1> QED BY <1>2, <1>3 DEF Conserved, held, genesis

\* The invariant: sound, and conserving.
SupplyInv == IInv /\ Conserved(ledger)

\* Every step conserves.
LEMMA NextConserves ==
  ASSUME IInv, Conserved(ledger), [Next]_ledger
  PROVE  Conserved(ledger')
<1>1. ledger \in State /\ Agree(ledger) /\ Submitted(ledger)
  BY AgreeSubmitted DEF IInv, Sound
<1>2. ASSUME NEW a \in Identity, NEW s \in State, Conserved(s), Apply(a, s)
      PROVE  Conserved(ledger')
  BY <1>2, BumpNonceConserves DEF Apply
<1>3. CASE SubmitTask
  BY <1>1, <1>2, <1>3, SubmitTaskType, SubmitTaskConserves DEF SubmitTask
<1>4. CASE ClaimTask
  BY <1>1, <1>2, <1>4, ClaimTaskType, ClaimTaskConserves DEF ClaimTask
<1>5. CASE SubmitProof
  <2>1. PICK a \in Identity, t \in Task, proof \in ComputeProof :
          /\ CanSubmitProof(ledger, a, t, proof)
          /\ Apply(a, submit_proof(ledger, t, proof))
    BY <1>5 DEF SubmitProof
  <2>2. submit_proof(ledger, t, proof) \in State
    BY <2>1, SubmitProofSound DEF IInv, Sound
  <2>3. Conserved(submit_proof(ledger, t, proof))
    BY <1>1, <2>1, SubmitProofConserves
  <2> QED BY <1>2, <2>1, <2>2, <2>3
<1>6. CASE Challenge
  BY <1>1, <1>2, <1>6, OpenChallengeType, OpenChallengeConserves DEF Challenge
<1>7. CASE Transfer
  BY <1>1, <1>2, <1>7, TransferType, TransferConserves DEF Transfer
<1>8. CASE AdvanceEpoch
  BY <1>1, <1>8, AdvanceEpochConserves DEF AdvanceEpoch
<1>9. CASE ResolveChallenge
  BY <1>1, <1>9, CloseChallengeConserves DEF ResolveChallenge, resolve_challenge
<1>10. CASE SamplingAudit
  BY <1>1, <1>10, ResolveFraudConserves DEF SamplingAudit
<1>11. CASE UNCHANGED ledger
  BY <1>11
<1> QED BY <1>3, <1>4, <1>5, <1>6, <1>7, <1>8, <1>9, <1>10, <1>11 DEF Next

\* What the accounts and the fee pool hold is what was minted and not burned, and
\* no more was burned than was minted.
THEOREM SupplyConserved == Spec => []Conservation
<1>1. Init => SupplyInv
  BY GenesisSound, GenesisConserves DEF Init, SupplyInv, IInv
<1>2. SupplyInv /\ [Next]_ledger => SupplyInv'
  BY NextSound, NextConserves DEF SupplyInv
<1>3. SupplyInv => Conservation
  <2>1. ASSUME ledger \in State, Conserved(ledger) PROVE Conservation
    BY <2>1, SumsType DEF Conserved, Conservation
  <2> QED BY <2>1 DEF SupplyInv, IInv, Sound
<1> QED BY <1>1, <1>2, <1>3, PTL DEF Spec

-----------------------------------------------------------------------------
(***************************************************************************)
(* The abstract supply.  Conservation says what is free from the other     *)
(* amounts, so that a step of Supply is recognised by what it does to the  *)
(* lock, to the fee pool and to what was minted and burned.                *)
(***************************************************************************)
free(s)   == SumFunction(s.balance)
locked(s) == SumFunction(s.escrowed) + SumFunction(s.bonded)

\* From s to x, as Lock, Unlock and Penalise of Supply.
Locks(s, x) ==
  /\ locked(x) >= locked(s)
  /\ x.fee_pool = s.fee_pool /\ x.minted = s.minted /\ x.burned = s.burned

Unlocks(s, x) ==
  /\ locked(s) - locked(x) >= 0
  /\ x.fee_pool - s.fee_pool \in 0..(locked(s) - locked(x))
  /\ x.minted - s.minted >= 0
  /\ (x.minted - s.minted) * PPM
       <= (locked(s) - locked(x)) * params.issuance_rate_ppm
  /\ x.burned = s.burned

Penalises(s, x) ==
  /\ locked(s) - locked(x) >= 0
  /\ x.fee_pool - s.fee_pool \in 0..(locked(s) - locked(x))
  /\ x.burned - s.burned >= 0
  /\ x.minted = s.minted

SupplyStep(s, x) == Locks(s, x) \/ Unlocks(s, x) \/ Penalises(s, x)

\* The amounts of the supply are natural numbers.
LEMMA MoneyType ==
  ASSUME NEW s \in State
  PROVE  /\ free(s) \in Nat /\ locked(s) \in Nat /\ s.fee_pool \in Nat
         /\ s.minted \in Nat /\ s.burned \in Nat
BY SumsType DEF free, locked

\* What is free, by conservation.
LEMMA FreeIs ==
  ASSUME NEW s \in State, Conserved(s)
  PROVE  free(s) = s.minted - s.burned - locked(s) - s.fee_pool
BY SumsType DEF Conserved, held, free, locked

\* bump_nonce touches no amount.
LEMMA BumpNonceMoves ==
  ASSUME NEW s \in State, NEW x, NEW a, SupplyStep(s, x), x \in State
  PROVE  SupplyStep(s, bump_nonce(x, a))
<1> DEFINE y == bump_nonce(x, a)
<1>1. /\ y.escrowed = x.escrowed /\ y.bonded = x.bonded /\ y.fee_pool = x.fee_pool
      /\ y.minted = x.minted /\ y.burned = x.burned
  BY DEF bump_nonce, State
<1> HIDE DEF y
<1>2. locked(y) = locked(x)
  BY <1>1 DEF locked
<1>3. SupplyStep(s, y)
  BY <1>1, <1>2 DEF SupplyStep, Locks, Unlocks, Penalises
<1> QED BY <1>3 DEF y

\* submit_task locks the need.
LEMMA SubmitTaskLocks ==
  ASSUME NEW s \in State, NEW a \in Identity, NEW t \in Task
  PROVE  Locks(s, submit_task(s, a, t))
<1> DEFINE x == submit_task(s, a, t)
<1>1. /\ x.escrowed = Credit(s.escrowed, a, need(t)) /\ x.bonded = s.bonded
      /\ x.fee_pool = s.fee_pool /\ x.minted = s.minted /\ x.burned = s.burned
  BY DEF submit_task, State
<1>2. need(t) \in Nat
  BY BodyType
<1>3. SumFunction(x.escrowed) = SumFunction(s.escrowed) + need(t)
  BY <1>1, <1>2, FieldType, CreditDebitSum
<1> HIDE DEF x
<1>4. Locks(s, x)
  BY <1>1, <1>2, <1>3, SumsType DEF Locks, locked
<1> QED BY <1>4 DEF x

\* claim_task and open_challenge lock a stake or a bond.
LEMMA BondLocks ==
  ASSUME NEW s \in State, NEW a \in Identity, NEW n \in Nat, NEW x,
         x.bonded = Credit(s.bonded, a, n), x.escrowed = s.escrowed,
         x.fee_pool = s.fee_pool, x.minted = s.minted, x.burned = s.burned
  PROVE  Locks(s, x)
<1>1. SumFunction(x.bonded) = SumFunction(s.bonded) + n
  BY FieldType, CreditDebitSum
<1> QED BY <1>1, SumsType DEF Locks, locked

\* claim_task.
LEMMA ClaimTaskLocks ==
  ASSUME NEW s \in State, NEW a \in Identity, NEW t \in Task
  PROVE  Locks(s, claim_task(s, a, t))
<1> DEFINE x == claim_task(s, a, t)
<1>1. /\ x.bonded = Credit(s.bonded, a, stake(s, a, t)) /\ x.escrowed = s.escrowed
      /\ x.fee_pool = s.fee_pool /\ x.minted = s.minted /\ x.burned = s.burned
  BY DEF claim_task, State
<1>2. stake(s, a, t) \in Nat
  BY BodyType, AmountType, FieldType DEF stake
<1> QED BY <1>1, <1>2, BondLocks

\* open_challenge.
LEMMA OpenChallengeLocks ==
  ASSUME NEW s \in State, NEW a \in Identity, NEW t \in Task, NEW bond \in Ucu
  PROVE  Locks(s, open_challenge(s, a, t, bond))
<1> DEFINE x == open_challenge(s, a, t, bond)
<1>1. /\ x.bonded = Credit(s.bonded, a, bond) /\ x.escrowed = s.escrowed
      /\ x.fee_pool = s.fee_pool /\ x.minted = s.minted /\ x.burned = s.burned
  BY DEF open_challenge, State
<1> QED BY <1>1, UcuAssumption, BondLocks

\* transfer locks nothing.
LEMMA TransferLocks ==
  ASSUME NEW s \in State, NEW a, NEW to, NEW amount
  PROVE  Locks(s, transfer(s, a, to, amount))
<1> DEFINE x == transfer(s, a, to, amount)
<1>1. /\ x.escrowed = s.escrowed /\ x.bonded = s.bonded
      /\ x.fee_pool = s.fee_pool /\ x.minted = s.minted /\ x.burned = s.burned
  BY DEF transfer, State
<1> HIDE DEF x
<1>2. Locks(s, x)
  BY <1>1, MoneyType DEF Locks, locked
<1> QED BY <1>2 DEF x

\* What is minted for work stays within the rate on whatever covers the work.
LEMMA IssuanceBound ==
  ASSUME NEW u \in Nat, NEW n \in Nat, u <= n
  PROVE  issuance(u) * PPM <= n * params.issuance_rate_ppm
<1> DEFINE rate == params.issuance_rate_ppm
           x    == u * rate
<1>1. rate \in Nat
  BY ParamsAssumption DEF Params
<1>2. x \in Nat /\ x <= n * rate
  BY <1>1
<1>3. issuance(u) = x \div PPM
  BY DEF issuance, ppm_of
<1>4. (x \div PPM) * PPM <= x
  <2> HIDE DEF x
  <2> QED BY <1>2, PpmPositive
<1>5. n * rate \in Int /\ issuance(u) * PPM \in Int
  <2>1. issuance(u) \in Nat
    BY AmountType
  <2> QED BY <1>1, <2>1, PpmPositive
<1> HIDE DEF x
<1> QED BY <1>2, <1>3, <1>4, <1>5

\* settle unlocks ceiling and fee, of which the fee is collected.
LEMMA SubmitProofUnlocks ==
  ASSUME NEW s \in State, NEW a \in Identity, NEW t \in Task,
         NEW proof \in ComputeProof, CanSubmitProof(s, a, t, proof)
  PROVE  Unlocks(s, submit_proof(s, t, proof))
<1> DEFINE x   == submit_proof(s, t, proof)
           u   == proof.ucu_count
           w   == issuance(u)
           f   == s.tasks[t].fee
           max_ucu   == Body[t].max_ucu
           requester == s.tasks[t].requester
<1>1. s.tasks[t] # None
  BY DEF CanSubmitProof, status
<1>2. /\ requester \in Identity /\ f \in Nat /\ max_ucu \in Nat
      /\ u \in Nat /\ u <= max_ucu
  BY <1>1, SubmissionType, BodyType, UcuAssumption DEF CanSubmitProof, ComputeProof
<1>3. w \in Nat
  BY <1>2, AmountType
<1>4. /\ x.escrowed = Debit(s.escrowed, requester, max_ucu + f)
      /\ x.bonded = s.bonded /\ x.fee_pool = s.fee_pool + f
      /\ x.minted = s.minted + w /\ x.burned = s.burned
  <2>1. ProofSubmitted(s, x, t, proof)
    BY <1>1, SubmitProofFields
  <2> HIDE DEF x
  <2> QED BY <2>1 DEF ProofSubmitted
<1>5. w * PPM <= (max_ucu + f) * params.issuance_rate_ppm
  <2>1. max_ucu + f \in Nat /\ u <= max_ucu + f
    BY <1>2
  <2> QED BY <1>2, <2>1, IssuanceBound
<1> HIDE DEF x, u, w, f, max_ucu, requester
<1>6. max_ucu + f \in Nat
  BY <1>2
<1>7. SumFunction(x.escrowed) = SumFunction(s.escrowed) - (max_ucu + f)
  BY <1>2, <1>4, <1>6, FieldType, CreditDebitSum
<1>8. locked(s) - locked(x) = max_ucu + f
  BY <1>4, <1>6, <1>7, SumsType DEF locked
<1>9. x.fee_pool - s.fee_pool = f /\ x.minted - s.minted = w
  BY <1>2, <1>3, <1>4, SumsType
<1>10. Unlocks(s, x)
  BY <1>2, <1>3, <1>4, <1>5, <1>8, <1>9 DEF Unlocks
<1> QED BY <1>10 DEF x

\* What leaves the lock without being collected or minting anything is free.
LEMMA PlainUnlock ==
  ASSUME NEW s \in State, NEW x \in State, locked(x) <= locked(s),
         x.fee_pool = s.fee_pool, x.minted = s.minted, x.burned = s.burned
  PROVE  Unlocks(s, x)
<1>1. locked(s) - locked(x) \in Nat
  BY MoneyType
<1>2. (locked(s) - locked(x)) * params.issuance_rate_ppm \in Nat
  BY <1>1, ParamsAssumption DEF Params
<1>3. /\ x.fee_pool - s.fee_pool = 0 /\ x.minted - s.minted = 0
      /\ 0 * PPM = 0
  BY MoneyType, PpmPositive
<1> QED BY <1>1, <1>2, <1>3 DEF Unlocks

\* The epoch boundary unlocks the matured stakes.
LEMMA AdvanceEpochUnlocks ==
  ASSUME NEW s \in State, Submitted(s)
  PROVE  Unlocks(s, advance_epoch(s))
<1> DEFINE x == advance_epoch(s)
<1>1. /\ x.bonded = [a \in Identity |-> s.bonded[a] - freed(s, s.epoch + 1, a)]
      /\ x.escrowed = s.escrowed /\ x.fee_pool = s.fee_pool
      /\ x.minted = s.minted /\ x.burned = s.burned
  BY DEF advance_epoch, State
<1>2. x \in State
  BY AdvanceEpochType
<1> HIDE DEF x
<1>3. \A a \in Identity : x.bonded[a] <= s.bonded[a]
  BY <1>1, FreedType, FieldType
<1>4. SumFunction(x.bonded) <= SumFunction(s.bonded)
  <2>1. x.bonded \in [Identity -> Int] /\ s.bonded \in [Identity -> Int]
    BY <1>2, FieldType
  <2> QED BY <1>3, <2>1, IdentityAssumption, SumFunctionMonotone
<1>5. locked(x) <= locked(s)
  BY <1>1, <1>2, <1>4, SumsType DEF locked
<1>6. Unlocks(s, x)
  BY <1>1, <1>2, <1>5, PlainUnlock
<1> QED BY <1>6 DEF x

\* Penalties may follow each other.
LEMMA PenaltiesCompose ==
  ASSUME NEW s \in State, NEW x \in State, NEW y \in State,
         Penalises(s, x), Penalises(x, y)
  PROVE  Penalises(s, y)
BY MoneyType DEF Penalises

\* The penalties of a fraud take payment and fine out of the bonds and hand at
\* most the reward to the fee pool.
LEMMA PenalisePenalises ==
  ASSUME NEW s \in State, NEW t \in Task,
         NEW reward_to \in Identity \cup {None},
         s.tasks[t] # None, s.receipts[t] # None, s.tasks[t].provider # None
  PROVE  Penalises(s, penalise(s, t, reward_to))
<1> DEFINE provider  == s.tasks[t].provider
           mid       == take_fraud_penalties(s, t, reward_to)
           x         == penalise(s, t, reward_to)
<1>1. PICK recovered \in Nat, burn_w \in Nat, fine_avail \in Nat, reward \in Nat :
        Penalties(s, t, reward_to, recovered, burn_w, fine_avail, reward)
  BY FraudPenaltiesAre
<1>2. /\ mid.bonded = Debit(s.bonded, provider, recovered + fine_avail)
      /\ mid.fee_pool = IF reward_to = None THEN s.fee_pool + reward ELSE s.fee_pool
      /\ mid.burned = s.burned + burn_w + (fine_avail - reward)
      /\ mid.minted = s.minted /\ mid.escrowed = s.escrowed
  <2> HIDE DEF mid
  <2> QED BY <1>1 DEF Penalties, mid, State
<1>3. reward <= fine_avail
  BY <1>1 DEF Penalties
<1>4. provider \in Identity
  BY SubmissionType
<1>5. mid \in State
  BY FraudPenaltiesType
<1>6. /\ x.bonded = mid.bonded /\ x.fee_pool = mid.fee_pool
      /\ x.burned = mid.burned /\ x.minted = mid.minted /\ x.escrowed = mid.escrowed
  <2> HIDE DEF mid
  <2> QED BY <1>5 DEF penalise, mid, State
<1> HIDE DEF mid, x, provider
<1>7. recovered + fine_avail \in Nat
  OBVIOUS
<1>8. SumFunction(x.bonded) = SumFunction(s.bonded) - (recovered + fine_avail)
  BY <1>2, <1>4, <1>6, <1>7, FieldType, CreditDebitSum
<1>9. locked(s) - locked(x) = recovered + fine_avail
  BY <1>2, <1>6, <1>7, <1>8, SumsType DEF locked
<1>10. x.fee_pool - s.fee_pool \in 0..fine_avail /\ x.burned - s.burned >= 0
  BY <1>2, <1>3, <1>6, SumsType
<1>11. Penalises(s, x)
  BY <1>2, <1>6, <1>7, <1>9, <1>10 DEF Penalises
<1> QED BY <1>11 DEF x

\* resolve_fraud, which may do nothing.
LEMMA ResolveFraudPenalises ==
  ASSUME NEW s \in State, Submitted(s), NEW t \in Task,
         NEW reward_to \in Identity \cup {None}
  PROVE  Penalises(s, resolve_fraud(s, t, reward_to))
<1>1. Penalises(s, s)
  BY MoneyType DEF Penalises
<1> QED BY <1>1, PenalisePenalises DEF resolve_fraud, CanResolveFraud, Submitted

\* A challenge is closed by the penalties, if any, and by unlocking or burning
\* what is left of the bond.
LEMMA CloseChallengePenalises ==
  ASSUME NEW s \in State, Submitted(s), NEW t \in Task,
         NEW fraud \in BOOLEAN, s.pending_challenges[t] # None
  PROVE  Penalises(s, close_challenge(s, t, fraud))
<1> DEFINE x  == close_challenge(s, t, fraud)
           c  == closed(s, t)
           j  == judged(s, t, fraud)
           b  == returned(s, t, fraud)
           ch == s.pending_challenges[t].challenger
<1>1. ch \in Identity
  BY PendingType
<1>2. c \in State /\ Submitted(c)
  BY ClosedType
<1>3. Penalises(s, c)
  <2>1. /\ c.escrowed = s.escrowed /\ c.bonded = s.bonded
        /\ c.fee_pool = s.fee_pool /\ c.minted = s.minted /\ c.burned = s.burned
    BY DEF closed, State
  <2> HIDE DEF c
  <2> QED BY <2>1, MoneyType DEF Penalises, locked
<1>4. Penalises(c, j)
  <2>1. Penalises(c, c)
    BY <1>2, MoneyType DEF Penalises
  <2> QED BY <1>1, <1>2, <2>1, ResolveFraudPenalises DEF judged
<1>5. j \in State /\ b \in Nat
  BY JudgedType
<1>6. /\ x.bonded = Debit(j.bonded, ch, b)
      /\ x.burned = IF fraud THEN j.burned ELSE j.burned + b
      /\ x.escrowed = j.escrowed /\ x.fee_pool = j.fee_pool /\ x.minted = j.minted
  <2> HIDE DEF j, b
  <2> QED BY <1>5, CloseChallengeIs DEF State, j, b
<1>7. x \in State
  BY CloseChallengeType
<1> HIDE DEF x, c, j, b, ch
<1>8. SumFunction(x.bonded) = SumFunction(j.bonded) - b
  BY <1>1, <1>5, <1>6, FieldType, CreditDebitSum
<1>9. locked(j) - locked(x) = b
  BY <1>5, <1>6, <1>8, SumsType DEF locked
<1>10. Penalises(j, x)
  BY <1>5, <1>6, <1>9, MoneyType DEF Penalises
<1>11. Penalises(s, x)
  BY <1>2, <1>3, <1>4, <1>5, <1>7, <1>10, PenaltiesCompose
<1> QED BY <1>11 DEF x

-----------------------------------------------------------------------------
\* Every step of the ledger moves the supply.
LEMMA NextMoves ==
  ASSUME IInv, [Next]_ledger
  PROVE  SupplyStep(ledger, ledger')
<1>1. ledger \in State /\ Submitted(ledger)
  BY AgreeSubmitted DEF IInv, Sound
<1>2. ASSUME NEW a \in Identity, NEW s \in State, SupplyStep(ledger, s), Apply(a, s)
      PROVE  SupplyStep(ledger, ledger')
  BY <1>1, <1>2, BumpNonceMoves DEF Apply
<1>3. CASE SubmitTask
  BY <1>1, <1>2, <1>3, SubmitTaskType, SubmitTaskLocks DEF SubmitTask, SupplyStep
<1>4. CASE ClaimTask
  BY <1>1, <1>2, <1>4, ClaimTaskType, ClaimTaskLocks DEF ClaimTask, SupplyStep
<1>5. CASE SubmitProof
  <2>1. PICK a \in Identity, t \in Task, proof \in ComputeProof :
          /\ CanSubmitProof(ledger, a, t, proof)
          /\ Apply(a, submit_proof(ledger, t, proof))
    BY <1>5 DEF SubmitProof
  <2>2. submit_proof(ledger, t, proof) \in State
    BY <2>1, SubmitProofSound DEF IInv, Sound
  <2>3. SupplyStep(ledger, submit_proof(ledger, t, proof))
    BY <1>1, <2>1, SubmitProofUnlocks DEF SupplyStep
  <2> QED BY <1>2, <2>1, <2>2, <2>3
<1>6. CASE Challenge
  BY <1>1, <1>2, <1>6, OpenChallengeType, OpenChallengeLocks DEF Challenge, SupplyStep
<1>7. CASE Transfer
  BY <1>1, <1>2, <1>7, TransferType, TransferLocks DEF Transfer, SupplyStep
<1>8. CASE AdvanceEpoch
  BY <1>1, <1>8, AdvanceEpochUnlocks DEF AdvanceEpoch, SupplyStep
<1>9. CASE ResolveChallenge
  BY <1>1, <1>9, CloseChallengePenalises
    DEF ResolveChallenge, resolve_challenge, SupplyStep
<1>10. CASE SamplingAudit
  BY <1>1, <1>10, ResolveFraudPenalises DEF SamplingAudit, SupplyStep
<1>11. CASE UNCHANGED ledger
  BY <1>1, <1>11, MoneyType DEF SupplyStep, Locks
<1> QED BY <1>3, <1>4, <1>5, <1>6, <1>7, <1>8, <1>9, <1>10, <1>11 DEF Next

\* A move of the supply between two conserving states is a step of Supply.
LEMMA MoveIsStep ==
  ASSUME ledger \in State, ledger' \in State,
         Conserved(ledger), Conserved(ledger'),
         SupplyStep(ledger, ledger')
  PROVE  Money!Next
<1> DEFINE s == ledger
           x == ledger'
<1>1. /\ free(s) \in Nat /\ locked(s) \in Nat /\ s.fee_pool \in Nat
      /\ s.minted \in Nat /\ s.burned \in Nat
      /\ free(x) \in Nat /\ locked(x) \in Nat /\ x.fee_pool \in Nat
      /\ x.minted \in Nat /\ x.burned \in Nat
  BY MoneyType
<1>2. /\ free(s) = s.minted - s.burned - locked(s) - s.fee_pool
      /\ free(x) = x.minted - x.burned - locked(x) - x.fee_pool
  BY FreeIs
<1>3. CASE Locks(s, x)
  <2>1. Money!Lock
    BY <1>1, <1>2, <1>3 DEF Locks, Money!Lock, Money!unlocked, free, locked
  <2> QED BY <2>1 DEF Money!Next
<1>4. CASE Unlocks(s, x)
  <2>1. Money!Unlock
    BY <1>1, <1>2, <1>4
      DEF Unlocks, Money!Unlock, Money!unlocked, Money!collected, Money!earned,
          free, locked
  <2> QED BY <2>1 DEF Money!Next
<1>5. CASE Penalises(s, x)
  <2>1. Money!Penalise
    BY <1>1, <1>2, <1>5
      DEF Penalises, Money!Penalise, Money!unlocked, Money!collected,
          Money!destroyed, free, locked
  <2> QED BY <2>1 DEF Money!Next
<1> QED BY <1>3, <1>4, <1>5 DEF SupplyStep

\* The ledger implements the supply: 𝕌 is minted for unlocked work only and within
\* the rate, burned as a penalty only, never both at once, and the fee pool only
\* grows, whatever accounts, tasks and challenges the amounts belong to.
THEOREM SupplyRefined == Spec => SupplySpec
<1>1. Init => Money!Init
  <2>1. SumFunction(nobody) = 0
    <3>1. nobody \in [Identity -> Int] /\ \A a \in Identity : nobody[a] = 0
      BY DEF nobody
    <3> QED BY <3>1, IdentityAssumption, SumFunctionZero
  <2> QED BY <2>1 DEF Init, Money!Init, genesis
<1>2. Init => SupplyInv
  BY GenesisSound, GenesisConserves DEF Init, SupplyInv, IInv
<1>3. SupplyInv /\ [Next]_ledger => SupplyInv'
  BY NextSound, NextConserves DEF SupplyInv
<1>4. SupplyInv /\ [Next]_ledger => [Money!Next]_(Money!supply)
  <2> SUFFICES ASSUME SupplyInv, [Next]_ledger
               PROVE  Money!Next
    OBVIOUS
  <2>1. SupplyInv'
    BY <1>3
  <2>2. /\ ledger \in State /\ Conserved(ledger)
        /\ ledger' \in State /\ Conserved(ledger')
    BY <2>1 DEF SupplyInv, IInv, Sound
  <2>3. SupplyStep(ledger, ledger')
    BY NextMoves DEF SupplyInv
  <2> QED BY <2>2, <2>3, MoveIsStep
<1> QED BY <1>1, <1>2, <1>3, <1>4, PTL DEF Spec, SupplySpec, Money!Spec

-----------------------------------------------------------------------------
(***************************************************************************)
(* Machine words.                                                          *)
(***************************************************************************)
\* A product or a sum of the whole supply is a word: with the devnet's fee of a
\* thousandth, as long as fewer than 2^118 base units were minted.
SupplyFits ==
  ledger.minted < Word /\ ledger.minted * params.fee_ppm < Word

\* Nobody has more than was minted.
LEMMA BalanceBound ==
  ASSUME NEW s \in State, Conserved(s), NEW a \in Identity
  PROVE  s.balance[a] <= s.minted
<1>1. s.balance[a] \in Nat /\ s.balance[a] <= SumFunction(s.balance)
  BY FieldType, IdentityAssumption, SumFunctionType
<1> QED BY <1>1, SumsType DEF Conserved, held

\* A number that is a word stays what it is.
LEMMA WordKeeps ==
  ASSUME NEW n \in Nat, n < Word
  PROVE  n % Word = n
BY WordAssumption

\* The fee of what an account could pay does not wrap around.
LEMMA WordFeeExact ==
  ASSUME NEW n \in Nat, NEW minted \in Nat, n <= minted,
         minted * params.fee_ppm < Word
  PROVE  word_fee(n) = fee(n)
<1> DEFINE rate == params.fee_ppm
<1>1. rate \in Nat
  BY ParamsAssumption DEF Params
<1>2. n * rate \in Nat /\ n * rate <= minted * rate /\ minted * rate \in Nat
  BY <1>1
<1>3. (n * rate) % Word = n * rate
  <2> DEFINE p == n * rate
  <2>1. p \in Nat /\ p < Word
    BY <1>2, WordAssumption
  <2> HIDE DEF p
  <2>2. p % Word = p
    BY <2>1, WordKeeps
  <2> QED BY <2>2 DEF p
<1> QED BY <1>3 DEF word_fee, fee, ppm_of

\* The guard of the code in machine words admits a task exactly if the account can
\* pay for it, and the answer of the call is what is escrowed, for every ceiling a
\* client may name: as long as the supply fits, what wraps around is not affordable.
THEOREM WordsAlike == Spec => [](SupplyFits => WordsAdmitAlike)
<1>1. Init => SupplyInv
  BY GenesisSound, GenesisConserves DEF Init, SupplyInv, IInv
<1>2. SupplyInv /\ [Next]_ledger => SupplyInv'
  BY NextSound, NextConserves DEF SupplyInv
<1>3. SupplyInv => (SupplyFits => WordsAdmitAlike)
  <2> SUFFICES ASSUME SupplyInv, SupplyFits,
                      NEW a \in Identity, NEW max_ucu \in Amount
               PROVE  LET due == max_ucu + fee(max_ucu)
                      IN /\ word_affords(ledger.balance[a], max_ucu)
                              <=> ledger.balance[a] >= due
                         /\ ledger.balance[a] >= due => answer(max_ucu) = due
    BY DEF WordsAdmitAlike
  <2> DEFINE b   == ledger.balance[a]
             due == max_ucu + fee(max_ucu)
  <2>1. ledger \in State /\ Conserved(ledger)
    BY DEF SupplyInv, IInv, Sound
  <2>2. /\ b \in Nat /\ b <= ledger.minted /\ ledger.minted \in Nat
        /\ max_ucu \in Nat /\ Word \in Nat \ {0}
    BY <2>1, BalanceBound, FieldType, WordAssumption DEF Amount
  <2>3. fee(max_ucu) \in Nat
    BY <2>2, AmountType
  <2>4. word_fee(max_ucu) \in Nat
    <3> DEFINE p == max_ucu * params.fee_ppm
    <3>1. p \in Nat
      BY <2>2, ParamsAssumption DEF Params
    <3> HIDE DEF p
    <3>2. p % Word \in Nat
      BY <2>2, <3>1
    <3> DEFINE r == p % Word
    <3> HIDE DEF r
    <3>3. r \div PPM \in Nat
      BY <3>2, PpmPositive DEF r
    <3> QED BY <3>3 DEF r, p, word_fee
  <2>5. max_ucu <= b => word_fee(max_ucu) = fee(max_ucu)
    <3>1. max_ucu <= b => max_ucu <= ledger.minted
      BY <2>2
    <3> QED BY <2>2, <3>1, WordFeeExact DEF SupplyFits
  <2>6. word_affords(b, max_ucu) => b >= due
    <3>1. word_affords(b, max_ucu) => b >= max_ucu + word_fee(max_ucu)
      BY DEF word_affords
    <3> HIDE DEF b
    <3> QED BY <2>2, <2>3, <2>4, <2>5, <3>1
  <2>7. b >= due => max_ucu <= b /\ due < Word
    BY <2>2, <2>3 DEF SupplyFits
  <2>8. b >= due => word_affords(b, max_ucu)
    BY <2>5, <2>7 DEF word_affords
  <2>9. b >= due => answer(max_ucu) = due
    <3>1. ASSUME due < Word PROVE due % Word = due
      <4>1. due \in Nat
        BY <2>2, <2>3
      <4> HIDE DEF due
      <4> QED BY <3>1, <4>1, WordKeeps
    <3> QED BY <2>5, <2>7, <3>1 DEF answer
  <2> QED BY <2>6, <2>8, <2>9
<1> QED BY <1>1, <1>2, <1>3, PTL DEF Spec

-----------------------------------------------------------------------------
(***************************************************************************)
(* The lock of an account.                                                 *)
(***************************************************************************)
\* What a's claim of task t locks, and what a's challenge of it does.
stake_term(s, t, a) ==
  IF s.tasks[t] # None /\ s.tasks[t].provider = a /\ t \notin s.released
  THEN s.tasks[t].claim_stake ELSE 0

bond_term(s, t, a) ==
  IF s.pending_challenges[t] # None /\ s.pending_challenges[t].challenger = a
  THEN s.pending_challenges[t].bond ELSE 0

lock_term(s, t, a) == stake_term(s, t, a) + bond_term(s, t, a)

\* Everything a has locked.
lock(s, a) == SumFunction([t \in Task |-> lock_term(s, t, a)])

Bonded(s) ==
  \A a \in Identity : /\ s.bonded[a] <= lock(s, a)
                      /\ s.strikes[a] = 0 => s.bonded[a] = lock(s, a)

\* The terms are amounts.
LEMMA LockTermType ==
  ASSUME NEW s \in State, NEW t \in Task, NEW a
  PROVE  /\ stake_term(s, t, a) \in Nat /\ bond_term(s, t, a) \in Nat
         /\ lock_term(s, t, a) \in Nat
<1>1. stake_term(s, t, a) \in Nat
  BY SubmissionType DEF stake_term
<1>2. bond_term(s, t, a) \in Nat
  BY PendingType DEF bond_term
<1> QED BY <1>1, <1>2 DEF lock_term

\* The lock is the sum of the two locks of BondsBacked, and covers each term.
LEMMA LockIs ==
  ASSUME NEW s \in State, NEW a
  PROVE  /\ lock(s, a) = stake_lock(s, a) + bond_lock(s, a)
         /\ lock(s, a) \in Nat
         /\ \A t \in Task : lock_term(s, t, a) <= lock(s, a)
<1> DEFINE f == [t \in Task |-> stake_term(s, t, a)]
           g == [t \in Task |-> bond_term(s, t, a)]
           h == [t \in Task |-> lock_term(s, t, a)]
<1>1. /\ f \in [Task -> Int] /\ g \in [Task -> Int] /\ h \in [Task -> Nat]
      /\ h \in [Task -> Int] /\ \A t \in Task : h[t] = f[t] + g[t]
  BY LockTermType DEF lock_term
<1>2. /\ lock(s, a) = SumFunction(h)
      /\ \A t \in Task : lock_term(s, t, a) = h[t]
  BY DEF lock
<1>3. stake_lock(s, a) = SumFunction(f) /\ bond_lock(s, a) = SumFunction(g)
  BY DEF stake_lock, stake_term, bond_lock, bond_term
<1> HIDE DEF f, g, h
<1>4. SumFunction(h) = SumFunction(f) + SumFunction(g)
  BY <1>1, TaskAssumption, SumFunctionAdd
<1>5. SumFunction(h) \in Nat /\ \A t \in Task : h[t] <= SumFunction(h)
  BY <1>1, TaskAssumption, SumFunctionType
<1> QED BY <1>2, <1>3, <1>4, <1>5

\* A step that changes the terms of task t only moves the lock by as much.
LEMMA LockChange ==
  ASSUME NEW s \in State, NEW x \in State, NEW t \in Task, NEW a,
         \A v \in Task : v # t => lock_term(x, v, a) = lock_term(s, v, a)
  PROVE  lock(x, a) = lock(s, a) + lock_term(x, t, a) - lock_term(s, t, a)
<1> DEFINE f == [v \in Task |-> lock_term(s, v, a)]
           g == [v \in Task |-> lock_term(x, v, a)]
<1>1. /\ f \in [Task -> Int] /\ g \in [Task -> Int]
      /\ f[t] = lock_term(s, t, a) /\ g[t] = lock_term(x, t, a)
      /\ \A v \in Task : v # t => g[v] = f[v]
  BY LockTermType
<1>2. lock(s, a) = SumFunction(f) /\ lock(x, a) = SumFunction(g)
  BY DEF lock
<1> HIDE DEF f, g
<1>3. SumFunction(g) = SumFunction(f) + g[t] - f[t]
  BY <1>1, TaskAssumption, SumFunctionChange
<1> QED BY <1>1, <1>2, <1>3

\* A step that changes no term and no bonded amount.
LEMMA BondedSame ==
  ASSUME NEW s, NEW x, Bonded(s), x.bonded = s.bonded, x.strikes = s.strikes,
         \A t \in Task, a \in Identity : lock_term(x, t, a) = lock_term(s, t, a)
  PROVE  Bonded(x)
<1>1. ASSUME NEW a \in Identity PROVE lock(x, a) = lock(s, a)
  <2>1. [t \in Task |-> lock_term(x, t, a)] = [t \in Task |-> lock_term(s, t, a)]
    OBVIOUS
  <2> QED BY <2>1 DEF lock
<1> QED BY <1>1 DEF Bonded

\* A step that bonds n for a, whose terms it raises by n at task t.
LEMMA BondedMore ==
  ASSUME NEW s \in State, NEW x \in State, Bonded(s), NEW a \in Identity,
         NEW n \in Nat, NEW t \in Task,
         x.bonded = Credit(s.bonded, a, n), x.strikes = s.strikes,
         lock_term(x, t, a) = lock_term(s, t, a) + n,
         \A v \in Task, b \in Identity :
           v # t \/ b # a => lock_term(x, v, b) = lock_term(s, v, b)
  PROVE  Bonded(x)
<1>1. ASSUME NEW b \in Identity
      PROVE  /\ x.bonded[b] <= lock(x, b)
             /\ x.strikes[b] = 0 => x.bonded[b] = lock(x, b)
  <2>1. /\ lock(x, b) = lock(s, b) + lock_term(x, t, b) - lock_term(s, t, b)
        /\ lock(s, b) \in Nat /\ lock_term(s, t, b) \in Nat
    BY LockChange, LockIs, LockTermType
  <2>2. /\ s.bonded[b] \in Nat /\ s.bonded[b] <= lock(s, b)
        /\ s.strikes[b] = 0 => s.bonded[b] = lock(s, b)
    BY FieldType DEF Bonded
  <2>3. CASE b = a
    <3>1. lock(x, b) = lock(s, b) + n
      BY <2>1, <2>3
    <3>2. x.bonded[b] = s.bonded[b] + n
      BY <2>3, FieldType DEF Credit
    <3> QED BY <2>1, <2>2, <3>1, <3>2
  <2>4. CASE b # a
    <3>1. lock(x, b) = lock(s, b)
      BY <2>1, <2>4
    <3>2. x.bonded[b] = s.bonded[b]
      BY <2>4, FieldType DEF Credit
    <3> QED BY <2>2, <3>1, <3>2
  <2> QED BY <2>3, <2>4
<1> QED BY <1>1 DEF Bonded

-----------------------------------------------------------------------------
(***************************************************************************)
(* The operations.                                                         *)
(***************************************************************************)
\* submit_task names no provider yet.
LEMMA SubmitTaskBonded ==
  ASSUME NEW s \in State, Bonded(s), NEW a \in Identity, NEW t \in Task,
         CanSubmitTask(s, a, t)
  PROVE  Bonded(submit_task(s, a, t))
<1> DEFINE x   == submit_task(s, a, t)
           sub == [ status      |-> "Submitted",
                    requester   |-> a,
                    provider    |-> None,
                    fee         |-> fee(Body[t].max_ucu),
                    claim_stake |-> 0,
                    ucu_count   |-> 0 ]
<1>1. /\ x.tasks = [s.tasks EXCEPT ![t] = sub] /\ x.bonded = s.bonded
      /\ x.strikes = s.strikes /\ x.released = s.released
      /\ x.pending_challenges = s.pending_challenges
  BY DEF submit_task, State
<1>2. sub.provider = None /\ s.tasks[t] = None
  BY DEF CanSubmitTask
<1> HIDE DEF x, sub
<1>3. ASSUME NEW v \in Task, NEW b \in Identity
      PROVE  lock_term(x, v, b) = lock_term(s, v, b)
  <2>1. bond_term(x, v, b) = bond_term(s, v, b)
    BY <1>1 DEF bond_term
  <2>2. b # None
    BY NoneAssumption
  <2>3. stake_term(x, v, b) = stake_term(s, v, b)
    <3>1. CASE v = t
      <4>1. x.tasks[v] = sub
        BY <1>1, <3>1, FieldType
      <4> QED BY <1>2, <2>2, <3>1, <4>1 DEF stake_term
    <3>2. CASE v # t
      BY <1>1, <3>2, FieldType DEF stake_term
    <3> QED BY <3>1, <3>2
  <2> QED BY <2>1, <2>3 DEF lock_term
<1> QED BY <1>1, <1>3, BondedSame DEF x

\* claim_task bonds the stake of an unclaimed task.
LEMMA ClaimTaskBonded ==
  ASSUME NEW s \in State, Agree(s), Bonded(s), NEW a \in Identity, NEW t \in Task,
         CanClaimTask(s, a, t)
  PROVE  Bonded(claim_task(s, a, t))
<1> DEFINE x   == claim_task(s, a, t)
           n   == stake(s, a, t)
           sub == [s.tasks[t] EXCEPT !.provider    = a,
                                     !.status      = "Executing",
                                     !.claim_stake = n]
<1>1. /\ x.tasks = [s.tasks EXCEPT ![t] = sub] /\ x.bonded = Credit(s.bonded, a, n)
      /\ x.strikes = s.strikes /\ x.released = s.released
      /\ x.pending_challenges = s.pending_challenges
  BY FieldType DEF claim_task, State
<1>2. /\ s.tasks[t] # None /\ s.tasks[t].provider = None /\ t \notin s.released
  <2>1. records_agree(s, t)
    BY DEF Agree
  <2>2. s.tasks[t] # None /\ status(s, t) = "Submitted" /\ s.tasks[t].status = "Submitted"
    BY DEF CanClaimTask, status
  <2> QED BY <2>1, <2>2 DEF records_agree, settled
<1>3. n \in Nat /\ x \in State
  BY BodyType, AmountType, FieldType, ClaimTaskType DEF stake
<1>4. sub.provider = a /\ sub.claim_stake = n /\ sub # None
  <2> HIDE DEF n
  <2>0. s.tasks[t] \in Submission
    BY <1>2, SubmissionType
  <2>1. sub \in Submission
    BY <1>3, <2>0 DEF Submission, TaskStatus
  <2>2. sub.provider = a /\ sub.claim_stake = n
    BY <2>0 DEF Submission
  <2> HIDE DEF sub
  <2> QED BY <2>1, <2>2, NoneAssumption
<1> HIDE DEF x, n, sub
<1>5. x.tasks[t] = sub /\ \A v \in Task : v # t => x.tasks[v] = s.tasks[v]
  BY <1>1, FieldType
<1>6. \A v \in Task, b \in Identity : bond_term(x, v, b) = bond_term(s, v, b)
  BY <1>1 DEF bond_term
<1>7. a # None /\ \A b \in Identity : b # None
  BY NoneAssumption
<1>8. /\ stake_term(s, t, a) = 0 /\ stake_term(x, t, a) = n
      /\ \A v \in Task, b \in Identity :
           v # t \/ b # a => stake_term(x, v, b) = stake_term(s, v, b)
  BY <1>1, <1>2, <1>4, <1>5, <1>7 DEF stake_term
<1>9. lock_term(x, t, a) = lock_term(s, t, a) + n
  BY <1>3, <1>6, <1>8, LockTermType DEF lock_term
<1>10. \A v \in Task, b \in Identity :
         v # t \/ b # a => lock_term(x, v, b) = lock_term(s, v, b)
  BY <1>6, <1>8 DEF lock_term
<1> QED BY <1>1, <1>3, <1>9, <1>10, BondedMore DEF x

\* open_challenge bonds what it names, for a task without a challenge.
LEMMA OpenChallengeBonded ==
  ASSUME NEW s \in State, Bonded(s), NEW a \in Identity, NEW t \in Task,
         NEW bond \in Ucu, CanOpenChallenge(s, a, t, bond)
  PROVE  Bonded(open_challenge(s, a, t, bond))
<1> DEFINE x  == open_challenge(s, a, t, bond)
           pc == [challenger |-> a, bond |-> bond]
<1>1. /\ x.tasks = s.tasks /\ x.bonded = Credit(s.bonded, a, bond)
      /\ x.strikes = s.strikes /\ x.released = s.released
      /\ x.pending_challenges = [s.pending_challenges EXCEPT ![t] = pc]
  BY DEF open_challenge, State
<1>2. s.pending_challenges[t] = None
  BY DEF CanOpenChallenge
<1>3. bond \in Nat /\ x \in State
  BY UcuAssumption, OpenChallengeType
<1>4. pc.challenger = a /\ pc.bond = bond /\ pc # None
  BY <1>3, NoneAssumption DEF ChallengeRecord
<1> HIDE DEF x, pc
<1>5. /\ x.pending_challenges[t] = pc
      /\ \A v \in Task : v # t => x.pending_challenges[v] = s.pending_challenges[v]
  BY <1>1, FieldType
<1>6. \A v \in Task, b \in Identity : stake_term(x, v, b) = stake_term(s, v, b)
  BY <1>1 DEF stake_term
<1>7. /\ bond_term(s, t, a) = 0 /\ bond_term(x, t, a) = bond
      /\ \A v \in Task, b \in Identity :
           v # t \/ b # a => bond_term(x, v, b) = bond_term(s, v, b)
  BY <1>2, <1>4, <1>5 DEF bond_term
<1>8. lock_term(x, t, a) = lock_term(s, t, a) + bond
  BY <1>3, <1>6, <1>7, LockTermType DEF lock_term
<1>9. \A v \in Task, b \in Identity :
        v # t \/ b # a => lock_term(x, v, b) = lock_term(s, v, b)
  BY <1>6, <1>7 DEF lock_term
<1> QED BY <1>1, <1>3, <1>8, <1>9, BondedMore DEF x

\* submit_proof leaves every claim with its provider and stake.
LEMMA SubmitProofBonded ==
  ASSUME NEW s \in State, Bonded(s), NEW a \in Identity, NEW t \in Task,
         NEW proof \in ComputeProof, CanSubmitProof(s, a, t, proof)
  PROVE  Bonded(submit_proof(s, t, proof))
<1> DEFINE x   == submit_proof(s, t, proof)
           sub == [s.tasks[t] EXCEPT !.ucu_count = proof.ucu_count,
                                     !.status = "Settled"]
<1>1. s.tasks[t] # None
  BY DEF CanSubmitProof, status
<1>2. /\ x.tasks = [s.tasks EXCEPT ![t] = sub] /\ x.bonded = s.bonded
      /\ x.strikes = s.strikes /\ x.released = s.released
      /\ x.pending_challenges = s.pending_challenges
  <2>1. ProofSubmitted(s, x, t, proof)
    BY <1>1, SubmitProofFields
  <2> HIDE DEF x
  <2> QED BY <2>1 DEF ProofSubmitted
<1>3. /\ sub.provider = s.tasks[t].provider
      /\ sub.claim_stake = s.tasks[t].claim_stake /\ sub # None
  <2>1. proof.ucu_count \in Nat
    BY UcuAssumption DEF ComputeProof
  <2>2. sub \in Submission
    BY <1>1, <2>1, SubmissionType DEF Submission, TaskStatus
  <2> QED BY <1>1, <2>2, SubmissionType, NoneAssumption DEF Submission
<1> HIDE DEF x, sub
<1>4. x.tasks[t] = sub /\ \A v \in Task : v # t => x.tasks[v] = s.tasks[v]
  BY <1>2, FieldType
<1>5. \A v \in Task, b \in Identity : stake_term(x, v, b) = stake_term(s, v, b)
  BY <1>1, <1>2, <1>3, <1>4 DEF stake_term
<1>6. \A v \in Task, b \in Identity : lock_term(x, v, b) = lock_term(s, v, b)
  BY <1>2, <1>5 DEF lock_term, bond_term
<1> QED BY <1>2, <1>6, BondedSame DEF x

\* transfer and bump_nonce leave the bonds alone.
LEMMA PlainBonded ==
  ASSUME NEW s \in State, Bonded(s)
  PROVE  /\ \A a, to, amount : Bonded(transfer(s, a, to, amount))
         /\ \A a : Bonded(bump_nonce(s, a))
<1>1. ASSUME NEW x, x.tasks = s.tasks, x.released = s.released, x.bonded = s.bonded,
             x.pending_challenges = s.pending_challenges, x.strikes = s.strikes
      PROVE  Bonded(x)
  <2>1. \A v \in Task, b \in Identity : lock_term(x, v, b) = lock_term(s, v, b)
    BY <1>1 DEF lock_term, stake_term, bond_term
  <2> QED BY <1>1, <2>1, BondedSame
<1>2. ASSUME NEW a, NEW to, NEW amount PROVE Bonded(transfer(s, a, to, amount))
  <2> DEFINE x == transfer(s, a, to, amount)
  <2>1. /\ x.tasks = s.tasks /\ x.released = s.released /\ x.bonded = s.bonded
        /\ x.pending_challenges = s.pending_challenges /\ x.strikes = s.strikes
    BY DEF transfer, State
  <2> HIDE DEF x
  <2> QED BY <1>1, <2>1 DEF x
<1>3. ASSUME NEW a PROVE Bonded(bump_nonce(s, a))
  <2> DEFINE x == bump_nonce(s, a)
  <2>1. /\ x.tasks = s.tasks /\ x.released = s.released /\ x.bonded = s.bonded
        /\ x.pending_challenges = s.pending_challenges /\ x.strikes = s.strikes
    BY DEF bump_nonce, State
  <2> HIDE DEF x
  <2> QED BY <1>1, <2>1 DEF x
<1> QED BY <1>2, <1>3

\* The epoch boundary frees what matured, or all there is.
LEMMA AdvanceEpochBonded ==
  ASSUME NEW s \in State, Submitted(s), Bonded(s)
  PROVE  Bonded(advance_epoch(s))
<1> DEFINE x     == advance_epoch(s)
           epoch == s.epoch + 1
<1>1. /\ x.tasks = s.tasks /\ x.strikes = s.strikes
      /\ x.pending_challenges = s.pending_challenges
      /\ x.released = s.released \cup matured(s, epoch)
      /\ x.bonded = [a \in Identity |-> s.bonded[a] - freed(s, epoch, a)]
  BY DEF advance_epoch, State
<1>2. x \in State
  BY AdvanceEpochType
<1> HIDE DEF x, epoch
<1>3. ASSUME NEW a \in Identity
      PROVE  /\ x.bonded[a] <= lock(x, a)
             /\ x.strikes[a] = 0 => x.bonded[a] = lock(x, a)
  <2> DEFINE m == [t \in Task |-> IF t \in matured(s, epoch) /\ s.tasks[t].provider = a
                                  THEN s.tasks[t].claim_stake ELSE 0]
             f == [t \in Task |-> lock_term(x, t, a)]
             h == [t \in Task |-> lock_term(s, t, a)]
  <2>1. ASSUME NEW t \in Task
        PROVE  m[t] \in Nat /\ lock_term(s, t, a) = lock_term(x, t, a) + m[t]
    <3>1. CASE t \in matured(s, epoch) /\ s.tasks[t].provider = a
      <4>1. /\ s.tasks[t] # None /\ t \notin s.released /\ t \in x.released
        BY <1>1, <3>1 DEF matured, Submitted
      <4>2. /\ m[t] = s.tasks[t].claim_stake /\ m[t] \in Nat
        BY <3>1, <4>1, SubmissionType
      <4>3. stake_term(s, t, a) = m[t] /\ stake_term(x, t, a) = 0
        BY <3>1, <4>1, <4>2 DEF stake_term
      <4>4. bond_term(x, t, a) = bond_term(s, t, a)
        BY <1>1 DEF bond_term
      <4> HIDE DEF m
      <4> QED BY <4>2, <4>3, <4>4, LockTermType DEF lock_term
    <3>2. CASE ~ (t \in matured(s, epoch) /\ s.tasks[t].provider = a)
      <4>1. m[t] = 0
        BY <3>2
      <4>2. stake_term(x, t, a) = stake_term(s, t, a)
        BY <1>1, <3>2 DEF stake_term
      <4>3. lock_term(x, t, a) = lock_term(s, t, a)
        BY <1>1, <4>2 DEF lock_term, bond_term
      <4> HIDE DEF m
      <4> QED BY <4>1, <4>3, LockTermType
    <3> QED BY <3>1, <3>2
  <2>2. /\ m \in [Task -> Nat] /\ m \in [Task -> Int]
        /\ f \in [Task -> Int] /\ h \in [Task -> Int]
        /\ \A t \in Task : h[t] = f[t] + m[t]
    <3>1. \A t \in Task : m[t] \in Nat
      BY <2>1
    <3>2. m \in [Task -> Nat]
      BY <3>1
    <3> QED BY <1>2, <2>1, <3>1, <3>2, LockTermType
  <2>3. /\ lock(x, a) = SumFunction(f) /\ lock(s, a) = SumFunction(h)
        /\ matured_stake(s, epoch, a) = SumFunction(m)
    BY DEF lock, matured_stake
  <2> HIDE DEF m, f, h
  <2>4. lock(s, a) = lock(x, a) + matured_stake(s, epoch, a)
    BY <2>2, <2>3, TaskAssumption, SumFunctionAdd
  <2>5. /\ matured_stake(s, epoch, a) \in Nat
        /\ lock(x, a) \in Nat /\ lock(s, a) \in Nat
    BY <1>2, <2>2, <2>3, TaskAssumption, SumFunctionType, LockIs
  <2>6. /\ s.bonded[a] \in Nat /\ s.bonded[a] <= lock(s, a)
        /\ s.strikes[a] = 0 => s.bonded[a] = lock(s, a)
    BY FieldType DEF Bonded
  <2>7. x.bonded[a] = s.bonded[a] - Least(matured_stake(s, epoch, a), s.bonded[a])
    BY <1>1 DEF freed
  <2> QED BY <1>1, <2>4, <2>5, <2>6, <2>7 DEF Least
<1> QED BY <1>3 DEF Bonded, x

\* What a verdict leaves: the locks stay, and an account it does not strike keeps
\* its bonds and does not lose from its balance.
Judges(s, x) ==
  /\ \A t \in Task, a \in Identity : stake_term(x, t, a) = stake_term(s, t, a)
  /\ x.pending_challenges = s.pending_challenges
  /\ \A a \in Identity : /\ x.bonded[a] <= s.bonded[a]
                         /\ x.strikes[a] = 0 => /\ s.strikes[a] = 0
                                                /\ x.bonded[a] = s.bonded[a]
                                                /\ x.balance[a] >= s.balance[a]

\* The penalties take from the bond of an account they strike.
LEMMA PenaliseJudges ==
  ASSUME NEW s \in State, Agree(s), NEW t \in Task,
         NEW reward_to \in Identity \cup {None}, CanResolveFraud(s, t)
  PROVE  Judges(s, penalise(s, t, reward_to))
<1> DEFINE x        == penalise(s, t, reward_to)
           mid      == take_fraud_penalties(s, t, reward_to)
           sub      == [s.tasks[t] EXCEPT !.status = "Failed"]
           provider == s.tasks[t].provider
<1>1. /\ s.tasks[t] # None /\ s.receipts[t] # None /\ provider # None
      /\ provider \in Identity
  BY StatusCases, SubmissionType DEF CanResolveFraud, Agree
<1>2. PICK recovered \in Nat, burn_w \in Nat, fine_avail \in Nat, reward \in Nat :
        Penalties(s, t, reward_to, recovered, burn_w, fine_avail, reward)
  BY <1>1, FraudPenaltiesAre
<1> DEFINE repaid   == Credit(s.balance, s.tasks[t].requester, recovered)
           punished == Debit(repaid, provider, burn_w)
<1>3. /\ mid.bonded = Debit(s.bonded, provider, recovered + fine_avail)
      /\ mid.tasks = s.tasks /\ mid.strikes = s.strikes /\ mid.released = s.released
      /\ mid.pending_challenges = s.pending_challenges
      /\ mid.balance = IF reward_to = None THEN punished
                       ELSE Credit(punished, reward_to, reward)
  <2> HIDE DEF mid
  <2> QED BY <1>2 DEF Penalties, mid, State
<1>4. mid \in State
  BY <1>1, FraudPenaltiesType
<1>5. /\ x.bonded = mid.bonded /\ x.balance = mid.balance /\ x.released = mid.released
      /\ x.pending_challenges = mid.pending_challenges
      /\ x.strikes = Credit(mid.strikes, provider, 1)
      /\ x.tasks = [mid.tasks EXCEPT ![t] = [@ EXCEPT !.status = "Failed"]]
  <2> HIDE DEF mid
  <2> QED BY <1>4 DEF penalise, mid, State
<1> HIDE DEF x, mid
<1>6. /\ x.tasks[t] = sub /\ sub # None /\ sub.provider = provider
      /\ sub.claim_stake = s.tasks[t].claim_stake
      /\ \A v \in Task : v # t => x.tasks[v] = s.tasks[v]
  <2>1. sub \in Submission
    BY <1>1, SubmissionType DEF Submission, TaskStatus
  <2>2. /\ sub # None /\ sub.provider = provider
        /\ sub.claim_stake = s.tasks[t].claim_stake
    BY <1>1, <2>1, SubmissionType, NoneAssumption DEF Submission
  <2> HIDE DEF sub
  <2>3. x.tasks = [s.tasks EXCEPT ![t] = sub]
    BY <1>3, <1>5 DEF sub
  <2> QED BY <2>2, <2>3, FieldType
<1> HIDE DEF sub
<1>7. \A v \in Task, a \in Identity : stake_term(x, v, a) = stake_term(s, v, a)
  BY <1>1, <1>3, <1>5, <1>6 DEF stake_term, provider
<1>8. ASSUME NEW a \in Identity, a # provider
      PROVE  /\ reward_to = None => punished[a] >= s.balance[a]
             /\ reward_to # None =>
                  Credit(punished, reward_to, reward)[a] >= s.balance[a]
  <2>1. s.balance \in [Identity -> Nat] /\ s.tasks[t].requester \in Identity
    BY <1>1, FieldType, SubmissionType
  <2>2. repaid[a] >= s.balance[a] /\ repaid[a] \in Nat /\ DOMAIN repaid = Identity
    BY <2>1 DEF Credit
  <2>3. punished[a] = repaid[a] /\ DOMAIN punished = Identity
    BY <1>8, <2>2 DEF Debit
  <2> HIDE DEF punished, repaid
  <2>4. ASSUME reward_to # None
        PROVE  /\ Credit(punished, reward_to, reward)[a] \in Nat
               /\ Credit(punished, reward_to, reward)[a] >= punished[a]
    BY <2>2, <2>3, <2>4 DEF Credit
  <2>5. s.balance[a] \in Nat
    BY <2>1
  <2> QED BY <2>2, <2>3, <2>4, <2>5
<1> HIDE DEF punished, repaid
<1>9. ASSUME NEW a \in Identity
      PROVE  /\ x.bonded[a] <= s.bonded[a]
             /\ x.strikes[a] = 0 => /\ s.strikes[a] = 0
                                    /\ x.bonded[a] = s.bonded[a]
                                    /\ x.balance[a] >= s.balance[a]
  <2>1. /\ s.bonded \in [Identity -> Nat] /\ s.strikes \in [Identity -> Nat]
        /\ s.bonded[a] \in Nat /\ s.strikes[a] \in Nat
    BY FieldType
  <2>2. recovered + fine_avail \in Nat
    OBVIOUS
  <2>3. CASE a = provider
    <3>1. /\ x.bonded[a] = s.bonded[a] - (recovered + fine_avail)
          /\ x.strikes[a] = s.strikes[a] + 1
      BY <1>3, <1>5, <2>1, <2>3 DEF Credit, Debit
    <3> QED BY <2>1, <2>2, <3>1
  <2>4. CASE a # provider
    <3>1. x.bonded[a] = s.bonded[a] /\ x.strikes[a] = s.strikes[a]
      BY <1>3, <1>5, <2>1, <2>4 DEF Credit, Debit
    <3>2. x.balance[a] >= s.balance[a]
      BY <1>3, <1>5, <1>8, <2>4
    <3> QED BY <2>1, <3>1, <3>2
  <2> QED BY <2>3, <2>4
<1> QED BY <1>3, <1>5, <1>7, <1>9 DEF Judges, x

\* resolve_fraud, which may change nothing.
LEMMA ResolveFraudJudges ==
  ASSUME NEW s \in State, Agree(s), NEW t \in Task,
         NEW reward_to \in Identity \cup {None}
  PROVE  Judges(s, resolve_fraud(s, t, reward_to))
<1>1. Judges(s, s)
  BY FieldType DEF Judges
<1> QED BY <1>1, PenaliseJudges DEF resolve_fraud

\* A verdict leaves every lock.
LEMMA JudgesLock ==
  ASSUME NEW s, NEW x, Judges(s, x), NEW a \in Identity
  PROVE  lock(x, a) = lock(s, a)
<1>1. \A t \in Task : lock_term(x, t, a) = lock_term(s, t, a)
  BY DEF Judges, lock_term, bond_term
<1>2. [t \in Task |-> lock_term(x, t, a)] = [t \in Task |-> lock_term(s, t, a)]
  BY <1>1
<1> QED BY <1>2 DEF lock

\* A verdict keeps the bonds.
LEMMA JudgesBonded ==
  ASSUME NEW s \in State, NEW x \in State, Bonded(s), Judges(s, x)
  PROVE  Bonded(x)
<1>1. ASSUME NEW a \in Identity
      PROVE  /\ x.bonded[a] <= lock(x, a)
             /\ x.strikes[a] = 0 => x.bonded[a] = lock(x, a)
  <2>1. /\ x.bonded[a] \in Nat /\ s.bonded[a] \in Nat /\ lock(s, a) \in Nat
        /\ lock(x, a) = lock(s, a)
    BY FieldType, LockIs, JudgesLock
  <2> QED BY <2>1 DEF Judges, Bonded
<1> QED BY <1>1 DEF Bonded

\* A closed challenge no longer locks its bond.
LEMMA ClosedLock ==
  ASSUME NEW s \in State, NEW t \in Task, s.pending_challenges[t] # None
  PROVE  LET ch == s.pending_challenges[t].challenger
             c  == closed(s, t)
         IN /\ c.bonded = s.bonded /\ c.strikes = s.strikes /\ c.balance = s.balance
            /\ lock(c, ch) = lock(s, ch) - s.pending_challenges[t].bond
            /\ \A a \in Identity : a # ch => lock(c, a) = lock(s, a)
<1> DEFINE pc == s.pending_challenges[t]
           c  == closed(s, t)
<1>1. /\ c.bonded = s.bonded /\ c.strikes = s.strikes /\ c.balance = s.balance
      /\ c.tasks = s.tasks /\ c.released = s.released
      /\ c.pending_challenges = [s.pending_challenges EXCEPT ![t] = None]
  BY DEF closed, State
<1>2. c \in State /\ pc.challenger \in Identity /\ pc.bond \in Nat
  BY ClosedType, PendingType
<1> HIDE DEF c
<1>3. /\ c.pending_challenges[t] = None
      /\ \A v \in Task : v # t => c.pending_challenges[v] = s.pending_challenges[v]
  BY <1>1, FieldType
<1>4. ASSUME NEW a \in Identity
      PROVE  lock(c, a) = lock(s, a) - (IF a = pc.challenger THEN pc.bond ELSE 0)
  <2>1. \A v \in Task : stake_term(c, v, a) = stake_term(s, v, a)
    BY <1>1 DEF stake_term
  <2>2. \A v \in Task : v # t => lock_term(c, v, a) = lock_term(s, v, a)
    BY <1>3, <2>1 DEF lock_term, bond_term
  <2>3. lock(c, a) = lock(s, a) + lock_term(c, t, a) - lock_term(s, t, a)
    BY <1>2, <2>2, LockChange
  <2>4. /\ bond_term(c, t, a) = 0
        /\ bond_term(s, t, a) = IF a = pc.challenger THEN pc.bond ELSE 0
    BY <1>3 DEF bond_term
  <2>5. stake_term(s, t, a) \in Nat /\ lock(s, a) \in Nat
    BY LockTermType, LockIs
  <2> HIDE DEF pc
  <2> QED BY <1>2, <2>1, <2>3, <2>4, <2>5 DEF lock_term
<1>5. lock(s, pc.challenger) \in Nat /\ \A a \in Identity : lock(s, a) \in Nat
  BY <1>2, LockIs
<1> QED BY <1>1, <1>2, <1>4, <1>5 DEF c

\* What resolve_challenge does, over the verdict in it.
LEMMA CloseChallengeDoes ==
  ASSUME NEW s \in State, Agree(s), NEW t \in Task, NEW fraud \in BOOLEAN,
         s.pending_challenges[t] # None
  PROVE  LET ch == s.pending_challenges[t].challenger
             j  == judged(s, t, fraud)
             x  == close_challenge(s, t, fraud)
             b  == returned(s, t, fraud)
         IN /\ Judges(closed(s, t), j) /\ j \in State /\ x \in State
            /\ ch \in Identity /\ b \in Nat
            /\ b = Least(s.pending_challenges[t].bond, j.bonded[ch])
            /\ x.bonded = Debit(j.bonded, ch, b)
            /\ x.balance = IF fraud THEN Credit(j.balance, ch, b) ELSE j.balance
            /\ x.strikes = j.strikes /\ x.tasks = j.tasks /\ x.released = j.released
            /\ x.pending_challenges = j.pending_challenges /\ x.slashed = j.slashed
<1> DEFINE ch == s.pending_challenges[t].challenger
           c  == closed(s, t)
           j  == judged(s, t, fraud)
           x  == close_challenge(s, t, fraud)
           b  == returned(s, t, fraud)
<1>1. Submitted(s) /\ ch \in Identity
  BY AgreeSubmitted, PendingType
<1>2. c \in State /\ Agree(c)
  BY ClosedType, ClosedAgree
<1>3. Judges(c, j)
  <2>1. Judges(c, c)
    BY <1>2, FieldType DEF Judges
  <2> QED BY <1>1, <1>2, <2>1, ResolveFraudJudges DEF judged
<1>4. j \in State /\ b \in Nat /\ x \in State
  BY <1>1, JudgedType, CloseChallengeType
<1>5. b = Least(s.pending_challenges[t].bond, j.bonded[ch])
  BY DEF returned
<1>6. /\ x.bonded = Debit(j.bonded, ch, b)
      /\ x.balance = IF fraud THEN Credit(j.balance, ch, b)
                     ELSE j.balance
      /\ x.strikes = j.strikes /\ x.tasks = j.tasks /\ x.released = j.released
      /\ x.pending_challenges = j.pending_challenges /\ x.slashed = j.slashed
  <2> DEFINE bonded  == Debit(j.bonded, ch, b)
             balance == IF fraud THEN Credit(j.balance, ch, b) ELSE j.balance
             burned  == IF fraud THEN j.burned ELSE j.burned + b
  <2> HIDE DEF j, b, x, ch
  <2>1. x = [j EXCEPT !.bonded = bonded, !.balance = balance, !.burned = burned]
    <3>1. x = [j EXCEPT !.bonded  = Debit(@, ch, b),
                        !.balance = IF fraud THEN Credit(@, ch, b) ELSE @,
                        !.burned  = IF fraud THEN @ ELSE @ + b]
      BY CloseChallengeIs DEF x, j, b, ch
    <3> QED BY <1>4, <3>1 DEF State
  <2> HIDE DEF bonded, balance, burned
  <2>2. /\ x.bonded = bonded /\ x.balance = balance
        /\ x.strikes = j.strikes /\ x.tasks = j.tasks /\ x.released = j.released
        /\ x.pending_challenges = j.pending_challenges /\ x.slashed = j.slashed
    BY <1>4, <2>1 DEF State
  <2> QED BY <2>2 DEF bonded, balance
<1> HIDE DEF c, j, x, b
<1> QED BY <1>1, <1>3, <1>4, <1>5, <1>6 DEF c, j, x, b

\* The bond comes back, or burns, as far as it is still bonded.
LEMMA CloseChallengeBonded ==
  ASSUME NEW s \in State, Agree(s), Bonded(s), NEW t \in Task, NEW fraud \in BOOLEAN,
         s.pending_challenges[t] # None
  PROVE  Bonded(close_challenge(s, t, fraud))
<1> DEFINE x    == close_challenge(s, t, fraud)
           c    == closed(s, t)
           j    == judged(s, t, fraud)
           b    == returned(s, t, fraud)
           ch   == s.pending_challenges[t].challenger
           bond == s.pending_challenges[t].bond
<1>1. /\ Judges(c, j) /\ j \in State /\ x \in State /\ ch \in Identity
      /\ b = Least(bond, j.bonded[ch]) /\ x.bonded = Debit(j.bonded, ch, b)
      /\ x.strikes = j.strikes /\ x.tasks = j.tasks /\ x.released = j.released
      /\ x.pending_challenges = j.pending_challenges
  BY CloseChallengeDoes
<1>2. /\ c.bonded = s.bonded /\ c.strikes = s.strikes
      /\ lock(c, ch) = lock(s, ch) - bond
      /\ \A a \in Identity : a # ch => lock(c, a) = lock(s, a)
  BY ClosedLock
<1>3. bond \in Nat /\ c \in State /\ bond_term(s, t, ch) = bond
  BY PendingType, ClosedType DEF bond_term
<1> HIDE DEF x, c, j, b, ch, bond
<1>4. ASSUME NEW a \in Identity PROVE lock(x, a) = lock(c, a)
  <2>1. \A v \in Task : lock_term(x, v, a) = lock_term(j, v, a)
    BY <1>1 DEF lock_term, stake_term, bond_term
  <2>2. [v \in Task |-> lock_term(x, v, a)] = [v \in Task |-> lock_term(j, v, a)]
    BY <2>1
  <2> QED BY <1>1, <2>2, JudgesLock DEF lock
<1>5. ASSUME NEW a \in Identity
      PROVE  /\ x.bonded[a] <= lock(x, a)
             /\ x.strikes[a] = 0 => x.bonded[a] = lock(x, a)
  <2>1. /\ j.bonded \in [Identity -> Nat] /\ j.bonded[a] \in Nat
        /\ s.bonded[a] \in Nat /\ lock(s, a) \in Nat
        /\ lock(c, a) \in Nat
    BY <1>1, <1>3, FieldType, LockIs
  <2>2. /\ j.bonded[a] <= s.bonded[a]
        /\ x.strikes[a] = 0 => s.strikes[a] = 0 /\ j.bonded[a] = s.bonded[a]
    BY <1>1, <1>2 DEF Judges
  <2>3. /\ s.bonded[a] <= lock(s, a)
        /\ s.strikes[a] = 0 => s.bonded[a] = lock(s, a)
    BY DEF Bonded
  <2>4. CASE a = ch
    <3>1. x.bonded[a] = j.bonded[a] - Least(bond, j.bonded[a])
      BY <1>1, <2>1, <2>4 DEF Debit
    <3>2. lock(x, a) = lock(s, a) - bond
      BY <1>2, <1>4, <2>4
    <3>3. lock(s, a) - bond \in Nat
      BY <1>4, <2>1, <3>2
    <3> QED BY <1>3, <2>1, <2>2, <2>3, <3>1, <3>2, <3>3 DEF Least
  <2>5. CASE a # ch
    <3>1. x.bonded[a] = j.bonded[a] /\ lock(x, a) = lock(s, a)
      BY <1>1, <1>2, <1>4, <2>1, <2>5 DEF Debit
    <3> QED BY <2>1, <2>2, <2>3, <3>1
  <2> QED BY <2>4, <2>5
<1> QED BY <1>5 DEF Bonded, x

\* The invariant: sound, and bonded.
BondInv == IInv /\ Bonded(ledger)

\* Every step keeps the bonds.
LEMMA NextBonded ==
  ASSUME IInv, Bonded(ledger), [Next]_ledger
  PROVE  Bonded(ledger')
<1>1. ledger \in State /\ Agree(ledger) /\ Submitted(ledger)
  BY AgreeSubmitted DEF IInv, Sound
<1>2. ASSUME NEW a \in Identity, NEW s \in State, Bonded(s), Apply(a, s)
      PROVE  Bonded(ledger')
  BY <1>2, PlainBonded DEF Apply
<1>3. CASE SubmitTask
  BY <1>1, <1>2, <1>3, SubmitTaskType, SubmitTaskBonded DEF SubmitTask
<1>4. CASE ClaimTask
  BY <1>1, <1>2, <1>4, ClaimTaskType, ClaimTaskBonded DEF ClaimTask
<1>5. CASE SubmitProof
  <2>1. PICK a \in Identity, t \in Task, proof \in ComputeProof :
          /\ CanSubmitProof(ledger, a, t, proof)
          /\ Apply(a, submit_proof(ledger, t, proof))
    BY <1>5 DEF SubmitProof
  <2>2. submit_proof(ledger, t, proof) \in State
    BY <2>1, SubmitProofSound DEF IInv, Sound
  <2>3. Bonded(submit_proof(ledger, t, proof))
    BY <1>1, <2>1, SubmitProofBonded
  <2> QED BY <1>2, <2>1, <2>2, <2>3
<1>6. CASE Challenge
  BY <1>1, <1>2, <1>6, OpenChallengeType, OpenChallengeBonded DEF Challenge
<1>7. CASE Transfer
  BY <1>1, <1>2, <1>7, TransferType, PlainBonded DEF Transfer
<1>8. CASE AdvanceEpoch
  BY <1>1, <1>8, AdvanceEpochBonded DEF AdvanceEpoch
<1>9. CASE ResolveChallenge
  BY <1>1, <1>9, CloseChallengeBonded DEF ResolveChallenge, resolve_challenge
<1>10. CASE SamplingAudit
  BY <1>1, <1>10, ResolveFraudJudges, ResolveFraudType, JudgesBonded DEF SamplingAudit
<1>11. CASE UNCHANGED ledger
  BY <1>11
<1> QED BY <1>3, <1>4, <1>5, <1>6, <1>7, <1>8, <1>9, <1>10, <1>11 DEF Next

\* Before the first claim nothing is bonded.
LEMMA GenesisBonded == Bonded(genesis)
<1>1. ASSUME NEW a \in Identity
      PROVE  genesis.bonded[a] = 0 /\ lock(genesis, a) = 0
  <2> DEFINE f == [t \in Task |-> lock_term(genesis, t, a)]
  <2>1. f \in [Task -> Int] /\ \A t \in Task : f[t] = 0
    BY DEF lock_term, stake_term, bond_term, genesis, nothing
  <2>2. lock(genesis, a) = SumFunction(f)
    BY DEF lock
  <2> HIDE DEF f
  <2>3. lock(genesis, a) = 0
    BY <2>1, <2>2, TaskAssumption, SumFunctionZero
  <2> QED BY <2>3 DEF genesis, nobody
<1> QED BY <1>1 DEF Bonded

\* The invariant of the bonds.
LEMMA BondInvariant == Spec => []BondInv
<1>1. Init => BondInv
  BY GenesisSound, GenesisBonded DEF Init, BondInv, IInv
<1>2. BondInv /\ [Next]_ledger => BondInv'
  BY NextSound, NextBonded DEF BondInv
<1> QED BY <1>1, <1>2, PTL DEF Spec

\* What an account has bonded never exceeds what it locked, and is all of it for an
\* account that was never slashed.
THEOREM BondBacking == Spec => []BondsBacked
<1>1. BondInv => BondsBacked
  BY LockIs DEF BondInv, IInv, Sound, Bonded, BondsBacked
<1> QED BY <1>1, BondInvariant, PTL

-----------------------------------------------------------------------------
(***************************************************************************)
(* What a proven fraud pays.                                               *)
(***************************************************************************)
\* No transaction and no epoch slashes.
LEMMA OnlyVerdictsSlash ==
  ASSUME IInv, Next, ledger'.slashed # ledger.slashed
  PROVE  ResolveChallenge \/ SamplingAudit
<1>1. ledger \in State
  BY DEF IInv, Sound
<1>2. ASSUME NEW a, NEW s \in State, s.slashed = ledger.slashed, Apply(a, s)
      PROVE  ledger'.slashed = ledger.slashed
  BY <1>2 DEF Apply, bump_nonce, State
<1>3. ~ SubmitTask
  <2>1. \A a, t : submit_task(ledger, a, t).slashed = ledger.slashed
    BY <1>1 DEF submit_task, State
  <2> QED BY <1>1, <1>2, <2>1, SubmitTaskType DEF SubmitTask
<1>4. ~ ClaimTask
  <2>1. \A a, t : claim_task(ledger, a, t).slashed = ledger.slashed
    BY <1>1 DEF claim_task, State
  <2> QED BY <1>1, <1>2, <2>1, ClaimTaskType DEF ClaimTask
<1>5. ~ SubmitProof
  <2>1. SUFFICES ASSUME NEW a \in Identity, NEW t \in Task, NEW proof \in ComputeProof,
                        CanSubmitProof(ledger, a, t, proof),
                        Apply(a, submit_proof(ledger, t, proof))
                 PROVE  FALSE
    BY DEF SubmitProof
  <2>2. ledger.tasks[t] # None
    BY <2>1 DEF CanSubmitProof, status
  <2>3. submit_proof(ledger, t, proof).slashed = ledger.slashed
    <3>1. ProofSubmitted(ledger, submit_proof(ledger, t, proof), t, proof)
      BY <1>1, <2>2, SubmitProofFields
    <3> QED BY <3>1 DEF ProofSubmitted
  <2>4. submit_proof(ledger, t, proof) \in State
    BY <2>1, SubmitProofSound DEF IInv, Sound
  <2> QED BY <1>2, <2>1, <2>3, <2>4
<1>6. ~ Challenge
  <2>1. \A a, t, bond : open_challenge(ledger, a, t, bond).slashed = ledger.slashed
    BY <1>1 DEF open_challenge, State
  <2> QED BY <1>1, <1>2, <2>1, OpenChallengeType DEF Challenge
<1>7. ~ Transfer
  <2>1. \A a, to, amount : transfer(ledger, a, to, amount).slashed = ledger.slashed
    BY <1>1 DEF transfer, State
  <2> QED BY <1>1, <1>2, <2>1, TransferType DEF Transfer
<1>8. ~ AdvanceEpoch
  BY <1>1 DEF AdvanceEpoch, advance_epoch, State
<1> QED BY <1>3, <1>4, <1>5, <1>6, <1>7, <1>8 DEF Next

\* resolve_fraud slashes its task only, pays the requester out of the bond, and
\* leaves the challenges.
LEMMA ResolveFraudPays ==
  ASSUME NEW s \in State, Agree(s), NEW t \in Task,
         NEW reward_to \in Identity \cup {None}
  PROVE  LET x         == resolve_fraud(s, t, reward_to)
             provider  == s.tasks[t].provider
             requester == s.tasks[t].requester
         IN /\ x \in State /\ x.pending_challenges = s.pending_challenges
            /\ \A v \in Task : slashed_now(s, x, v) => v = t
            /\ slashed_now(s, x, t) /\ requester # provider =>
                 x.balance[requester] >= s.balance[requester]
                   + Least(s.receipts[t].paid_to_provider, s.bonded[provider])
<1> DEFINE x          == resolve_fraud(s, t, reward_to)
           mid        == take_fraud_penalties(s, t, reward_to)
           provider   == s.tasks[t].provider
           requester  == s.tasks[t].requester
           p          == s.receipts[t].paid_to_provider
           recovered  == Least(p, s.bonded[provider])
           repaid     == Credit(s.balance, requester, recovered)
           burn_w     == Least(s.receipts[t].work_issuance, repaid[provider])
           fine_avail == Least(fine(p), s.bonded[provider] - recovered)
           reward     == Least(challenger_reward(fine(p)), fine_avail)
           punished   == Debit(repaid, provider, burn_w)
<1>1. x \in State
  BY AgreeSubmitted, ResolveFraudType
<1>2. CASE ~ CanResolveFraud(s, t)
  BY <1>1, <1>2 DEF resolve_fraud, slashed_now
<1>3. CASE CanResolveFraud(s, t)
  <2>1. /\ s.tasks[t] # None /\ s.receipts[t] # None
        /\ provider \in Identity /\ requester \in Identity /\ p \in Nat
        /\ fine(p) \in Nat /\ challenger_reward(fine(p)) \in Nat
    BY <1>3, StatusCases, SubmissionType, ReceiptType, AmountType
    DEF CanResolveFraud, Agree
  <2>2. mid \in State
    BY <1>3, <2>1, FraudPenaltiesType DEF CanResolveFraud
  <2>3. /\ mid.balance = IF reward_to = None THEN punished
                         ELSE Credit(punished, reward_to, reward)
        /\ mid.slashed = s.slashed /\ mid.pending_challenges = s.pending_challenges
    BY DEF take_fraud_penalties, State
  <2>4. x = penalise(s, t, reward_to)
    BY <1>3 DEF resolve_fraud
  <2>5. /\ x.balance = mid.balance /\ x.pending_challenges = mid.pending_challenges
        /\ x.slashed = mid.slashed \cup {t}
    <3> HIDE DEF mid, x
    <3> QED BY <2>2, <2>4 DEF penalise, mid, State
  <2>6. s.bonded[provider] \in Nat /\ s.balance \in [Identity -> Nat]
    BY <2>1, FieldType
  <2>7. recovered \in Nat /\ s.bonded[provider] - recovered \in Nat
    BY <2>1, <2>6, LeastType
  <2> HIDE DEF x, mid, provider, requester, p, recovered
  <2>8. fine_avail \in Nat
    BY <2>1, <2>7, LeastType
  <2>9. reward \in Nat
    <3> HIDE DEF fine_avail
    <3> QED BY <2>1, <2>8, LeastType
  <2>10. ASSUME requester # provider
         PROVE  /\ punished[requester] = s.balance[requester] + recovered
                /\ DOMAIN punished = Identity
    <3>1. /\ repaid[requester] = s.balance[requester] + recovered
          /\ DOMAIN repaid = Identity
      BY <2>1, <2>6 DEF Credit
    <3> HIDE DEF repaid, burn_w
    <3> QED BY <2>1, <2>10, <3>1 DEF Debit
  <2>11. s.balance[requester] + recovered \in Nat
    BY <2>1, <2>6, <2>7
  <2> HIDE DEF fine_avail, reward, punished
  <2>12. ASSUME requester # provider
         PROVE  mid.balance[requester] >= s.balance[requester] + recovered
    <3>1. CASE reward_to = None
      BY <2>3, <2>10, <2>11, <2>12, <3>1
    <3>2. CASE reward_to # None
      <4>1. Credit(punished, reward_to, reward)[requester]
              \in {punished[requester], punished[requester] + reward}
        BY <2>1, <2>10, <2>12 DEF Credit
      <4> QED BY <2>3, <2>9, <2>10, <2>11, <2>12, <3>2, <4>1
    <3> QED BY <3>1, <3>2
  <2>13. \A v \in Task : slashed_now(s, x, v) => v = t
    BY <2>3, <2>5 DEF slashed_now
  <2> QED BY <1>1, <2>3, <2>5, <2>12, <2>13 DEF x, provider, requester, p, recovered
<1> QED BY <1>2, <1>3

\* The stake of a settled task that is not released is still bonded, unless its
\* provider was struck.
Covered(s) ==
  \A t \in Task :
    (/\ s.receipts[t] # None /\ s.epoch < s.receipts[t].clawback_until
     /\ s.strikes[s.tasks[t].provider] = 0)
    => s.tasks[t].claim_stake <= s.bonded[s.tasks[t].provider]

\* The bonds cover the stakes.
LEMMA BondedCovers ==
  ASSUME NEW s \in State, Agree(s), Bonded(s)
  PROVE  Covered(s)
<1>1. SUFFICES ASSUME NEW t \in Task, s.receipts[t] # None,
                      s.epoch < s.receipts[t].clawback_until,
                      s.strikes[s.tasks[t].provider] = 0
               PROVE  s.tasks[t].claim_stake <= s.bonded[s.tasks[t].provider]
  BY DEF Covered
<1> DEFINE a == s.tasks[t].provider
<1>2. /\ s.tasks[t] # None /\ a \in Identity /\ s.tasks[t].claim_stake \in Nat
  BY <1>1, StatusCases, SubmissionType DEF Agree
<1>3. t \notin s.released
  <2>1. records_agree(s, t) /\ s.receipts[t].clawback_until \in Nat /\ s.epoch \in Nat
    BY <1>1, ReceiptType, FieldType DEF Agree
  <2> QED BY <1>1, <2>1 DEF records_agree
<1>4. s.bonded[a] = lock(s, a) /\ lock_term(s, t, a) <= lock(s, a) /\ lock(s, a) \in Nat
  BY <1>1, <1>2, LockIs DEF Bonded
<1>5. stake_term(s, t, a) = s.tasks[t].claim_stake /\ bond_term(s, t, a) \in Nat
  BY <1>2, <1>3, LockTermType DEF stake_term
<1> HIDE DEF a
<1> QED BY <1>2, <1>4, <1>5 DEF lock_term, a

\* A fraud that resolve_fraud proves repays the requester.
LEMMA ResolveFraudClawsBack ==
  ASSUME NEW s \in State, Agree(s), Covered(s), NEW t \in Task,
         NEW reward_to \in Identity \cup {None}, NEW v \in Task
  PROVE  clawed_back(s, resolve_fraud(s, t, reward_to), v)
<1> DEFINE x         == resolve_fraud(s, t, reward_to)
           provider  == s.tasks[t].provider
           requester == s.tasks[t].requester
           paid      == s.receipts[t].paid_to_provider
           staked    == s.tasks[t].claim_stake
<1>1. SUFFICES ASSUME v = t, slashed_now(s, x, t),
                      s.epoch < s.receipts[t].clawback_until,
                      requester # provider, s.strikes[provider] = 0
               PROVE  x.balance[requester] >= s.balance[requester] + Least(paid, staked)
  BY ResolveFraudPays DEF clawed_back
<1>2. s.receipts[t] # None /\ s.tasks[t] # None /\ provider # None
  <2>1. CanResolveFraud(s, t)
    BY <1>1 DEF slashed_now, resolve_fraud
  <2> QED BY <2>1, StatusCases DEF CanResolveFraud, Agree
<1>3. /\ provider \in Identity /\ requester \in Identity /\ staked <= s.bonded[provider]
      /\ paid \in Nat /\ staked \in Nat
  BY <1>1, <1>2, SubmissionType, ReceiptType DEF Covered
<1>4. /\ s.bonded[provider] \in Nat /\ s.balance[requester] \in Nat
      /\ x.balance[requester] \in Nat
  BY <1>3, FieldType, ResolveFraudPays
<1>5. x.balance[requester]
        >= s.balance[requester] + Least(paid, s.bonded[provider])
  BY <1>1, ResolveFraudPays
<1> HIDE DEF x, provider, requester, paid, staked
<1> QED BY <1>3, <1>4, <1>5 DEF Least

\* resolve_challenge pays the requester through resolve_fraud, and gives the bond
\* back on top.
LEMMA CloseChallengePays ==
  ASSUME NEW s \in State, Agree(s), Bonded(s), NEW t \in Task, NEW fraud \in BOOLEAN,
         s.pending_challenges[t] # None, NEW v \in Task
  PROVE  /\ clawed_back(s, close_challenge(s, t, fraud), v)
         /\ made_whole(s, close_challenge(s, t, fraud), v)
<1> DEFINE x    == close_challenge(s, t, fraud)
           c    == closed(s, t)
           j    == judged(s, t, fraud)
           b    == returned(s, t, fraud)
           ch   == s.pending_challenges[t].challenger
           bond == s.pending_challenges[t].bond
<1>1. /\ Judges(c, j) /\ j \in State /\ x \in State /\ ch \in Identity /\ b \in Nat
      /\ b = Least(bond, j.bonded[ch])
      /\ x.balance = IF fraud THEN Credit(j.balance, ch, b) ELSE j.balance
      /\ x.strikes = j.strikes /\ x.slashed = j.slashed
  BY CloseChallengeDoes
<1>2. /\ c.bonded = s.bonded /\ c.strikes = s.strikes /\ c.balance = s.balance
      /\ c.tasks = s.tasks /\ c.receipts = s.receipts /\ c.slashed = s.slashed
      /\ c.epoch = s.epoch
  BY DEF closed, State
<1>3. c \in State /\ Agree(c) /\ bond \in Nat
  BY ClosedType, ClosedAgree, PendingType
<1>4. Covered(c)
  <2>1. Covered(s)
    BY BondedCovers
  <2> HIDE DEF c
  <2> QED BY <1>2, <2>1 DEF Covered
<1>5. /\ fraud => j = resolve_fraud(c, t, ch)
      /\ ~ fraud => j = c
  BY DEF judged
<1> HIDE DEF x, c, j, b
<1>6. slashed_now(s, x, v) => slashed_now(c, j, v) /\ v = t /\ fraud
  <2>1. slashed_now(s, x, v) => slashed_now(c, j, v)
    BY <1>1, <1>2 DEF slashed_now
  <2>2. slashed_now(c, j, v) => fraud
    BY <1>5 DEF slashed_now
  <2>3. fraud /\ slashed_now(c, j, v) => v = t
    BY <1>1, <1>3, <1>5, ResolveFraudPays
  <2> QED BY <2>1, <2>2, <2>3
<1>7. clawed_back(s, x, v)
  <2> DEFINE requester == s.tasks[v].requester
             provider  == s.tasks[v].provider
             back == Least(s.receipts[v].paid_to_provider, s.tasks[v].claim_stake)
  <2>1. SUFFICES ASSUME slashed_now(s, x, v),
                        s.epoch < s.receipts[v].clawback_until,
                        requester # provider, s.strikes[provider] = 0
                 PROVE  x.balance[requester] >= s.balance[requester] + back
    BY DEF clawed_back
  <2>2. fraud /\ slashed_now(c, j, v)
    BY <1>6, <2>1
  <2>3. clawed_back(c, j, v)
    BY <1>1, <1>3, <1>4, <1>5, <2>2, ResolveFraudClawsBack
  <2>4. j.balance[requester] >= s.balance[requester] + back
    BY <1>2, <2>1, <2>2, <2>3 DEF clawed_back
  <2>5. s.receipts[v] # None /\ s.tasks[v] # None
    <3>1. CanResolveFraud(c, v)
      BY <1>5, <1>6, <2>1, <2>2 DEF slashed_now, resolve_fraud
    <3> QED BY <1>2, <3>1, StatusCases DEF CanResolveFraud, Agree
  <2>6. /\ requester \in Identity /\ back \in Nat /\ s.balance[requester] \in Nat
        /\ j.balance \in [Identity -> Nat]
    BY <1>1, <2>5, SubmissionType, ReceiptType, LeastType, FieldType
  <2> HIDE DEF requester, back
  <2>7. x.balance = Credit(j.balance, ch, b)
    BY <1>1, <2>2
  <2>8. x.balance[requester] \in {j.balance[requester], j.balance[requester] + b}
    BY <1>1, <2>6, <2>7 DEF Credit
  <2>9. j.balance[requester] \in Nat /\ b \in Nat
    BY <1>1, <2>6
  <2>10. x.balance[requester] >= j.balance[requester]
    BY <2>8, <2>9
  <2> QED BY <2>4, <2>6, <2>8, <2>9, <2>10
<1>8. made_whole(s, x, v)
  <2>1. SUFFICES ASSUME v = t, fraud, x.strikes[ch] = 0
                 PROVE  x.balance[ch] >= s.balance[ch] + bond
    BY <1>6 DEF made_whole
  <2>2. /\ s.strikes[ch] = 0 /\ j.bonded[ch] = s.bonded[ch]
        /\ j.balance[ch] >= s.balance[ch]
    BY <1>1, <1>2, <2>1 DEF Judges
  <2>3. bond <= s.bonded[ch]
    <3>1. s.bonded[ch] = lock(s, ch) /\ lock_term(s, t, ch) <= lock(s, ch)
          /\ lock(s, ch) \in Nat
      BY <1>1, <2>2, LockIs DEF Bonded
    <3>2. bond_term(s, t, ch) = bond /\ stake_term(s, t, ch) \in Nat
      BY LockTermType DEF bond_term
    <3> HIDE DEF bond
    <3> QED BY <1>3, <3>1, <3>2 DEF lock_term
  <2>4. /\ s.bonded[ch] \in Nat /\ s.balance[ch] \in Nat
        /\ j.balance \in [Identity -> Nat] /\ j.balance[ch] \in Nat
    BY <1>1, FieldType
  <2> HIDE DEF ch, bond
  <2>5. b = bond
    BY <1>1, <1>3, <2>2, <2>3, <2>4 DEF Least
  <2>6. x.balance[ch] = j.balance[ch] + b
    BY <1>1, <2>1, <2>4 DEF Credit
  <2> QED BY <1>3, <2>2, <2>4, <2>5, <2>6
<1> QED BY <1>7, <1>8 DEF x

\* Every step that slashes pays.
LEMMA NextPays ==
  ASSUME IInv, Bonded(ledger), [Next]_ledger, NEW v \in Task
  PROVE  clawed_back(ledger, ledger', v) /\ made_whole(ledger, ledger', v)
<1>1. ledger \in State /\ Agree(ledger)
  BY DEF IInv, Sound
<1>2. CASE ledger'.slashed = ledger.slashed
  BY <1>2 DEF clawed_back, made_whole, slashed_now
<1>3. CASE ledger'.slashed # ledger.slashed
  <2>1. ResolveChallenge \/ SamplingAudit
    BY <1>3, OnlyVerdictsSlash
  <2>2. CASE ResolveChallenge
    BY <1>1, <2>2, CloseChallengePays DEF ResolveChallenge, resolve_challenge
  <2>3. CASE SamplingAudit
    <3>1. PICK t \in Task : ledger' = resolve_fraud(ledger, t, None)
      BY <2>3 DEF SamplingAudit
    <3>2. clawed_back(ledger, ledger', v)
      BY <1>1, <3>1, BondedCovers, ResolveFraudClawsBack
    <3>3. ledger'.pending_challenges = ledger.pending_challenges
      BY <1>1, <3>1, ResolveFraudPays
    <3> QED BY <3>2, <3>3 DEF made_whole
  <2> QED BY <2>1, <2>2, <2>3
<1> QED BY <1>2, <1>3

\* An unpunished challenger who proves fraud gets the whole bond back.
THEOREM ChallengerMadeWhole == Spec => HonestChallengerMadeWhole
<1>1. BondInv /\ [Next]_ledger
        => [\A t \in Task : made_whole(ledger, ledger', t)]_ledger
  BY NextPays DEF BondInv
<1> QED BY <1>1, BondInvariant, PTL DEF Spec, HonestChallengerMadeWhole

\* A fraud that is proven in time repays the requester as far as the stake goes.
THEOREM RequesterClawsBack == Spec => ClawbackReachesRequester
<1>1. BondInv /\ [Next]_ledger
        => [\A t \in Task : clawed_back(ledger, ledger', t)]_ledger
  BY NextPays DEF BondInv
<1> QED BY <1>1, BondInvariant, PTL DEF Spec, ClawbackReachesRequester
=============================================================================
