--------------------------- MODULE WorkerTheorems ---------------------------
(***************************************************************************)
(* What the load driver relies on, for any number of workers with the same *)
(* keys, any tasks, any mail of other clients and any restarts: one worker *)
(* drives the tasks (OneDriver), and what a worker counts is what the      *)
(* ledger settled for it (TotalSettled).                                   *)
(***************************************************************************)
EXTENDS Worker, NodeTheorems

-----------------------------------------------------------------------------
(***************************************************************************)
(* The node under the workers.                                             *)
(***************************************************************************)
\* Where a worker can be.
Progress == [ pc         : {"put_program", "loop", "submit", "claim", "prove",
                            "query", "failed", "done"},
              i          : 0..Len(TaskAt),
              prov_nonce : Nat,
              total_ucu  : Nat ]

\* A worker signs with the nonce that its task and its step give.
in_step(at) ==
  /\ at.pc \in {"submit", "claim", "prove", "query"} => at.i < Len(TaskAt)
  /\ at.pc \in {"put_program", "loop", "submit", "claim", "done"} =>
       at.prov_nonce = 2 * at.i
  /\ at.pc = "prove" => at.prov_nonce = 2 * at.i + 1
  /\ at.pc = "query" => at.prov_nonce = 2 * at.i + 2

WorkerInv ==
  /\ NodeInv
  /\ worker \in [Worker -> Progress]
  /\ \A w \in Worker : in_step(worker[w])
  /\ lives \in Nat \ {0}

\* A transaction that is applied while the calls wait is a step of the ledger,
\* takes a nonce of its author, and leaves the node sound.
LEMMA SentKeeps ==
  ASSUME NodeInv, NEW stx \in Sendable, Submit(stx), UNCHANGED rpc
  PROVE  /\ CanApply(ledger, stx) /\ ledger' = apply(ledger, stx)
         /\ ledger'.nonces = Credit(ledger.nonces, stx.author, 1)
         /\ [Next]_ledger /\ NodeInv'
<1>1. ledger \in State /\ Agree(ledger) /\ ledger.slashed \subseteq Task
  BY FieldType DEF NodeInv, IInv, Sound
<1>2. CanApply(ledger, stx) /\ ledger' = apply(ledger, stx)
  BY SubmitIs
<1>3. ledger'.nonces = Credit(ledger.nonces, stx.author, 1)
  BY <1>1, <1>2, AppliedTakesNonce
<1>4. [Next]_ledger
  BY <1>2, AppliedIsStep
<1>5. IInv' /\ \A t \in Task : kept(ledger, ledger', t)
  BY <1>4, NextSound, NextKeeps DEF NodeInv, Step, Kept
<1>6. \A c \in Thread : remembers(ledger', rpc'[c])
  BY <1>4, RemembersStill DEF NodeInv
<1>7. HonestNeverSlashed'
  <2>1. ledger'.slashed = ledger.slashed
    BY <1>1, <1>2, AppliedIsQuiet
  <2>2. \A t \in ledger.slashed : ledger'.proofs[t] = ledger.proofs[t]
    BY <1>1, <1>5, JudgedHasReceipt DEF kept
  <2>3. \A t \in ledger.slashed : ~ honest(t)'
    BY <2>2 DEF NodeInv, HonestNeverSlashed, honest
  <2> QED BY <2>1, <2>3 DEF HonestNeverSlashed
<1> QED BY <1>2, <1>3, <1>4, <1>5, <1>6, <1>7 DEF NodeInv

\* A worker's tasks have outcomes.
LEMMA WorkerOutcome ==
  ASSUME NEW i \in 1..Len(TaskAt)
  PROVE  /\ TaskAt[i] \in Task
         /\ Outcome[TaskAt[i]] \in [ucu_count : Nat, result : Result]
         /\ Outcome[TaskAt[i]].ucu_count \in Nat
         /\ Outcome[TaskAt[i]].result \in Result
<1>1. TaskAt[i] \in Task /\ Outcome[TaskAt[i]] # None
  BY TaskAtAssumption, RoomAssumption
<1>2. Outcome[TaskAt[i]] \in [ucu_count : Nat, result : Result]
  BY <1>1, OutcomeAssumption
<1> QED BY <1>1, <1>2

\* The transactions of a worker are sendable.
LEMMA WorkerTxs ==
  ASSUME NEW at \in Progress, in_step(at), at.i < Len(TaskAt)
  PROVE  LET t == TaskAt[at.i + 1]
             proof == [ provider  |-> prov_key,
                        ucu_count |-> Outcome[t].ucu_count,
                        benchmark |-> Body[t].benchmark,
                        result    |-> Outcome[t].result ]
         IN /\ t \in Task
            /\ sign(req_key, [type |-> "SubmitTask", task |-> t], at.i) \in Sendable
            /\ at.pc = "claim" =>
                 sign(prov_key, [type |-> "ClaimTask", task |-> t], at.prov_nonce)
                   \in Sendable
            /\ at.pc = "prove" =>
                 sign(prov_key, [type |-> "SubmitProof", task |-> t, proof |-> proof],
                      at.prov_nonce) \in Sendable
<1> DEFINE t     == TaskAt[at.i + 1]
           proof == [ provider  |-> prov_key,
                      ucu_count |-> Outcome[t].ucu_count,
                      benchmark |-> Body[t].benchmark,
                      result    |-> Outcome[t].result ]
<1>1. at.i \in Nat /\ Len(TaskAt) \in Nat /\ at.i + 1 \in 1..Len(TaskAt)
  BY TaskAtAssumption DEF Progress
<1>2. t \in Task /\ Outcome[t].ucu_count \in Ucu
  BY <1>1, TaskAtAssumption, RoomAssumption
<1>3. proof \in ComputeProof
  <2>1. Outcome[t].result \in Result
    BY <1>1, WorkerOutcome
  <2> HIDE DEF t
  <2> QED BY <1>2, <2>1, BodyType, KeyAssumption DEF ComputeProof
<1>4. \A n \in Nat, key \in Identity, tx \in Tx :
        n < 2 * Len(TaskAt) => sign(key, tx, n) \in Sendable
  BY <1>1, RoomAssumption, BoundAssumption DEF sign, Sendable, SignedTx
<1>5. /\ [type |-> "SubmitTask", task |-> t] \in Tx
      /\ [type |-> "ClaimTask", task |-> t] \in Tx
      /\ [type |-> "SubmitProof", task |-> t, proof |-> proof] \in Tx
  <2> HIDE DEF t, proof
  <2> QED BY <1>2, <1>3 DEF Tx
<1>6. at.i < 2 * Len(TaskAt)
  BY <1>1
<1>7. at.pc = "claim" => at.prov_nonce \in Nat /\ at.prov_nonce < 2 * Len(TaskAt)
  BY <1>1 DEF in_step
<1>8. at.pc = "prove" => at.prov_nonce \in Nat /\ at.prov_nonce < 2 * Len(TaskAt)
  BY <1>1 DEF in_step
<1> HIDE DEF t, proof
<1>9. /\ t \in Task
      /\ sign(req_key, [type |-> "SubmitTask", task |-> t], at.i) \in Sendable
      /\ at.pc = "claim" =>
           sign(prov_key, [type |-> "ClaimTask", task |-> t], at.prov_nonce)
             \in Sendable
      /\ at.pc = "prove" =>
           sign(prov_key, [type |-> "SubmitProof", task |-> t, proof |-> proof],
                at.prov_nonce) \in Sendable
  BY <1>1, <1>2, <1>4, <1>5, <1>6, <1>7, <1>8, KeyAssumption
<1> QED BY <1>9 DEF t, proof

-----------------------------------------------------------------------------
(***************************************************************************)
(* What a step of a worker does.                                           *)
(***************************************************************************)
Sends(stx) == /\ CanApply(ledger, stx) /\ ledger' = apply(ledger, stx)
              /\ ledger'.nonces = Credit(ledger.nonces, stx.author, 1)

submission(w) == sign(req_key, [type |-> "SubmitTask", task |-> task(w)], worker[w].i)

claim(w) == sign(prov_key, [type |-> "ClaimTask", task |-> task(w)], worker[w].prov_nonce)

honest_proof(w) == [ provider  |-> prov_key,
                     ucu_count |-> Outcome[task(w)].ucu_count,
                     benchmark |-> Body[task(w)].benchmark,
                     result    |-> Outcome[task(w)].result ]

proving(w) == sign(prov_key, [type |-> "SubmitProof", task |-> task(w),
                              proof |-> honest_proof(w)], worker[w].prov_nonce)

\* It goes to at: on the way to the next task, or no further.
Rests(w, at) == /\ UNCHANGED ledger
                /\ at.i = worker[w].i /\ at.total_ucu = worker[w].total_ucu
                /\ at.pc \in {"loop", "submit", "failed", "done"}

Submits(w, at) == /\ worker[w].pc = "submit"
                  /\ Sends(submission(w)) /\ at = goto(w, "claim")

Claims(w, at) == /\ worker[w].pc = "claim"
                 /\ Sends(claim(w)) /\ at = after_claim(w)

Proves(w, at) == /\ worker[w].pc = "prove" /\ Sends(proving(w))
                 /\ at = [goto(w, "query") EXCEPT !.prov_nonce = @ + 1]

Counts(w, at) ==
  /\ worker[w].pc = "query" /\ UNCHANGED ledger
  /\ ledger.q_ledger[task(w)] # None
  /\ at = [ pc         |-> "loop",
            i          |-> worker[w].i + 1,
            prov_nonce |-> worker[w].prov_nonce,
            total_ucu  |-> worker[w].total_ucu + Outcome[task(w)].ucu_count ]

\* A worker works on a task of its own, and what it signs is sendable.
LEMMA WorkerSends ==
  ASSUME WorkerInv, NEW w \in Worker,
         worker[w].pc \in {"submit", "claim", "prove", "query"}
  PROVE  /\ worker[w].i \in Nat /\ worker[w].i < Len(TaskAt)
         /\ task(w) = TaskAt[worker[w].i + 1] /\ task(w) \in Task
         /\ submission(w) \in Sendable
         /\ worker[w].pc = "claim" => claim(w) \in Sendable
         /\ worker[w].pc = "prove" => proving(w) \in Sendable
<1> DEFINE at == worker[w]
<1>1. at \in Progress /\ in_step(at)
  BY DEF WorkerInv
<1>2. at.i < Len(TaskAt) /\ at.i \in Nat
  BY <1>1, TaskAtAssumption DEF in_step, Progress
<1>3. task(w) = TaskAt[at.i + 1]
  BY DEF task
<1>4. /\ submission(w) = sign(req_key, [type |-> "SubmitTask", task |-> task(w)], at.i)
      /\ claim(w) = sign(prov_key, [type |-> "ClaimTask", task |-> task(w)],
                         at.prov_nonce)
      /\ proving(w) = sign(prov_key, [type |-> "SubmitProof", task |-> task(w),
                                      proof |-> honest_proof(w)], at.prov_nonce)
  BY DEF submission, claim, proving
<1> HIDE DEF at
<1>5. /\ task(w) \in Task /\ submission(w) \in Sendable
      /\ at.pc = "claim" => claim(w) \in Sendable
      /\ at.pc = "prove" => proving(w) \in Sendable
  BY <1>1, <1>2, <1>3, <1>4, WorkerTxs DEF honest_proof
<1> QED BY <1>2, <1>3, <1>5 DEF at

\* A transaction is applied and the worker goes on, or it gives up.
LEMMA SendIs ==
  ASSUME NodeInv, NEW w \in Worker, NEW author, NEW nonce, NEW tx, NEW next,
         sign(author, tx, nonce) \in Sendable, Send(w, author, nonce, tx, next)
  PROVE  /\ \/ Sends(sign(author, tx, nonce)) /\ moves(w, next)
            \/ UNCHANGED ledger /\ moves(w, goto(w, "failed"))
         /\ NodeInv' /\ [Next]_ledger /\ UNCHANGED <<rpc, history>>
<1>1. UNCHANGED <<rpc, history>>
  BY DEF Send
<1>2. CASE Submit(sign(author, tx, nonce)) /\ moves(w, next)
  BY <1>1, <1>2, SentKeeps DEF Sends
<1>3. CASE UNCHANGED node /\ moves(w, goto(w, "failed"))
  <2>1. ledger' = ledger /\ rpc' = rpc
    BY <1>1, <1>3 DEF node
  <2>2. NodeInv'
    BY <2>1 DEF NodeInv, IInv, HonestNeverSlashed, honest
  <2> QED BY <1>1, <1>3, <2>1, <2>2
<1> QED BY <1>2, <1>3 DEF Send, on_error

\* The steps of a worker.
LEMMA WorkerStepIs ==
  ASSUME WorkerInv, NEW w \in Worker, WorkerStep(w)
  PROVE  /\ \E at \in Progress :
              /\ in_step(at) /\ moves(w, at)
              /\ \/ Rests(w, at) \/ Submits(w, at) \/ Claims(w, at)
                 \/ Proves(w, at) \/ Counts(w, at)
         /\ NodeInv' /\ [Next]_ledger /\ UNCHANGED history
<1> DEFINE at == worker[w]
<1>1. at \in Progress /\ in_step(at) /\ NodeInv
  BY DEF WorkerInv
<1>2. Len(TaskAt) \in Nat
  BY TaskAtAssumption
<1> HIDE DEF at
<1>3. ASSUME NEW pc \in {"loop", "submit", "failed", "done"},
             pc = "submit" => at.i < Len(TaskAt),
             pc # "failed" => at.pc \in {"put_program", "loop", "submit"}
      PROVE  LET x == [at EXCEPT !.pc = pc]
             IN /\ x \in Progress /\ in_step(x)
                /\ x.i = at.i /\ x.total_ucu = at.total_ucu /\ x.pc = pc
  BY <1>1, <1>3 DEF Progress, in_step
<1>4. ASSUME UNCHANGED <<ledger, rpc, history>>
      PROVE  NodeInv' /\ [Next]_ledger /\ UNCHANGED history
  BY <1>1, <1>4 DEF NodeInv, IInv, HonestNeverSlashed, honest
<1>5. ASSUME NEW pc \in {"loop", "submit", "failed", "done"},
             pc = "submit" => at.i < Len(TaskAt),
             pc # "failed" => at.pc \in {"put_program", "loop", "submit"},
             moves(w, goto(w, pc)), UNCHANGED <<ledger, rpc, history>>
      PROVE  \E x \in Progress : in_step(x) /\ moves(w, x) /\ Rests(w, x)
  <2> DEFINE x == [at EXCEPT !.pc = pc]
  <2>1. /\ x \in Progress /\ in_step(x)
        /\ x.i = at.i /\ x.total_ucu = at.total_ucu /\ x.pc = pc
    BY <1>3, <1>5
  <2>2. goto(w, pc) = x
    BY DEF goto, at
  <2> HIDE DEF x
  <2>3. moves(w, x)
    BY <1>5, <2>2
  <2>4. Rests(w, x)
    BY <1>5, <2>1 DEF Rests, at
  <2> QED BY <2>1, <2>3, <2>4
<1>6. CASE PutProgram(w)
  <2>1. moves(w, goto(w, "loop")) /\ at.pc = "put_program" /\ UNCHANGED <<ledger, rpc, history>>
    BY <1>6 DEF PutProgram, node, at
  <2> QED BY <1>4, <1>5, <2>1
<1>7. CASE PutInput(w)
  <2>1. /\ moves(w, goto(w, "submit")) /\ at.pc = "loop" /\ at.i < Len(TaskAt)
        /\ UNCHANGED <<ledger, rpc, history>>
    BY <1>7 DEF PutInput, node, at
  <2> QED BY <1>4, <1>5, <2>1
<1>8. CASE Finish(w)
  <2>1. moves(w, goto(w, "done")) /\ at.pc = "loop" /\ UNCHANGED <<ledger, rpc, history>>
    BY <1>8 DEF Finish, vars, at
  <2> QED BY <1>4, <1>5, <2>1
<1>9. ASSUME at.pc \in {"submit", "claim", "prove", "query"}
      PROVE  /\ task(w) = TaskAt[at.i + 1] /\ at.i < Len(TaskAt)
             /\ submission(w) \in Sendable
             /\ at.pc = "claim" => claim(w) \in Sendable
             /\ at.pc = "prove" => proving(w) \in Sendable
  BY <1>9, WorkerSends DEF at
<1>e. ASSUME NEW pc \in {"prove", "query"}, NEW n \in Nat
      PROVE  [at EXCEPT !.pc = pc, !.prov_nonce = n] \in Progress
  BY <1>1 DEF Progress
\* A call is answered with an error, or the worker goes on with x.
<1>10. ASSUME NEW x, x \in Progress, in_step(x), NEW stx, stx \in Sendable,
              Sends(stx) => Submits(w, x) \/ Claims(w, x) \/ Proves(w, x),
              \/ Sends(stx) /\ moves(w, x)
              \/ UNCHANGED ledger /\ moves(w, goto(w, "failed")),
              NodeInv' /\ [Next]_ledger /\ UNCHANGED <<rpc, history>>
       PROVE  /\ \E y \in Progress :
                   /\ in_step(y) /\ moves(w, y)
                   /\ \/ Rests(w, y) \/ Submits(w, y) \/ Claims(w, y)
                      \/ Proves(w, y) \/ Counts(w, y)
              /\ NodeInv' /\ [Next]_ledger /\ UNCHANGED history
  BY <1>5, <1>10
<1>11. CASE SendTask(w)
  <2> DEFINE x == goto(w, "claim")
  <2>1. at.pc = "submit" /\ Send(w, req_key, at.i,
          [type |-> "SubmitTask", task |-> task(w)], x)
    BY <1>11 DEF SendTask, at
  <2>2. submission(w) \in Sendable /\ at.i < Len(TaskAt)
    BY <1>9, <2>1
  <2>3. x = [at EXCEPT !.pc = "claim"]
    BY DEF goto, at
  <2>4. x \in Progress /\ in_step(x)
    BY <1>1, <2>1, <2>2, <2>3 DEF Progress, in_step
  <2>5. Sends(submission(w)) => Submits(w, x)
    BY <2>1 DEF Submits, at
  <2>6. submission(w) = sign(req_key, [type |-> "SubmitTask", task |-> task(w)], at.i)
    BY DEF submission, at
  <2> HIDE DEF x
  <2> QED BY <1>1, <1>10, <2>1, <2>2, <2>4, <2>5, <2>6, SendIs
<1>12. CASE SendClaim(w)
  <2> DEFINE x == after_claim(w)
  <2>1. at.pc = "claim" /\ Send(w, prov_key, at.prov_nonce,
          [type |-> "ClaimTask", task |-> task(w)], x)
    BY <1>12 DEF SendClaim, at
  <2>2. claim(w) \in Sendable /\ at.i < Len(TaskAt)
    BY <1>9, <2>1
  <2>3. x = [at EXCEPT !.pc = "prove", !.prov_nonce = at.prov_nonce + 1]
    BY <1>1 DEF after_claim, goto, at, Progress
  <2>4. x \in Progress /\ in_step(x)
    <3>1. at.prov_nonce = 2 * at.i /\ at.i \in Nat /\ at.prov_nonce \in Nat
      BY <1>1, <2>1 DEF in_step, Progress
    <3>2. x.pc = "prove" /\ x.i = at.i /\ x.prov_nonce = at.prov_nonce + 1
      BY <1>1, <2>3 DEF Progress
    <3>3. x \in Progress
      <4> DEFINE n == at.prov_nonce + 1
      <4>1. n \in Nat
        BY <3>1
      <4>2. x = [at EXCEPT !.pc = "prove", !.prov_nonce = n]
        BY <2>3
      <4> HIDE DEF n
      <4> QED BY <1>e, <4>1, <4>2
    <3> QED BY <2>2, <3>1, <3>2, <3>3 DEF in_step
  <2>5. Sends(claim(w)) => Claims(w, x)
    BY <2>1 DEF Claims, at
  <2>6. claim(w) = sign(prov_key, [type |-> "ClaimTask", task |-> task(w)], at.prov_nonce)
    BY DEF claim, at
  <2> HIDE DEF x
  <2> QED BY <1>1, <1>10, <2>1, <2>2, <2>4, <2>5, <2>6, SendIs
<1>13. CASE SendProof(w)
  <2> DEFINE x == [goto(w, "query") EXCEPT !.prov_nonce = @ + 1]
  <2>1. at.pc = "prove" /\ Send(w, prov_key, at.prov_nonce,
          [type |-> "SubmitProof", task |-> task(w), proof |-> honest_proof(w)], x)
    BY <1>13 DEF SendProof, honest_proof, at
  <2>2. proving(w) \in Sendable /\ at.i < Len(TaskAt)
    BY <1>9, <2>1
  <2>3. x = [at EXCEPT !.pc = "query", !.prov_nonce = at.prov_nonce + 1]
    BY <1>1 DEF goto, at, Progress
  <2>4. x \in Progress /\ in_step(x)
    <3>1. at.prov_nonce = 2 * at.i + 1 /\ at.i \in Nat /\ at.prov_nonce \in Nat
      BY <1>1, <2>1 DEF in_step, Progress
    <3>2. x.pc = "query" /\ x.i = at.i /\ x.prov_nonce = at.prov_nonce + 1
      BY <1>1, <2>3 DEF Progress
    <3>3. x \in Progress
      <4> DEFINE n == at.prov_nonce + 1
      <4>1. n \in Nat
        BY <3>1
      <4>2. x = [at EXCEPT !.pc = "query", !.prov_nonce = n]
        BY <2>3
      <4> HIDE DEF n
      <4> QED BY <1>e, <4>1, <4>2
    <3> QED BY <2>2, <3>1, <3>2, <3>3 DEF in_step
  <2>5. Sends(proving(w)) => Proves(w, x)
    BY <2>1 DEF Proves, at
  <2>6. proving(w) = sign(prov_key, [type |-> "SubmitProof", task |-> task(w),
                                     proof |-> honest_proof(w)], at.prov_nonce)
    BY DEF proving, at
  <2> HIDE DEF x
  <2> QED BY <1>1, <1>10, <2>1, <2>2, <2>4, <2>5, <2>6, SendIs
<1>14. CASE GetQEntry(w)
  <2>1. at.pc = "query" /\ UNCHANGED <<ledger, rpc, history>>
    BY <1>14 DEF GetQEntry, vars, at
  <2>2. CASE ledger.q_ledger[task(w)] = None
    <3>1. moves(w, goto(w, "failed"))
      BY <1>14, <2>2 DEF GetQEntry
    <3> QED BY <1>4, <1>5, <2>1, <3>1
  <2>3. CASE ledger.q_ledger[task(w)] # None
    <3> DEFINE x == [ pc         |-> "loop",
                      i          |-> at.i + 1,
                      prov_nonce |-> at.prov_nonce,
                      total_ucu  |-> at.total_ucu + Outcome[task(w)].ucu_count ]
    <3>1. moves(w, x)
      BY <1>14, <2>3 DEF GetQEntry, at
    <3>2. x \in Progress /\ in_step(x)
      <4>1. at.i < Len(TaskAt) /\ at.prov_nonce = 2 * at.i + 2
        BY <1>1, <2>1 DEF in_step
      <4>2. Outcome[task(w)].ucu_count \in Nat
        <5>1. at.i + 1 \in 1..Len(TaskAt) /\ task(w) = TaskAt[at.i + 1]
          BY <1>1, <1>2, <4>1 DEF Progress, task, at
        <5> QED BY <5>1, WorkerOutcome
      <4> QED BY <1>1, <1>2, <4>1, <4>2 DEF Progress, in_step
    <3>3. Counts(w, x)
      BY <2>1, <2>3 DEF Counts, at
    <3> HIDE DEF x
    <3> QED BY <1>4, <2>1, <3>1, <3>2, <3>3
  <2> QED BY <2>2, <2>3
<1> QED BY <1>6, <1>7, <1>8, <1>11, <1>12, <1>13, <1>14 DEF WorkerStep

\* The node is a node, and the workers are in step, after every step.
LEMMA WorkerInvStep ==
  ASSUME WorkerInv, [WorkerNext]_system
  PROVE  WorkerInv'
<1>1. NodeInv /\ worker \in [Worker -> Progress] /\ lives \in Nat \ {0}
      /\ \A w \in Worker : in_step(worker[w])
  BY DEF WorkerInv
<1>2. ASSUME NEW w \in Worker, NEW at \in Progress, in_step(at), moves(w, at)
      PROVE  /\ worker' \in [Worker -> Progress]
             /\ \A v \in Worker : in_step(worker'[v])
  BY <1>1, <1>2 DEF moves
<1>3. ASSUME NEW w \in Worker, WorkerStep(w) PROVE WorkerInv'
  BY <1>1, <1>2, <1>3, WorkerStepIs DEF WorkerInv, history
<1>4. ASSUME NEW w \in Worker, RestartWorker(w) PROVE WorkerInv'
  <2>1. started \in Progress /\ in_step(started)
    BY TaskAtAssumption DEF started, Progress, in_step
  <2>2. UNCHANGED vars /\ lives' = lives /\ moves(w, started)
    BY <1>4 DEF RestartWorker
  <2>3. NodeInv'
    BY <1>1, <2>2 DEF NodeInv, IInv, HonestNeverSlashed, honest, vars
  <2> QED BY <1>1, <1>2, <2>1, <2>2, <2>3 DEF WorkerInv
<1>5. CASE NodeRestart
  <2>1. NodeInv'
    BY <1>5, RestartStarts DEF NodeRestart
  <2>2. PICK cut \in SUBSET Worker :
          worker' = [w \in Worker |-> IF w \in cut THEN goto(w, "failed") ELSE worker[w]]
    BY <1>5 DEF NodeRestart
  <2>3. ASSUME NEW w \in Worker
        PROVE  goto(w, "failed") \in Progress /\ in_step(goto(w, "failed"))
    <3>1. goto(w, "failed") \in Progress
      BY <1>1 DEF goto, Progress
    <3>2. goto(w, "failed").pc = "failed"
      BY <1>1 DEF goto, Progress
    <3> QED BY <3>1, <3>2 DEF in_step
  <2>4. lives' \in Nat \ {0}
    BY <1>1, <1>5 DEF NodeRestart
  <2> QED BY <1>1, <2>1, <2>2, <2>3, <2>4 DEF WorkerInv
<1>6. CASE NodeNext /\ UNCHANGED <<worker, history>>
  BY <1>1, <1>6, NodeInvStep DEF WorkerInv, history
<1>7. CASE UNCHANGED system
  <2>1. UNCHANGED vars /\ UNCHANGED <<worker, lives>>
    BY <1>7 DEF system, history
  <2>2. NodeInv'
    BY <1>1, <2>1 DEF NodeInv, IInv, HonestNeverSlashed, honest, vars
  <2> QED BY <1>1, <2>1, <2>2 DEF WorkerInv
<1> QED BY <1>3, <1>4, <1>5, <1>6, <1>7 DEF WorkerNext

\* The workers start at the beginning.
LEMMA WorkersStart == WorkerInit => WorkerInv
<1> SUFFICES ASSUME WorkerInit PROVE WorkerInv
  OBVIOUS
<1>1. NodeInv
  BY NodeStarts DEF WorkerInit
<1>2. started \in Progress /\ in_step(started)
  BY TaskAtAssumption DEF started, Progress, in_step
<1> QED BY <1>1, <1>2 DEF WorkerInit, WorkerInv

\* The invariant of the workers.
LEMMA WorkerSoundness == WorkerSpec => []WorkerInv
<1>1. WorkerInv /\ [WorkerNext]_system => WorkerInv'
  BY WorkerInvStep
<1> QED BY <1>1, WorkersStart, PTL DEF WorkerSpec

-----------------------------------------------------------------------------
(***************************************************************************)
(* One driver.  A worker that drives has had its first task accepted, with *)
(* the requester's nonce zero, and nobody gets to use that nonce again as  *)
(* long as the node lives.                                                 *)
(***************************************************************************)
DriverInv ==
  lives = 1 =>
    /\ \A w \in Worker : driving(w) => ledger.nonces[req_key] >= 1
    /\ OneDriver

\* A nonce that was used stays used, as long as the node lives.
LEMMA NoncesGrow ==
  ASSUME WorkerInv, [WorkerNext]_system, ~ NodeRestart
  PROVE  \A a \in Identity : /\ ledger.nonces[a] \in Nat
                             /\ ledger'.nonces[a] >= ledger.nonces[a]
<1>1. ledger.nonces \in [Identity -> Nat]
  BY FieldType DEF WorkerInv, NodeInv, IInv, Sound
<1>2. \A stx \in Sendable : stx.author \in Identity
  BY TxIs
<1>3. ASSUME NEW b, ledger'.nonces = Credit(ledger.nonces, b, 1)
      PROVE  \A a \in Identity : ledger'.nonces[a] >= ledger.nonces[a]
  BY <1>1, <1>3 DEF Credit
<1>4. CASE UNCHANGED ledger
  BY <1>1, <1>4
<1>5. CASE \E w \in Worker : WorkerStep(w)
  BY <1>1, <1>3, <1>4, <1>5, WorkerStepIs
     DEF Rests, Counts, Submits, Claims, Proves, Sends
<1>6. CASE NodeNext
  BY <1>1, <1>3, <1>4, <1>6, NodeAppends DEF WorkerInv
<1>7. CASE \/ UNCHANGED system
           \/ \E w \in Worker : RestartWorker(w)
  BY <1>4, <1>7 DEF system, vars, RestartWorker
<1> QED BY <1>5, <1>6, <1>7 DEF WorkerNext

\* Every step leaves at most one driver.
LEMMA DriverStep ==
  ASSUME WorkerInv, DriverInv, [WorkerNext]_system
  PROVE  DriverInv'
<1>1. worker \in [Worker -> Progress] /\ worker' \in [Worker -> Progress]
      /\ ledger.nonces[req_key] \in Nat /\ lives \in Nat \ {0}
  BY WorkerInvStep, KeyAssumption, FieldType DEF WorkerInv, NodeInv, IInv, Sound
<1>2. CASE lives' # 1
  BY <1>2 DEF DriverInv
<1>3. CASE lives' = 1 /\ ~ NodeRestart
  <2>1. lives = 1
    BY <1>3, WorkerStepIs DEF WorkerNext, RestartWorker, history, system
  <2>2. ledger'.nonces[req_key] >= ledger.nonces[req_key] /\ ledger'.nonces[req_key] \in Nat
    <3>1. ledger' \in State
      BY WorkerInvStep DEF WorkerInv, NodeInv, IInv, Sound
    <3>2. ledger'.nonces \in [Identity -> Nat]
      BY <3>1, FieldType
    <3> QED BY <1>3, <3>2, NoncesGrow, KeyAssumption
  \* Nobody becomes a driver ...
  <2>3. ASSUME \A w \in Worker : driving(w)' => driving(w)
        PROVE  DriverInv'
    BY <1>1, <2>1, <2>2, <2>3 DEF DriverInv, OneDriver
  \* ... except by the first nonce of the requester.
  <2>4. ASSUME NEW w \in Worker, \A v \in Worker \ {w} : driving(v)' => driving(v),
               ledger.nonces[req_key] = 0, ledger'.nonces[req_key] = 1
        PROVE  DriverInv'
    BY <1>1, <2>1, <2>2, <2>4 DEF DriverInv, OneDriver
  <2>5. ASSUME NEW w \in Worker, WorkerStep(w) PROVE DriverInv'
    <3>1. PICK at \in Progress :
            /\ moves(w, at)
            /\ \/ Rests(w, at) \/ Submits(w, at) \/ Claims(w, at)
               \/ Proves(w, at) \/ Counts(w, at)
      BY <2>5, WorkerStepIs
    <3>2. worker'[w] = at /\ \A v \in Worker \ {w} : worker'[v] = worker[v]
      BY <1>1, <3>1 DEF moves
    <3>3. \A v \in Worker \ {w} : driving(v)' => driving(v)
      BY <3>2 DEF driving
    <3>4. CASE Rests(w, at)
      <4>1. driving(w)' => driving(w)
        BY <3>2, <3>4 DEF Rests, driving
      <4> QED BY <2>3, <3>3, <4>1
    <3>5. CASE Claims(w, at) \/ Proves(w, at) \/ Counts(w, at) \/ worker[w].i > 0
      <4>1. driving(w)
        BY <3>5 DEF Claims, Proves, Counts, driving
      <4> QED BY <2>3, <3>3, <4>1
    <3>6. CASE Submits(w, at) /\ ~ worker[w].i > 0
      <4>1. worker[w].i = 0
        BY <1>1, <3>6, TaskAtAssumption DEF Progress
      <4>2. /\ submission(w).author = req_key /\ submission(w).nonce = 0
            /\ NonceOk(ledger, submission(w))
            /\ ledger'.nonces = Credit(ledger.nonces, submission(w).author, 1)
        BY <3>6, <4>1 DEF Submits, Sends, CanApply, submission, sign
      <4>3. ledger.nonces[req_key] = 0
        BY <4>2 DEF NonceOk
      <4>4. ledger'.nonces[req_key] = 1
        <5>1. ledger.nonces \in [Identity -> Nat]
          BY FieldType DEF WorkerInv, NodeInv, IInv, Sound
        <5> QED BY <4>2, <4>3, <5>1, KeyAssumption DEF Credit
      <4> QED BY <2>4, <3>3, <4>3, <4>4
    <3> QED BY <3>1, <3>4, <3>5, <3>6
  <2>6. CASE \/ \E w \in Worker : RestartWorker(w)
             \/ NodeNext /\ UNCHANGED <<worker, history>>
             \/ UNCHANGED system
    <3>1. CASE UNCHANGED worker
      <4>1. \A v \in Worker : driving(v)' => driving(v)
        BY <3>1 DEF driving
      <4> QED BY <2>3, <4>1
    <3>2. CASE \E w \in Worker : RestartWorker(w)
      <4>1. PICK w \in Worker : worker' = [worker EXCEPT ![w] = started]
        BY <3>2 DEF RestartWorker, moves
      <4>2. worker'[w] = started /\ \A v \in Worker \ {w} : worker'[v] = worker[v]
        BY <1>1, <4>1
      <4>3. \A v \in Worker : driving(v)' => driving(v)
        BY <4>2 DEF driving, started
      <4> QED BY <2>3, <4>3
    <3> QED BY <2>6, <3>1, <3>2 DEF system
  <2> QED BY <1>3, <2>5, <2>6 DEF WorkerNext
<1>4. CASE lives' = 1 /\ NodeRestart
  BY <1>1, <1>4 DEF NodeRestart
<1> QED BY <1>2, <1>3, <1>4

\* Of the workers with the same keys one drives the tasks: a second one, or one
\* that was restarted, is turned away before it has a task of its own.
THEOREM OneDrives == WorkerSpec => []OneDriver
<1>1. WorkerInit => DriverInv
  BY DEF WorkerInit, started, DriverInv, driving, OneDriver
<1>2. WorkerInv /\ DriverInv /\ [WorkerNext]_system => DriverInv'
  BY DriverStep
<1>3. DriverInv => OneDriver
  BY DEF DriverInv, OneDriver
<1> QED BY <1>1, <1>2, <1>3, WorkerSoundness, PTL DEF WorkerSpec

-----------------------------------------------------------------------------
(***************************************************************************)
(* What the workers count.  The nonces of the provider tell how far its    *)
(* tasks are: an odd number of them was claimed last, an even number       *)
(* proved, and that by any of the workers, in this life of the node.       *)
(***************************************************************************)
\* Task t was claimed by the provider of the workers.
ours(s, t) == s.tasks[t] # None /\ s.tasks[t].provider = prov_key

\* In state s the k-th task is as far as the nonces of the provider say.
as_counted(s, k) ==
  LET t == TaskAt[k]
      n == s.nonces[prov_key]
  IN /\ n >= 2 * k - 1 => ours(s, t)
     /\ n >= 2 * k => /\ s.q_ledger[t] # None
                      /\ s.q_ledger[t].ucu = Outcome[t].ucu_count
     /\ ours(s, t) /\ s.q_ledger[t] # None => n >= 2 * k

\* The work of the first i tasks.
work_of(i) == SumFunction([t \in counted(i) |-> Outcome[t].ucu_count])

SettledInv ==
  /\ \A k \in 1..Len(TaskAt) : as_counted(ledger, k)
  /\ \A w \in Worker :
       /\ lives = 1 /\ worker[w].pc = "query" =>
            ledger.nonces[prov_key] >= 2 * worker[w].i + 2
       /\ worker[w].total_ucu = work_of(worker[w].i)

\* What a transaction does to the tasks and the Q entries.
LEMMA AppliedTasks ==
  ASSUME NEW s \in State, Agree(s), NEW stx \in Sendable, CanApply(s, stx)
  PROVE  LET x == apply(s, stx)
             v == stx.tx.task
         IN /\ stx.tx.type \in {"Challenge", "Transfer"} =>
                 x.tasks = s.tasks /\ x.q_ledger = s.q_ledger
            /\ stx.tx.type = "SubmitTask" =>
                 /\ x.q_ledger = s.q_ledger /\ x.tasks[v].provider = None
                 /\ \A t \in Task \ {v} : x.tasks[t] = s.tasks[t]
            /\ stx.tx.type = "ClaimTask" =>
                 /\ x.q_ledger = s.q_ledger /\ s.q_ledger[v] = None
                 /\ x.tasks[v] # None /\ x.tasks[v].provider = stx.author
                 /\ \A t \in Task \ {v} : x.tasks[t] = s.tasks[t]
            /\ stx.tx.type = "SubmitProof" =>
                 /\ s.tasks[v] # None /\ s.tasks[v].provider = stx.author
                 /\ x.tasks[v] # None /\ x.tasks[v].provider = stx.author
                 /\ x.q_ledger[v] # None
                 /\ x.q_ledger[v].ucu = stx.tx.proof.ucu_count
                 /\ \A t \in Task \ {v} : /\ x.tasks[t] = s.tasks[t]
                                          /\ x.q_ledger[t] = s.q_ledger[t]
<1> DEFINE a == stx.author
           v == stx.tx.task
           e == effect(s, stx)
           x == apply(s, stx)
<1>1. /\ s.tasks \in [Task -> Submission \cup {None}]
      /\ s.q_ledger \in [Task -> QLedgerEntry \cup {None}] /\ a \in Identity
  BY FieldType, TxIs
<1>3. CASE stx.tx.type = "Challenge"
  <2>1. e = open_challenge(s, a, v, stx.tx.bond)
    BY <1>3 DEF effect
  <2> QED BY <1>3, <2>1 DEF open_challenge, State, apply, bump_nonce
<1>4. CASE stx.tx.type = "Transfer"
  <2>1. e = transfer(s, a, stx.tx.to, stx.tx.amount)
    BY <1>4 DEF effect
  <2> QED BY <1>4, <2>1 DEF transfer, State, apply, bump_nonce
<1>5. CASE stx.tx.type = "SubmitTask"
  <2>1. e = submit_task(s, a, v) /\ v \in Task
    BY <1>5, TxIs DEF effect
  <2>2. /\ x.q_ledger = s.q_ledger
        /\ x.tasks = [s.tasks EXCEPT ![v] = [ status      |-> "Submitted",
                                              requester   |-> a,
                                              provider    |-> None,
                                              fee         |-> fee(Body[v].max_ucu),
                                              claim_stake |-> 0,
                                              ucu_count   |-> 0 ]]
    BY <2>1 DEF submit_task, State, apply, bump_nonce
  <2> HIDE DEF x, v, a
  <2>3. x.tasks[v].provider = None /\ \A t \in Task \ {v} : x.tasks[t] = s.tasks[t]
    BY <1>1, <2>1, <2>2
  <2> QED BY <1>5, <2>2, <2>3 DEF x, v
<1>6. CASE stx.tx.type = "ClaimTask"
  <2>1. e = claim_task(s, a, v) /\ v \in Task /\ CanClaimTask(s, a, v)
    BY <1>6, TxIs DEF effect, CanApply
  <2>2. /\ x.q_ledger = s.q_ledger
        /\ x.tasks = [s.tasks EXCEPT ![v] = [@ EXCEPT !.provider    = a,
                                                      !.status      = "Executing",
                                                      !.claim_stake = stake(s, a, v)]]
    BY <2>1 DEF claim_task, State, apply, bump_nonce
  <2>3. s.tasks[v] # None /\ status(s, v) = "Submitted"
    BY <2>1 DEF CanClaimTask, status
  <2>4. s.q_ledger[v] = None
    <3>1. records_agree(s, v)
      BY <2>1 DEF Agree
    <3>2. ~ settled(s, v)
      BY <2>3 DEF settled
    <3> QED BY <3>1, <3>2 DEF records_agree
  <2> HIDE DEF x, v, a
  <2>5. /\ x.tasks[v].provider = a /\ x.tasks[v] # None
        /\ \A t \in Task \ {v} : x.tasks[t] = s.tasks[t]
    <3> DEFINE sub == [s.tasks[v] EXCEPT !.provider    = a,
                                         !.status      = "Executing",
                                         !.claim_stake = stake(s, a, v)]
    <3>0. s.tasks[v] \in Submission /\ stake(s, a, v) \in Nat
      <4>1. \A b \in Identity, t \in Task : stake(s, b, t) \in Nat
        BY BodyType, AmountType, FieldType DEF stake
      <4> QED BY <1>1, <2>1, <2>3, <4>1
    <3>1. sub \in Submission /\ sub.provider = a
      BY <1>1, <3>0 DEF Submission, TaskStatus
    <3>2. sub # None
      BY <3>1, NoneAssumption
    <3>3. x.tasks = [s.tasks EXCEPT ![v] = sub]
      BY <2>2
    <3> HIDE DEF sub
    <3> QED BY <1>1, <2>1, <3>1, <3>2, <3>3
  <2> QED BY <1>6, <2>2, <2>4, <2>5 DEF x, v, a
<1>7. CASE stx.tx.type = "SubmitProof"
  <2> DEFINE proof == stx.tx.proof
  <2>1. e = submit_proof(s, v, proof) /\ v \in Task /\ proof \in ComputeProof
        /\ CanSubmitProof(s, a, v, proof)
    BY <1>7, TxIs DEF effect, CanApply
  <2>2. s.tasks[v] # None /\ s.tasks[v].provider = a
    BY <2>1 DEF CanSubmitProof, status
  <2>3. /\ e.tasks = [s.tasks EXCEPT ![v] = [@ EXCEPT !.ucu_count = proof.ucu_count,
                                                      !.status = "Settled"]]
        /\ e.q_ledger = [s.q_ledger EXCEPT ![v] =
             [ucu |-> proof.ucu_count, benchmark |-> Body[v].benchmark, q |-> None]]
    <3>1. ProofSubmitted(s, submit_proof(s, v, proof), v, proof)
      BY <2>1, <2>2, SubmitProofFields
    <3>2. ProofSubmitted(s, e, v, proof)
      BY <2>1, <3>1
    <3> HIDE DEF e, v, proof
    <3> QED BY <3>2 DEF ProofSubmitted
  <2>4. x.tasks = e.tasks /\ x.q_ledger = e.q_ledger
    BY <2>1 DEF submit_proof, settle, pay, State, apply, bump_nonce
  <2>5. proof.ucu_count \in Nat /\ Body[v].benchmark \in Benchmark
    BY <2>1, BodyType, UcuAssumption DEF ComputeProof
  <2> HIDE DEF x, e, v, a, proof
  <2>6. /\ x.tasks[v].provider = a /\ x.tasks[v] # None
        /\ \A t \in Task \ {v} : x.tasks[t] = s.tasks[t]
    <3> DEFINE sub == [s.tasks[v] EXCEPT !.ucu_count = proof.ucu_count,
                                         !.status = "Settled"]
    <3>1. s.tasks[v] \in Submission
      BY <1>1, <2>1, <2>2
    <3>2. sub \in Submission /\ sub.provider = a
      BY <2>2, <2>5, <3>1 DEF Submission, TaskStatus
    <3>3. sub # None
      BY <3>2, NoneAssumption
    <3>4. x.tasks = [s.tasks EXCEPT ![v] = sub]
      BY <2>3, <2>4
    <3> HIDE DEF sub
    <3> QED BY <1>1, <2>1, <3>2, <3>3, <3>4
  <2>7. /\ x.q_ledger[v] # None /\ x.q_ledger[v].ucu = proof.ucu_count
        /\ \A t \in Task \ {v} : x.q_ledger[t] = s.q_ledger[t]
    <3> DEFINE q == [ucu |-> proof.ucu_count, benchmark |-> Body[v].benchmark, q |-> None]
    <3>1. q \in QLedgerEntry /\ q.ucu = proof.ucu_count
      BY <2>5 DEF QLedgerEntry
    <3>2. q # None
      BY <3>1, NoneAssumption
    <3>3. x.q_ledger = [s.q_ledger EXCEPT ![v] = q]
      BY <2>3, <2>4
    <3> HIDE DEF q
    <3> QED BY <1>1, <2>1, <3>1, <3>2, <3>3
  <2> QED BY <1>7, <2>2, <2>6, <2>7 DEF x, v, a, proof
<1> QED BY <1>3, <1>4, <1>5, <1>6, <1>7, TxIs

\* What is claimed by the provider stays so, and what is settled stays as it is.
LEMMA OursStays ==
  ASSUME NodeInv, [Next]_ledger, NEW t \in Task
  PROVE  /\ ours(ledger, t) => ours(ledger', t)
         /\ ledger.q_ledger[t] # None => ledger'.q_ledger[t] = ledger.q_ledger[t]
<1>1. ledger \in State /\ Agree(ledger) /\ kept(ledger, ledger', t)
  BY NextKeeps DEF NodeInv, IInv, Sound, Step, Kept
<1>2. ASSUME ours(ledger, t) PROVE ours(ledger', t)
  <2> DEFINE n    == ledger.tasks[t].claim_stake
             call == [pc |-> "claimed", task |-> t, provider |-> prov_key, stake |-> n]
  <2>1. n \in Nat
    BY <1>1, <1>2, SubmissionType DEF ours
  <2>2. call \in Call /\ remembers(ledger, call)
    BY <1>2, <2>1, KeyAssumption DEF Call, remembers, ours
  <2>3. remembers(ledger', call)
    BY <2>2, RemembersStill DEF NodeInv
  <2> QED BY <2>3 DEF remembers, ours
<1>3. ASSUME ledger.q_ledger[t] # None
      PROVE  ledger'.q_ledger[t] = ledger.q_ledger[t]
  <2>1. records_agree(ledger, t)
    BY <1>1 DEF Agree
  <2>2. ledger.receipts[t] # None
    BY <1>3, <2>1 DEF records_agree
  <2> QED BY <1>1, <2>2 DEF kept
<1> QED BY <1>2, <1>3

\* Nothing is signed or settled for the provider.
NotOurs(s, x) ==
  /\ x.nonces[prov_key] = s.nonces[prov_key]
  /\ \A t \in Task :
       ours(x, t) /\ x.q_ledger[t] # None => ours(s, t) /\ s.q_ledger[t] # None

\* What others do keeps the count.
LEMMA OthersKeep ==
  ASSUME NodeInv, [Next]_ledger, NotOurs(ledger, ledger'),
         NEW k \in 1..Len(TaskAt), as_counted(ledger, k)
  PROVE  as_counted(ledger', k)
<1>1. TaskAt[k] \in Task
  BY TaskAtAssumption
<1> QED BY <1>1, OursStays DEF as_counted, NotOurs

\* A transaction of somebody else is not ours.
LEMMA OthersSend ==
  ASSUME NodeInv, NEW stx \in Sendable, CanApply(ledger, stx),
         ledger' = apply(ledger, stx), stx.author # prov_key
  PROVE  NotOurs(ledger, ledger')
<1>1. ledger \in State /\ Agree(ledger) /\ ledger.nonces \in [Identity -> Nat]
  BY FieldType DEF NodeInv, IInv, Sound
<1>2. ledger'.nonces[prov_key] = ledger.nonces[prov_key]
  <2>1. ledger'.nonces = Credit(ledger.nonces, stx.author, 1)
    BY <1>1, AppliedTakesNonce
  <2> QED BY <1>1, <2>1, KeyAssumption DEF Credit
<1>3. stx.tx.type \in {"SubmitTask", "ClaimTask", "SubmitProof", "Challenge", "Transfer"}
  BY TxIs
<1>4. prov_key # None
  BY KeyAssumption, NoneAssumption
<1>5. ASSUME NEW t \in Task, ours(ledger', t), ledger'.q_ledger[t] # None
      PROVE  ours(ledger, t) /\ ledger.q_ledger[t] # None
  <2> DEFINE v == stx.tx.task
             x == apply(ledger, stx)
  <2>1. /\ ledger' = x /\ x.tasks[t] # None /\ x.tasks[t].provider = prov_key
        /\ x.q_ledger[t] # None
    BY <1>5 DEF ours
  <2>2. CASE stx.tx.type \in {"Challenge", "Transfer"}
    BY <1>1, <2>1, <2>2, AppliedTasks DEF ours
  <2>3. CASE stx.tx.type = "SubmitTask"
    <3>1. /\ x.q_ledger = ledger.q_ledger /\ x.tasks[v].provider = None
          /\ \A u \in Task \ {v} : x.tasks[u] = ledger.tasks[u]
      BY <1>1, <2>3, AppliedTasks
    <3> HIDE DEF x
    <3> QED BY <1>4, <2>1, <3>1 DEF ours
  <2>4. CASE stx.tx.type = "ClaimTask"
    <3>1. /\ x.q_ledger = ledger.q_ledger /\ x.tasks[v].provider = stx.author
          /\ \A u \in Task \ {v} : x.tasks[u] = ledger.tasks[u]
      BY <1>1, <2>4, AppliedTasks
    <3> HIDE DEF x
    <3> QED BY <2>1, <3>1 DEF ours
  <2>5. CASE stx.tx.type = "SubmitProof"
    <3>1. /\ x.tasks[v].provider = stx.author
          /\ \A u \in Task \ {v} : /\ x.tasks[u] = ledger.tasks[u]
                                   /\ x.q_ledger[u] = ledger.q_ledger[u]
      BY <1>1, <2>5, AppliedTasks
    <3> HIDE DEF x
    <3> QED BY <2>1, <3>1 DEF ours
  <2> QED BY <1>3, <2>2, <2>3, <2>4, <2>5
<1> QED BY <1>2, <1>5 DEF NotOurs

\* What other clients, epochs and verdicts do is not ours.
LEMMA NodeNotOurs ==
  ASSUME NodeInv, [NodeNext]_vars
  PROVE  NotOurs(ledger, ledger')
<1>1. ledger \in State /\ Agree(ledger)
  BY DEF NodeInv, IInv, Sound
<1>2. CASE \E stx \in Mail : CanApply(ledger, stx) /\ ledger' = apply(ledger, stx)
  <2>1. PICK stx \in Mail : CanApply(ledger, stx) /\ ledger' = apply(ledger, stx)
    BY <1>2
  <2>2. stx.author # prov_key
    BY <2>1, KeyAssumption DEF CanApply, verify_sig
  <2> QED BY <2>1, <2>2, OthersSend, MailSendable
<1>3. CASE AdvanceEpoch
  <2>1. /\ ledger'.nonces = ledger.nonces /\ ledger'.tasks = ledger.tasks
        /\ ledger'.q_ledger = ledger.q_ledger
    BY <1>1, <1>3 DEF AdvanceEpoch, advance_epoch, State
  <2> QED BY <2>1 DEF NotOurs, ours
<1>4. CASE UNCHANGED ledger
  BY <1>4 DEF NotOurs
<1>5. CASE \E c \in Thread : Decides(c)
  <2>1. PICK v \in Task, fraud \in BOOLEAN : ledger' = resolve_challenge(ledger, v, fraud)
    BY <1>5, CallIs DEF Decides, NodeInv, is_fraud
  <2>2. CASE ledger.pending_challenges[v] = None
    BY <1>4, <2>1, <2>2 DEF resolve_challenge
  <2>3. CASE ledger.pending_challenges[v] # None
    <3>1. /\ ledger'.nonces = ledger.nonces /\ ledger'.q_ledger = ledger.q_ledger
          /\ \/ ledger'.tasks = ledger.tasks
             \/ ledger'.tasks = [ledger.tasks EXCEPT ![v] = failed(@)]
      <4>1. Ruled(ledger, resolve_challenge(ledger, v, fraud), v, fraud)
        BY <1>1, <2>3, VerdictIs
      <4>2. Ruled(ledger, ledger', v, fraud)
        BY <2>1, <4>1
      <4> QED BY <4>2 DEF Ruled
    <3>2. ledger.tasks[v] \in Submission
      <4>1. records_agree(ledger, v)
        BY <1>1 DEF Agree
      <4>2. status(ledger, v) # "Unknown"
        BY <2>3, <4>1 DEF records_agree, settled
      <4>3. ledger.tasks[v] # None
        BY <4>2 DEF status
      <4> QED BY <1>1, <4>3, SubmissionType
    <3>3. failed(ledger.tasks[v]).provider = ledger.tasks[v].provider
      BY <3>2 DEF failed, Submission
    <3>4. ASSUME NEW t \in Task PROVE ours(ledger', t) => ours(ledger, t)
      <4>1. ledger.tasks \in [Task -> Submission \cup {None}]
        BY <1>1, FieldType
      <4>2. CASE ledger'.tasks = ledger.tasks
        BY <4>2 DEF ours
      <4>3. CASE ledger'.tasks = [ledger.tasks EXCEPT ![v] = failed(@)]
        <5> DEFINE sub == failed(ledger.tasks[v])
        <5>1. ledger'.tasks = [ledger.tasks EXCEPT ![v] = sub]
          BY <4>3
        <5>2. sub.provider = ledger.tasks[v].provider /\ ledger.tasks[v] # None
          BY <3>2, <3>3, NoneAssumption
        <5> HIDE DEF sub
        <5>3. CASE t = v
          BY <4>1, <5>1, <5>2, <5>3 DEF ours
        <5>4. CASE t # v
          BY <4>1, <5>1, <5>4 DEF ours
        <5> QED BY <5>3, <5>4
      <4> QED BY <3>1, <4>2, <4>3
    <3> QED BY <3>1, <3>4 DEF NotOurs
  <2> QED BY <2>2, <2>3
<1> QED BY <1>2, <1>3, <1>4, <1>5, NodeStepIs

-----------------------------------------------------------------------------
\* What the requester submits is not ours.
LEMMA SubmissionCounts ==
  ASSUME WorkerInv, NEW w \in Worker, NEW at, Submits(w, at)
  PROVE  NotOurs(ledger, ledger')
<1>1. NodeInv /\ submission(w) \in Sendable
  BY WorkerSends DEF WorkerInv, Submits
<1>2. CanApply(ledger, submission(w)) /\ ledger' = apply(ledger, submission(w))
  BY DEF Submits, Sends
<1>3. submission(w).author # prov_key
  BY KeyAssumption DEF submission, sign
<1> QED BY <1>1, <1>2, <1>3, OthersSend

\* An accepted transaction of the provider carries its nonce, and uses it.
LEMMA ProviderSends ==
  ASSUME WorkerInv, NEW stx, Sends(stx), stx.author = prov_key
  PROVE  /\ ledger.nonces[prov_key] = stx.nonce /\ stx.nonce \in Nat
         /\ ledger'.nonces[prov_key] = stx.nonce + 1
<1>1. ledger.nonces \in [Identity -> Nat]
  BY FieldType DEF WorkerInv, NodeInv, IInv, Sound
<1>2. NonceOk(ledger, stx) /\ ledger'.nonces = Credit(ledger.nonces, prov_key, 1)
  BY DEF Sends, CanApply
<1> QED BY <1>1, <1>2, KeyAssumption DEF NonceOk, Credit

\* An accepted claim takes the provider to an odd nonce.
LEMMA ClaimCounts ==
  ASSUME WorkerInv, NEW w \in Worker, NEW at, Claims(w, at), [Next]_ledger,
         NEW k \in 1..Len(TaskAt), as_counted(ledger, k)
  PROVE  as_counted(ledger', k)
<1> DEFINE stx == claim(w)
           i   == worker[w].i
           n   == ledger.nonces[prov_key]
           t   == TaskAt[k]
<1>1. /\ NodeInv /\ ledger \in State /\ Agree(ledger) /\ i \in Nat /\ task(w) \in Task
      /\ task(w) = TaskAt[i + 1] /\ i < Len(TaskAt) /\ stx \in Sendable
  BY WorkerSends DEF WorkerInv, NodeInv, IInv, Sound, Claims
<1>2. /\ stx.author = prov_key /\ stx.tx.type = "ClaimTask" /\ stx.tx.task = task(w)
      /\ stx.nonce = worker[w].prov_nonce
  BY DEF claim, sign
<1>3. worker[w].prov_nonce = 2 * i
  BY DEF WorkerInv, in_step, Claims
<1>4. n = 2 * i /\ ledger'.nonces[prov_key] = 2 * i + 1
  BY <1>2, <1>3, ProviderSends DEF Claims
<1>5. CanApply(ledger, stx) /\ ledger' = apply(ledger, stx)
  BY DEF Claims, Sends
<1>6. /\ ledger'.q_ledger = ledger.q_ledger /\ ledger.q_ledger[task(w)] = None
      /\ ours(ledger', task(w))
      /\ \A u \in Task \ {task(w)} : ledger'.tasks[u] = ledger.tasks[u]
  <2>1. LET x == apply(ledger, stx)
            v == stx.tx.task
        IN /\ x.q_ledger = ledger.q_ledger /\ ledger.q_ledger[v] = None
           /\ x.tasks[v] # None /\ x.tasks[v].provider = stx.author
           /\ \A u \in Task \ {v} : x.tasks[u] = ledger.tasks[u]
    BY <1>1, <1>2, <1>5, AppliedTasks
  <2> HIDE DEF stx
  <2> QED BY <1>2, <1>5, <2>1 DEF ours
<1>7. t \in Task /\ k \in Nat /\ k >= 1 /\ (k = i + 1 => t = task(w))
  BY <1>1, TaskAtAssumption
<1>8. ours(ledger, t) => ours(ledger', t)
  BY <1>1, <1>7, OursStays
<1>9. /\ n >= 2 * k - 1 => ours(ledger, t)
      /\ n >= 2 * k => /\ ledger.q_ledger[t] # None
                       /\ ledger.q_ledger[t].ucu = Outcome[t].ucu_count
      /\ ours(ledger, t) /\ ledger.q_ledger[t] # None => n >= 2 * k
  BY DEF as_counted
<1>10. t # task(w) => (ours(ledger', t) => ours(ledger, t))
  BY <1>6, <1>7 DEF ours
<1> HIDE DEF i, n, t, stx
<1>11. 2 * i + 1 >= 2 * k - 1 => ours(ledger', t)
  BY <1>1, <1>4, <1>6, <1>7, <1>8, <1>9
<1>12. 2 * i + 1 >= 2 * k => n >= 2 * k
  BY <1>1, <1>4, <1>7
<1>13. ours(ledger', t) /\ ledger'.q_ledger[t] # None => 2 * i + 1 >= 2 * k
  BY <1>1, <1>4, <1>6, <1>7, <1>9, <1>10
<1> QED BY <1>4, <1>6, <1>9, <1>11, <1>12, <1>13 DEF as_counted, t

\* An accepted proof takes it to an even one.
LEMMA ProofCounts ==
  ASSUME WorkerInv, NEW w \in Worker, NEW at, Proves(w, at), [Next]_ledger,
         NEW k \in 1..Len(TaskAt), as_counted(ledger, k)
  PROVE  as_counted(ledger', k)
<1> DEFINE stx == proving(w)
           i   == worker[w].i
           n   == ledger.nonces[prov_key]
           t   == TaskAt[k]
<1>1. /\ NodeInv /\ ledger \in State /\ Agree(ledger) /\ i \in Nat /\ task(w) \in Task
      /\ task(w) = TaskAt[i + 1] /\ i < Len(TaskAt) /\ stx \in Sendable
  BY WorkerSends DEF WorkerInv, NodeInv, IInv, Sound, Proves
<1>2. /\ stx.author = prov_key /\ stx.tx.type = "SubmitProof" /\ stx.tx.task = task(w)
      /\ stx.tx.proof.ucu_count = Outcome[task(w)].ucu_count
      /\ stx.nonce = worker[w].prov_nonce
  BY DEF proving, sign, honest_proof
<1>3. worker[w].prov_nonce = 2 * i + 1
  BY DEF WorkerInv, in_step, Proves
<1>4. n = 2 * i + 1 /\ ledger'.nonces[prov_key] = 2 * i + 2
  BY <1>1, <1>2, <1>3, ProviderSends DEF Proves
<1>5. CanApply(ledger, stx) /\ ledger' = apply(ledger, stx)
  BY DEF Proves, Sends
<1>6. /\ ledger'.q_ledger[task(w)] # None
      /\ ledger'.q_ledger[task(w)].ucu = Outcome[task(w)].ucu_count
      /\ \A u \in Task \ {task(w)} : /\ ledger'.tasks[u] = ledger.tasks[u]
                                      /\ ledger'.q_ledger[u] = ledger.q_ledger[u]
  <2>1. LET x == apply(ledger, stx)
            v == stx.tx.task
        IN /\ x.q_ledger[v] # None
           /\ x.q_ledger[v].ucu = stx.tx.proof.ucu_count
           /\ \A u \in Task \ {v} : /\ x.tasks[u] = ledger.tasks[u]
                                     /\ x.q_ledger[u] = ledger.q_ledger[u]
    BY <1>1, <1>2, <1>5, AppliedTasks
  <2> HIDE DEF stx
  <2> QED BY <1>2, <1>5, <2>1
<1>7. t \in Task /\ k \in Nat /\ k >= 1 /\ (k = i + 1 <=> t = task(w))
  <2>1. i + 1 \in 1..Len(TaskAt) /\ t \in Task
    BY <1>1, TaskAtAssumption
  <2> QED BY <1>1, <2>1, TaskAtAssumption
<1>8. /\ ours(ledger, t) => ours(ledger', t)
      /\ ledger.q_ledger[t] # None => ledger'.q_ledger[t] = ledger.q_ledger[t]
  BY <1>1, <1>7, OursStays
<1>9. /\ n >= 2 * k - 1 => ours(ledger, t)
      /\ n >= 2 * k => /\ ledger.q_ledger[t] # None
                       /\ ledger.q_ledger[t].ucu = Outcome[t].ucu_count
      /\ ours(ledger, t) /\ ledger.q_ledger[t] # None => n >= 2 * k
  BY DEF as_counted
<1>10. t # task(w) => /\ ours(ledger', t) => ours(ledger, t)
                     /\ ledger'.q_ledger[t] = ledger.q_ledger[t]
  BY <1>6, <1>7 DEF ours
<1> HIDE DEF i, n, t, stx
<1>11. 2 * i + 2 >= 2 * k - 1 => ours(ledger', t)
  BY <1>1, <1>4, <1>7, <1>8, <1>9
<1>12. 2 * i + 2 >= 2 * k => /\ ledger'.q_ledger[t] # None
                            /\ ledger'.q_ledger[t].ucu = Outcome[t].ucu_count
  <2>1. CASE k = i + 1
    BY <1>6, <1>7, <2>1
  <2>2. CASE k # i + 1
    <3>1. 2 * i + 2 >= 2 * k => n >= 2 * k
      BY <1>1, <1>4, <1>7, <2>2
    <3> QED BY <1>8, <1>9, <3>1
  <2> QED BY <2>1, <2>2
<1>13. ours(ledger', t) /\ ledger'.q_ledger[t] # None => 2 * i + 2 >= 2 * k
  <2>1. CASE k = i + 1
    BY <1>1, <2>1
  <2>2. CASE k # i + 1
    BY <1>1, <1>4, <1>7, <1>9, <1>10, <2>2
  <2> QED BY <2>1, <2>2
<1> QED BY <1>4, <1>11, <1>12, <1>13 DEF as_counted, t

\* The tasks that a worker counted, and their work, grow by the next task.
LEMMA WorkGrows ==
  /\ work_of(0) = 0
  /\ \A i \in Nat : i < Len(TaskAt) =>
       work_of(i + 1) = work_of(i) + Outcome[TaskAt[i + 1]].ucu_count
<1>1. work_of(0) = 0
  <2> DEFINE f == [t \in counted(0) |-> Outcome[t].ucu_count]
  <2>1. counted(0) = {}
    BY DEF counted
  <2>2. DOMAIN f = {}
    BY <2>1
  <2> HIDE DEF f
  <2>3. SumFunction(f) = 0
    BY <2>2, SumEmpty DEF SumFunction
  <2> QED BY <2>3 DEF work_of, f
<1>2. ASSUME NEW i \in Nat, i < Len(TaskAt)
      PROVE  work_of(i + 1) = work_of(i) + Outcome[TaskAt[i + 1]].ucu_count
  <2> DEFINE v == TaskAt[i + 1]
             f == [t \in counted(i) |-> Outcome[t].ucu_count]
             g == [t \in counted(i + 1) |-> Outcome[t].ucu_count]
  <2>1. Len(TaskAt) \in Nat /\ i + 1 \in 1..Len(TaskAt) /\ 1..(i + 1) = 1..i \cup {i + 1}
    BY <1>2, TaskAtAssumption
  <2>2. counted(i + 1) = counted(i) \cup {v}
    BY <2>1 DEF counted
  <2>3. v \notin counted(i)
    <3>1. \A k \in 1..i : k \in 1..Len(TaskAt) /\ k # i + 1
      BY <1>2, <2>1
    <3> QED BY <2>1, <3>1, TaskAtAssumption DEF counted
  <2>4. counted(i + 1) \subseteq Task
    <3>1. \A k \in 1..(i + 1) : k \in 1..Len(TaskAt)
      BY <1>2, <2>1
    <3> QED BY <3>1, TaskAtAssumption DEF counted
  <2>5. IsFiniteSet(counted(i))
    BY <2>2, <2>4, FS_Subset, TaskAssumption
  <2>6. f \in [counted(i) -> Int] /\ g \in [counted(i + 1) -> Int]
    <3>1. \A y \in counted(i + 1) : Outcome[y].ucu_count \in Int
      <4> SUFFICES ASSUME NEW k \in 1..(i + 1) PROVE Outcome[TaskAt[k]].ucu_count \in Int
        BY DEF counted
      <4>1. k \in 1..Len(TaskAt)
        BY <1>2, <2>1
      <4> QED BY <4>1, WorkerOutcome
    <3> QED BY <2>2, <3>1
  <2>7. g[v] = Outcome[v].ucu_count /\ \A y \in counted(i) : g[y] = f[y]
    BY <2>2
  <2>8. work_of(i) = SumFunction(f) /\ work_of(i + 1) = SumFunction(g)
    BY DEF work_of
  <2> HIDE DEF f, g
  <2>9. SumFunction(g) = SumFunction(f) + g[v]
    BY <2>2, <2>3, <2>5, <2>6, <2>7, SumFunctionInsert
  <2> QED BY <2>7, <2>8, <2>9
<1> QED BY <1>1, <1>2

\* In one life of the node the count goes on.
LEMMA CountGoesOn ==
  ASSUME WorkerInv, SettledInv, [WorkerNext]_system, ~ NodeRestart,
         NEW k \in 1..Len(TaskAt)
  PROVE  as_counted(ledger', k)
<1>1. NodeInv /\ as_counted(ledger, k)
  BY DEF WorkerInv, SettledInv
<1>2. CASE UNCHANGED ledger
  BY <1>1, <1>2
<1>3. ASSUME NEW w \in Worker, WorkerStep(w) PROVE as_counted(ledger', k)
  <2>1. PICK at \in Progress :
          \/ Rests(w, at) \/ Submits(w, at) \/ Claims(w, at)
          \/ Proves(w, at) \/ Counts(w, at)
    BY <1>3, WorkerStepIs
  <2>2. [Next]_ledger
    BY <1>3, WorkerStepIs
  <2>3. CASE Rests(w, at) \/ Counts(w, at)
    BY <1>2, <2>3 DEF Rests, Counts
  <2>4. CASE Submits(w, at)
    BY <1>1, <2>2, <2>4, SubmissionCounts, OthersKeep
  <2>5. CASE Claims(w, at)
    BY <1>1, <2>2, <2>5, ClaimCounts
  <2>6. CASE Proves(w, at)
    BY <1>1, <2>2, <2>6, ProofCounts
  <2> QED BY <2>1, <2>3, <2>4, <2>5, <2>6
<1>4. CASE NodeNext
  <2>1. [Next]_ledger
    BY <1>1, <1>4, NodeStepRefines
  <2> QED BY <1>1, <1>4, <2>1, NodeNotOurs, OthersKeep
<1>5. CASE \/ UNCHANGED system
           \/ \E w \in Worker : RestartWorker(w)
  BY <1>2, <1>5 DEF system, vars, RestartWorker
<1> QED BY <1>3, <1>4, <1>5 DEF WorkerNext

\* A worker that has proved its task is counted, and its total is the work of the
\* tasks that it counted.
settled_by(nonces, life, at) ==
  /\ life = 1 /\ at.pc = "query" => nonces[prov_key] >= 2 * at.i + 2
  /\ at.total_ucu = work_of(at.i)

LEMMA SettledStep ==
  ASSUME WorkerInv, SettledInv, [WorkerNext]_system
  PROVE  SettledInv'
<1>1. /\ NodeInv /\ worker \in [Worker -> Progress] /\ lives \in Nat \ {0}
      /\ \A w \in Worker : in_step(worker[w])
      /\ \A w \in Worker : settled_by(ledger.nonces, lives, worker[w])
  BY DEF WorkerInv, SettledInv, settled_by
<1>2. SUFFICES /\ \A k \in 1..Len(TaskAt) : as_counted(ledger', k)
               /\ \A w \in Worker : settled_by(ledger'.nonces, lives', worker'[w])
  BY DEF SettledInv, settled_by
<1>3. CASE NodeRestart
  <2>1. ledger' = genesis /\ lives' # 1
    BY <1>1, <1>3 DEF NodeRestart, RestartNode
  <2>2. ASSUME NEW k \in 1..Len(TaskAt) PROVE as_counted(genesis, k)
    <3>1. TaskAt[k] \in Task /\ k \in Nat /\ k >= 1
      BY TaskAtAssumption
    <3>2. genesis.nonces[prov_key] = 0 /\ genesis.tasks[TaskAt[k]] = None
      BY <3>1, KeyAssumption DEF genesis, nobody, nothing
    <3> QED BY <3>1, <3>2 DEF as_counted, ours
  <2>3. ASSUME NEW w \in Worker PROVE settled_by(ledger'.nonces, lives', worker'[w])
    <3>1. \/ worker'[w] = worker[w] \/ worker'[w] = [worker[w] EXCEPT !.pc = "failed"]
      BY <1>3 DEF NodeRestart, goto
    <3>2. worker'[w].i = worker[w].i /\ worker'[w].total_ucu = worker[w].total_ucu
      BY <1>1, <3>1 DEF Progress
    <3> QED BY <1>1, <2>1, <3>2 DEF settled_by
  <2> QED BY <2>1, <2>2, <2>3
<1>4. CASE ~ NodeRestart
  <2>1. \A k \in 1..Len(TaskAt) : as_counted(ledger', k)
    BY <1>4, CountGoesOn
  <2>2. lives' = lives
    BY <1>4, WorkerStepIs DEF WorkerNext, RestartWorker, history, system
  <2>3. /\ ledger.nonces[prov_key] \in Nat
        /\ ledger'.nonces[prov_key] >= ledger.nonces[prov_key]
        /\ ledger'.nonces[prov_key] \in Nat
    <3>1. ledger' \in State
      BY WorkerInvStep DEF WorkerInv, NodeInv, IInv, Sound
    <3>2. ledger'.nonces \in [Identity -> Nat]
      BY <3>1, FieldType
    <3> QED BY <1>4, <3>2, NoncesGrow, KeyAssumption
  <2>4. ASSUME NEW v \in Worker, worker'[v] = worker[v]
        PROVE  settled_by(ledger'.nonces, lives', worker'[v])
    <3>1. settled_by(ledger.nonces, lives, worker[v]) /\ worker[v].i \in Nat
      BY <1>1, TaskAtAssumption DEF Progress
    <3> QED BY <2>2, <2>3, <2>4, <3>1 DEF settled_by
  <2>5. ASSUME NEW w \in Worker, NEW at, moves(w, at),
               settled_by(ledger'.nonces, lives', at)
        PROVE  \A v \in Worker : settled_by(ledger'.nonces, lives', worker'[v])
    <3>1. \A v \in Worker : worker'[v] = IF v = w THEN at ELSE worker[v]
      BY <1>1, <2>5 DEF moves
    <3> QED BY <2>4, <2>5, <3>1
  <2>6. ASSUME NEW w \in Worker, WorkerStep(w)
        PROVE  \A v \in Worker : settled_by(ledger'.nonces, lives', worker'[v])
    <3>1. PICK at \in Progress :
            /\ in_step(at) /\ moves(w, at)
            /\ \/ Rests(w, at) \/ Submits(w, at) \/ Claims(w, at)
               \/ Proves(w, at) \/ Counts(w, at)
      BY <2>6, WorkerStepIs
    <3>2. worker[w] \in Progress /\ worker[w].total_ucu = work_of(worker[w].i)
      BY <1>1 DEF settled_by
    <3>3. CASE Rests(w, at)
      <4>1. settled_by(ledger'.nonces, lives', at)
        BY <3>2, <3>3 DEF Rests, settled_by
      <4> QED BY <2>5, <3>1, <4>1
    <3>4. CASE Submits(w, at) \/ Claims(w, at)
      <4>1. at.pc # "query" /\ at.i = worker[w].i /\ at.total_ucu = worker[w].total_ucu
        BY <3>2, <3>4 DEF Submits, Claims, goto, after_claim, Progress
      <4>2. settled_by(ledger'.nonces, lives', at)
        BY <3>2, <4>1 DEF settled_by
      <4> QED BY <2>5, <3>1, <4>2
    <3>5. CASE Proves(w, at)
      <4>1. at.i = worker[w].i /\ at.total_ucu = worker[w].total_ucu
        BY <3>2, <3>5 DEF Proves, goto, Progress
      <4>2. proving(w).author = prov_key /\ proving(w).nonce = worker[w].prov_nonce
        BY DEF proving, sign
      <4>3. ledger'.nonces[prov_key] = worker[w].prov_nonce + 1
        BY <3>5, <4>2, ProviderSends DEF Proves
      <4>4. worker[w].prov_nonce = 2 * worker[w].i + 1
        BY <1>1, <3>5 DEF in_step, Proves
      <4>5. worker[w].i \in Nat
        BY <3>2, TaskAtAssumption DEF Progress
      <4>6. settled_by(ledger'.nonces, lives', at)
        BY <3>2, <4>1, <4>3, <4>4, <4>5 DEF settled_by
      <4> QED BY <2>5, <3>1, <4>6
    <3>6. CASE Counts(w, at)
      <4>1. /\ at.pc = "loop" /\ at.i = worker[w].i + 1
            /\ at.total_ucu = worker[w].total_ucu + Outcome[task(w)].ucu_count
            /\ worker[w].pc = "query"
        BY <3>6 DEF Counts
      <4>2. /\ worker[w].i \in Nat /\ worker[w].i < Len(TaskAt)
            /\ task(w) = TaskAt[worker[w].i + 1]
        BY <4>1, WorkerSends
      <4>3. settled_by(ledger'.nonces, lives', at)
        BY <3>2, <4>1, <4>2, WorkGrows DEF settled_by
      <4> QED BY <2>5, <3>1, <4>3
    <3> QED BY <3>1, <3>3, <3>4, <3>5, <3>6
  <2>7. ASSUME NEW w \in Worker, RestartWorker(w)
        PROVE  \A v \in Worker : settled_by(ledger'.nonces, lives', worker'[v])
    <3>1. moves(w, started)
      BY <2>7 DEF RestartWorker
    <3>2. settled_by(ledger'.nonces, lives', started)
      BY WorkGrows DEF settled_by, started
    <3> QED BY <2>5, <3>1, <3>2
  <2>8. ASSUME UNCHANGED worker
        PROVE  \A v \in Worker : settled_by(ledger'.nonces, lives', worker'[v])
    <3>1. \A v \in Worker : worker'[v] = worker[v]
      BY <2>8
    <3> QED BY <2>4, <3>1
  <2> QED BY <1>4, <2>1, <2>6, <2>7, <2>8 DEF WorkerNext, system
<1> QED BY <1>3, <1>4

\* What a worker counts was settled for it.
LEMMA CountsSettled ==
  ASSUME WorkerInv, SettledInv, NEW w \in Worker, NEW at, Counts(w, at),
         lives = 1 \/ ledger.tasks[task(w)].provider = prov_key
  PROVE  LET mine == counted(at.i)
         IN /\ \A t \in mine :
                 /\ ledger.q_ledger[t] # None
                 /\ ledger.tasks[t].provider = prov_key
                 /\ ledger.receipts[t].paid_to_provider = ledger.q_ledger[t].ucu
            /\ at.total_ucu = SumFunction([t \in mine |-> ledger.q_ledger[t].ucu])
<1> DEFINE i == worker[w].i
           n == ledger.nonces[prov_key]
<1>1. /\ ledger \in State /\ Agree(ledger) /\ i \in Nat /\ i < Len(TaskAt)
      /\ task(w) = TaskAt[i + 1] /\ task(w) \in Task /\ i + 1 \in 1..Len(TaskAt)
  <2>1. /\ ledger \in State /\ Agree(ledger) /\ i \in Nat /\ i < Len(TaskAt)
        /\ task(w) = TaskAt[i + 1] /\ task(w) \in Task
    BY WorkerSends DEF WorkerInv, NodeInv, IInv, Sound, Counts
  <2> QED BY <2>1, TaskAtAssumption
<1>2. /\ worker[w].pc = "query" /\ ledger.q_ledger[task(w)] # None /\ at.i = i + 1
      /\ at.total_ucu = worker[w].total_ucu + Outcome[task(w)].ucu_count
  BY DEF Counts
<1>3. n \in Nat
  <2>1. ledger.nonces \in [Identity -> Nat]
    BY <1>1, FieldType
  <2> QED BY <2>1, KeyAssumption
<1>4. n >= 2 * i + 2
  <2>1. CASE lives = 1
    BY <1>2, <2>1 DEF SettledInv
  <2>2. CASE ledger.tasks[task(w)].provider = prov_key
    <3>1. settled(ledger, task(w))
      BY <1>1, <1>2 DEF Agree, records_agree
    <3>2. ours(ledger, task(w))
      BY <2>2, <3>1 DEF settled, status, ours
    <3>3. n >= 2 * (i + 1)
      BY <1>1, <1>2, <3>2 DEF SettledInv, as_counted
    <3> QED BY <1>1, <1>3, <3>3
  <2> QED BY <2>1, <2>2
<1>5. ASSUME NEW k \in 1..(i + 1)
      PROVE  LET t == TaskAt[k]
             IN /\ ledger.q_ledger[t] # None /\ ledger.tasks[t].provider = prov_key
                /\ ledger.receipts[t].paid_to_provider = ledger.q_ledger[t].ucu
                /\ ledger.q_ledger[t].ucu = Outcome[t].ucu_count
  <2> DEFINE t == TaskAt[k]
  <2>1. k \in 1..Len(TaskAt) /\ n >= 2 * k /\ n >= 2 * k - 1 /\ t \in Task
    <3>1. k \in 1..Len(TaskAt) /\ n >= 2 * k /\ n >= 2 * k - 1
      <4>1. Len(TaskAt) \in Nat
        BY TaskAtAssumption
      <4>2. k <= i + 1 /\ i + 1 <= Len(TaskAt)
        BY <1>1, <4>1
      <4> HIDE DEF n, i
      <4> QED BY <1>1, <1>3, <1>4, <4>1, <4>2
    <3> QED BY <3>1, TaskAtAssumption
  <2>2. as_counted(ledger, k)
    BY <2>1 DEF SettledInv
  <2>3. /\ ours(ledger, t) /\ ledger.q_ledger[t] # None
        /\ ledger.q_ledger[t].ucu = Outcome[t].ucu_count
    BY <2>1, <2>2 DEF as_counted
  <2>4. records_agree(ledger, t)
    BY <1>1, <2>1 DEF Agree
  <2>5. ledger.receipts[t].paid_to_provider = ledger.q_ledger[t].ucu
    BY <2>3, <2>4 DEF records_agree
  <2> QED BY <2>3, <2>5 DEF ours
<1>6. worker[w].total_ucu + Outcome[task(w)].ucu_count = work_of(i + 1)
  BY <1>1, WorkGrows DEF SettledInv
<1>7. work_of(i + 1) = SumFunction([t \in counted(i + 1) |-> ledger.q_ledger[t].ucu])
  <2>1. [t \in counted(i + 1) |-> Outcome[t].ucu_count]
          = [t \in counted(i + 1) |-> ledger.q_ledger[t].ucu]
    BY <1>5 DEF counted
  <2> QED BY <2>1 DEF work_of
<1> HIDE DEF i
<1> QED BY <1>2, <1>5, <1>6, <1>7 DEF counted

\* The total of a worker is the work that the ledger settled for it, whatever other
\* workers with the same keys, other clients and restarts do in between.
THEOREM CountedIsSettled == WorkerSpec => TotalSettled
<1>1. WorkerInit => SettledInv
  <2> SUFFICES ASSUME WorkerInit PROVE SettledInv
    OBVIOUS
  <2>1. ledger = genesis /\ worker = [w \in Worker |-> started]
    BY DEF WorkerInit, NodeInit, Init
  <2>2. ASSUME NEW k \in 1..Len(TaskAt) PROVE as_counted(ledger, k)
    <3>1. TaskAt[k] \in Task /\ k \in Nat /\ k >= 1
      BY TaskAtAssumption
    <3>2. ledger.nonces[prov_key] = 0 /\ ledger.tasks[TaskAt[k]] = None
      BY <2>1, <3>1, KeyAssumption DEF genesis, nobody, nothing
    <3> QED BY <3>1, <3>2 DEF as_counted, ours
  <2> QED BY <2>1, <2>2, WorkGrows DEF SettledInv, started
<1>2. WorkerInv /\ SettledInv /\ [WorkerNext]_system => SettledInv'
  BY SettledStep
<1>3. WorkerSpec => []SettledInv
  BY <1>1, <1>2, WorkerSoundness, PTL DEF WorkerSpec
<1> DEFINE settles(w) ==
      /\ worker'[w].i > worker[w].i
      /\ lives = 1 \/ ledger.tasks[task(w)].provider = prov_key
      => LET mine == counted(worker'[w].i)
         IN /\ \A t \in mine :
                 /\ ledger.q_ledger[t] # None
                 /\ ledger.tasks[t].provider = prov_key
                 /\ ledger.receipts[t].paid_to_provider = ledger.q_ledger[t].ucu
            /\ worker'[w].total_ucu =
                 SumFunction([t \in mine |-> ledger.q_ledger[t].ucu])
<1>4. ASSUME WorkerInv, SettledInv, [WorkerNext]_system, NEW v \in Worker
      PROVE  settles(v)
  <2>1. worker \in [Worker -> Progress] /\ worker[v].i \in Nat
    BY <1>4, TaskAtAssumption DEF WorkerInv, Progress
  <2>2. CASE worker'[v].i = worker[v].i \/ worker'[v].i = 0
    BY <2>1, <2>2
  <2>3. ASSUME NEW w \in Worker, WorkerStep(w) PROVE settles(v)
    <3>1. PICK at \in Progress :
            /\ moves(w, at)
            /\ \/ Rests(w, at) \/ Submits(w, at) \/ Claims(w, at)
               \/ Proves(w, at) \/ Counts(w, at)
      BY <1>4, <2>3, WorkerStepIs
    <3>2. worker'[v] = IF v = w THEN at ELSE worker[v]
      BY <2>1, <3>1 DEF moves
    <3>3. CASE v # w
      BY <2>2, <3>2, <3>3
    <3>4. CASE v = w /\ (Rests(w, at) \/ Submits(w, at) \/ Claims(w, at) \/ Proves(w, at))
      <4>1. at.i = worker[w].i
        BY <2>1, <3>4 DEF Rests, Submits, Claims, Proves, goto, after_claim, Progress
      <4> QED BY <2>2, <3>2, <3>4, <4>1
    <3>5. CASE v = w /\ Counts(w, at)
      <4>1. worker'[v] = at
        BY <3>2, <3>5
      <4> QED BY <1>4, <3>5, <4>1, CountsSettled
    <3> QED BY <3>1, <3>3, <3>4, <3>5
  <2>4. ASSUME NEW w \in Worker, RestartWorker(w) PROVE settles(v)
    <3>1. worker'[v] = IF v = w THEN started ELSE worker[v]
      BY <2>1, <2>4 DEF RestartWorker, moves
    <3> QED BY <2>2, <3>1 DEF started
  <2>5. CASE NodeRestart
    <3>1. \/ worker'[v] = worker[v] \/ worker'[v] = [worker[v] EXCEPT !.pc = "failed"]
      BY <2>5 DEF NodeRestart, goto
    <3>2. worker'[v].i = worker[v].i
      BY <2>1, <3>1 DEF Progress
    <3> QED BY <2>2, <3>2
  <2>6. CASE UNCHANGED worker
    BY <2>2, <2>6
  <2> HIDE DEF settles
  <2> QED BY <1>4, <2>3, <2>4, <2>5, <2>6 DEF WorkerNext, system
<1>5. WorkerInv /\ SettledInv /\ [WorkerNext]_system
        => [\A w \in Worker : settles(w)]_system
  BY <1>4
<1> QED BY <1>3, <1>5, WorkerSoundness, PTL DEF WorkerSpec, TotalSettled
=============================================================================
