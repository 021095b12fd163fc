------------------------------- MODULE Worker -------------------------------
(***************************************************************************)
(* ducp-worker, the load driver: a client that is requester and provider   *)
(* at once and runs task after task through the node, counting the nonces  *)
(* of both by itself.  Several workers may run with the same keys, other   *)
(* clients use the node meanwhile, a worker may be stopped at any point (a *)
(* call whose answer is lost stops it too) and started again, and so may   *)
(* the node, which then knows nothing of what the workers have counted.    *)
(***************************************************************************)
EXTENDS Node

CONSTANTS
  Worker,        \* processes started with the same two seeds
  req_key,       \* the account of requester_seed
  prov_key,      \* the account of provider_seed
  TaskAt,        \* TaskAt[i + 1]: the task whose body has nonce i
  program,       \* the blob of the program; every input is a blob of its own
  MaxWorkerRestarts,   \* bound on the restarts of workers
  MaxLives             \* bound on the lives of the node

\* A task id is the hash of its body, and no two bodies have the same nonce.
ASSUME TaskAtAssumption ==
  /\ TaskAt \in Seq(Task)
  /\ \A i, j \in 1..Len(TaskAt) : TaskAt[i] = TaskAt[j] => i = j

\* Two keys: the worker is the requester with the one and the provider with the
\* other.  Only the workers hold the provider's.
ASSUME KeyAssumption ==
  /\ req_key \in Identity /\ prov_key \in Identity /\ req_key # prov_key
  /\ \A stx \in Mail : stx.sig # prov_key

\* The bounds on nonces and amounts leave room for what a worker sends.  Its
\* program is the echo module, which reads its input from the start and so has an
\* outcome.
ASSUME RoomAssumption ==
  /\ 2 * Len(TaskAt) <= MaxNonce
  /\ \A i \in 1..Len(TaskAt) :
       Outcome[TaskAt[i]] # None /\ Outcome[TaskAt[i]].ucu_count \in Ucu

VARIABLES
  worker,    \* how far each worker is
  restarts,  \* of workers
  lives      \* of the node

history == <<restarts, lives>>
system  == <<vars, worker, history>>

started == [pc |-> "put_program", i |-> 0, prov_nonce |-> 0, total_ucu |-> 0]

WorkerInit ==
  /\ NodeInit
  /\ worker = [w \in Worker |-> started]
  /\ restarts = 0 /\ lives = 1

-----------------------------------------------------------------------------
moves(w, state) == worker' = [worker EXCEPT ![w] = state]

goto(w, pc) == [worker[w] EXCEPT !.pc = pc]

task(w) == TaskAt[worker[w].i + 1]

\* Slip: an error is not looked at.
on_error_ignored(w, next) == next

\* Every call is followed by "?": an error ends the process.
on_error(w, next) == goto(w, "failed")

rejected(stx) == produce(sequencer, <<stx>>, ledger).block.txs = << >>

\* A transaction that the worker signs with a nonce and sends.
Send(w, author, nonce, tx, next) ==
  LET stx == sign(author, tx, nonce)
  IN /\ \/ Submit(stx) /\ moves(w, next)
        \/ rejected(stx) /\ moves(w, on_error(w, next)) /\ UNCHANGED node
     /\ UNCHANGED <<blobs, rpc, history>>

\* Put a blob and go on: the call cannot fail.
PutProgram(w) ==
  /\ worker[w].pc = "put_program"
  /\ blobs' = blobs \cup {program}
  /\ moves(w, goto(w, "loop"))
  /\ UNCHANGED <<node, rpc, history>>

\* The head of the loop: done, or the input of the next task is put.
PutInput(w) ==
  /\ worker[w].pc = "loop" /\ worker[w].i < Len(TaskAt)
  /\ blobs' = blobs \cup Needs[task(w)]
  /\ moves(w, goto(w, "submit"))
  /\ UNCHANGED <<node, rpc, history>>

Finish(w) ==
  /\ worker[w].pc = "loop" /\ worker[w].i = Len(TaskAt)
  /\ moves(w, goto(w, "done"))
  /\ UNCHANGED <<vars, history>>

SendTask(w) ==
  /\ worker[w].pc = "submit"
  /\ Send(w, req_key, worker[w].i, [type |-> "SubmitTask", task |-> task(w)],
          goto(w, "claim"))

\* Slip: the nonce of the claim is used again for the proof.
after_claim_same(w) == goto(w, "prove")

after_claim(w) == [goto(w, "prove") EXCEPT !.prov_nonce = @ + 1]

SendClaim(w) ==
  /\ worker[w].pc = "claim"
  /\ Send(w, prov_key, worker[w].prov_nonce, [type |-> "ClaimTask", task |-> task(w)],
          after_claim(w))

\* Execute and prove what the execution yields.
SendProof(w) ==
  /\ worker[w].pc = "prove"
  /\ LET proof == [ provider  |-> prov_key,
                    ucu_count |-> Outcome[task(w)].ucu_count,
                    benchmark |-> Body[task(w)].benchmark,
                    result    |-> Outcome[task(w)].result ]
     IN Send(w, prov_key, worker[w].prov_nonce,
             [type |-> "SubmitProof", task |-> task(w), proof |-> proof],
             [goto(w, "query") EXCEPT !.prov_nonce = @ + 1])

\* Read the Q entry, count the work, next task.
GetQEntry(w) ==
  /\ worker[w].pc = "query"
  /\ moves(w, IF ledger.q_ledger[task(w)] = None THEN goto(w, "failed")
              ELSE [ pc         |-> "loop",
                     i          |-> worker[w].i + 1,
                     prov_nonce |-> worker[w].prov_nonce,
                     total_ucu  |-> worker[w].total_ucu + Outcome[task(w)].ucu_count ])
  /\ UNCHANGED <<vars, history>>

\* Stopped at any point and started again with the same command line: nothing
\* is kept, both nonces begin at zero.
RestartWorker(w) ==
  /\ restarts < MaxWorkerRestarts
  /\ worker[w] # started
  /\ moves(w, started)
  /\ restarts' = restarts + 1
  /\ UNCHANGED <<vars, lives>>

in_call(w) == worker[w].pc \notin {"failed", "done"}

\* The node begins another life.  The workers that had a call in progress get an
\* error; the others notice nothing.
NodeRestart ==
  /\ lives < MaxLives
  /\ RestartNode
  /\ \E cut \in SUBSET {w \in Worker : in_call(w)} :
       worker' = [w \in Worker |-> IF w \in cut THEN goto(w, "failed") ELSE worker[w]]
  /\ lives' = lives + 1
  /\ UNCHANGED restarts

WorkerStep(w) ==
  \/ PutProgram(w) \/ PutInput(w) \/ SendTask(w) \/ SendClaim(w) \/ SendProof(w)
  \/ GetQEntry(w) \/ Finish(w)

WorkerNext ==
  \/ \E w \in Worker : WorkerStep(w) \/ RestartWorker(w)
  \/ NodeRestart
  \/ NodeNext /\ UNCHANGED <<worker, history>>

\* A worker that runs goes on; the node answers it.
WorkerSpec ==
  /\ WorkerInit /\ [][WorkerNext]_system
  /\ \A w \in Worker : WF_system(WorkerStep(w))

-----------------------------------------------------------------------------
(***************************************************************************)
(* Properties.                                                             *)
(***************************************************************************)
\* The tasks that a worker which counted i has counted.
counted(i) == {TaskAt[k] : k \in 1..i}

\* What a worker prints is what the ledger settled: when it counts a task its
\* total is the work in the Q entries of all the tasks it counted, each paid to
\* its provider, whatever other workers with the same keys and other clients did
\* in between.  A restart of the node does not change that: the nonces let only
\* such a worker go on whose tasks were settled again.  There is one exception:
\* a worker that proved its task, and finds the node restarted when it asks for
\* the Q entry, takes what a rival settled by then for its own.
TotalSettled ==
  [][\A w \in Worker :
       /\ worker'[w].i > worker[w].i
       /\ lives = 1 \/ ledger.tasks[task(w)].provider = prov_key
       => LET mine == counted(worker'[w].i)
          IN /\ \A t \in mine :
                  /\ ledger.q_ledger[t] # None
                  /\ ledger.tasks[t].provider = prov_key
                  /\ ledger.receipts[t].paid_to_provider = ledger.q_ledger[t].ucu
             /\ worker'[w].total_ucu =
                  SumFunction([t \in mine |-> ledger.q_ledger[t].ucu])]_system

driving(w) == worker[w].i > 0 \/ worker[w].pc \in {"claim", "prove", "query"}

\* Of the workers with the same keys one drives the tasks: a second one, or one
\* that was restarted, is turned away before it has a task of its own, as long as
\* the node lives.
OneDriver ==
  lives = 1 => \A w1, w2 \in Worker : driving(w1) /\ driving(w2) => w1 = w2

keys_shared(w) ==
  \/ restarts > 0 \/ lives > 1
  \/ \E other \in Worker \ {w} : worker[other] # started

rival_claimed ==
  \E t \in Task : /\ ledger.tasks[t] # None
                  /\ ledger.tasks[t].provider \notin {None, prov_key}

\* A claim of the provider that it cannot pay for: its stakes are all locked, and
\* only the end of an epoch would return them.
out_of_stake ==
  \E t \in Task : /\ status(ledger, t) = "Submitted"
                  /\ ledger.balance[prov_key] < stake(ledger, prov_key, t)

\* A worker fails for one of four reasons: somebody else signs with its keys, the
\* node or it was restarted, a rival claimed a task, or its stakes are used up.
\* By itself it never gets out of step with the ledger.
FailsForAReason ==
  [][\A w \in Worker :
       worker[w].pc # "failed" /\ worker'[w].pc = "failed" =>
         keys_shared(w) \/ lives' > 1 \/ rival_claimed \/ out_of_stake]_system

\* Without such a reason some worker gets all tasks settled, also when two of them
\* with the same keys get in each other's way.
SomeWorkerFinishes ==
  \/ <>(\E w \in Worker : worker[w].pc = "done")
  \/ <>(restarts > 0 \/ lives > 1)
  \/ <>rival_claimed
  \/ <>out_of_stake
=============================================================================
