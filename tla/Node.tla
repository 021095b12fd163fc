-------------------------------- MODULE Node --------------------------------
(***************************************************************************)
(* The reference node of ducp-node: the ledger, the sequencer, the blobs   *)
(* and the chain behind one mutex, and the RPC calls that take it.         *)
(*                                                                         *)
(* An action is what one thread does while it holds the mutex.  A call     *)
(* that takes the mutex twice is two actions, and what other threads do    *)
(* in between is part of the model: the answer to a claim is read after    *)
(* the claim was committed, and a challenge is committed, then its inputs  *)
(* are gathered, then the proof is re-executed without the mutex, then the *)
(* verdict is applied.                                                     *)
(*                                                                         *)
(* The variable ledger of the module Ledger is the state of the node.      *)
(***************************************************************************)
EXTENDS Consensus

CONSTANTS
  Thread,      \* the server threads that run RPC calls
  Mail,        \* the signed transactions that clients may send, any number of times
  Blob,        \* content-addressed blobs
  Needs,       \* Needs[t]: the program and input blobs of the body of t
  Outcome,     \* Outcome[t]: what executing the body of t yields, None when it panics
  MaxBlocks    \* bound on the chain up to which an embedder resolves

ASSUME MailAssumption ==
  \A stx \in Mail : stx \in SignedTx /\ stx.nonce < MaxNonce
ASSUME NeedsAssumption == Needs \in [Task -> SUBSET Blob]
ASSUME OutcomeAssumption ==
  Outcome \in [Task -> [ucu_count : Nat, result : Result] \cup {None}]

VARIABLES
  sequencer,   \* the head of the chain
  blobs,       \* the blobs that were put
  blocks,      \* the chain
  block_txs,   \* the transactions of each block
  storage,     \* the last state saved
  rpc          \* what each thread is doing

node == <<ledger, sequencer, blocks, block_txs, storage>>
vars == <<ledger, sequencer, blobs, blocks, block_txs, storage, rpc>>

idle == [pc |-> "idle"]

NodeInit ==
  /\ Init
  /\ sequencer = new_sequencer
  /\ blobs = {} /\ blocks = << >> /\ block_txs = << >>
  /\ storage = genesis
  /\ rpc = [c \in Thread |-> idle]

-----------------------------------------------------------------------------
(***************************************************************************)
(* Under the mutex: adopt a block and save its post-state.                 *)
(***************************************************************************)
Publish(b, txs) ==
  /\ ledger'    = b.state_root
  /\ sequencer' = adopt(sequencer, b)
  /\ blocks'    = Append(blocks, b)
  /\ block_txs' = Append(block_txs, txs)
  /\ storage'   = b.state_root

\* submit: one transaction, one block.  When it is rejected the block is empty
\* and dropped, nothing changes, and the caller gets the Reject.
Submit(stx) ==
  LET proposal == produce(sequencer, <<stx>>, ledger)
  IN /\ proposal.block.txs # << >>
     /\ Publish(proposal.block, proposal.txs)

goes_on(c, pc) == rpc' = [rpc EXCEPT ![c] = pc]

-----------------------------------------------------------------------------
(***************************************************************************)
(* RPC calls.                                                              *)
(***************************************************************************)
\* ducp_submitTask, ducp_submitProof, ducp_transfer: done with the submit.
HandleTx ==
  \E c \in Thread, stx \in Mail :
    /\ rpc[c] = idle
    /\ stx.tx.type \in {"SubmitTask", "SubmitProof", "Transfer"}
    /\ Submit(stx)
    /\ UNCHANGED <<blobs, rpc>>

\* ducp_claimTask: submit, then read the stake for the answer.
HandleClaim ==
  \E c \in Thread, stx \in Mail :
    /\ rpc[c] = idle
    /\ stx.tx.type = "ClaimTask"
    /\ Submit(stx)
    /\ goes_on(c, [pc |-> "claimed", task |-> stx.tx.task, provider |-> stx.author,
                   stake |-> stake(ledger, stx.author, stx.tx.task)])
    /\ UNCHANGED blobs

AnswerClaim(c) ==
  /\ rpc[c].pc = "claimed"
  /\ goes_on(c, idle)
  /\ UNCHANGED <<node, blobs>>

\* ducp_challenge: submit, then resolve.
HandleChallenge ==
  \E c \in Thread, stx \in Mail :
    /\ rpc[c] = idle
    /\ stx.tx.type = "Challenge"
    /\ Submit(stx)
    /\ goes_on(c, [pc |-> "gather", task |-> stx.tx.task])
    /\ UNCHANGED blobs

\* resolve_pending_challenge is public: an embedder may call it for any task.
CallResolve ==
  \E c \in Thread, t \in Task :
    /\ rpc[c] = idle /\ Len(blocks) < MaxBlocks
    /\ goes_on(c, [pc |-> "gather", task |-> t])
    /\ UNCHANGED <<node, blobs>>

\* The body, the proof and both blobs have to be there, or the call ends in
\* UnknownTask and leaves a pending challenge as it is.
Gather(c) ==
  /\ rpc[c].pc = "gather"
  /\ LET t == rpc[c].task
     IN goes_on(c, IF ledger.proofs[t] # None /\ Needs[t] \subseteq blobs
                   THEN [pc |-> "check", task |-> t, proof |-> ledger.proofs[t]]
                   ELSE idle)
  /\ UNCHANGED <<node, blobs>>

\* Slip: only the result is compared.
is_fraud_unmetered(t, proof) == proof.result # Outcome[t].result

\* SampledReexecVerifier::check: the result and the metered work must match.
is_fraud(t, proof) ==
  ~ (proof.result = Outcome[t].result /\ proof.ucu_count = Outcome[t].ucu_count)

\* Re-execute the body with the proof gathered before and apply the verdict to the ledger of
\* now, in a system block, also when there is nothing left to resolve.
Resolve(c) ==
  /\ rpc[c].pc = "check" /\ Outcome[rpc[c].task] # None
  /\ LET fraud    == is_fraud(rpc[c].task, rpc[c].proof)
         resolved == resolve_challenge(ledger, rpc[c].task, fraud)
     IN Publish(seal_block(sequencer, resolved), << >>)
  /\ goes_on(c, idle)
  /\ UNCHANGED blobs

\* The guest makes the re-execution panic (it reads its input from beyond the
\* end): the call dies without an answer and without the mutex, and a pending
\* challenge stays as it is.
Panic(c) ==
  /\ rpc[c].pc = "check" /\ Outcome[rpc[c].task] = None
  /\ goes_on(c, idle)
  /\ UNCHANGED <<node, blobs>>

PutBlob ==
  \E b \in Blob \ blobs :
    /\ blobs' = blobs \cup {b}
    /\ UNCHANGED <<node, rpc>>

-----------------------------------------------------------------------------
\* Slip: the block is sealed with the epoch that just ended.
at_epoch_late(seq, s) == seq

\* SingleSequencer::advance_epoch enters the new epoch before the block is sealed.
at_epoch(seq, s) == [seq EXCEPT !.epoch = s.epoch]

EndEpoch ==
  /\ ledger.epoch < MaxEpoch
  /\ LET s == advance_epoch(ledger)
     IN Publish(seal_block(at_epoch(sequencer, s), s), << >>)
  /\ UNCHANGED <<blobs, rpc>>

\* The process ends and is started again with the same allocations: whatever the
\* storage holds is overwritten with the genesis state, never loaded, and the
\* calls in progress are lost.  A new life of the node, which is why it is no
\* part of NodeNext.
RestartNode ==
  /\ ledger' = genesis /\ storage' = genesis
  /\ sequencer' = new_sequencer
  /\ blobs' = {} /\ blocks' = << >> /\ block_txs' = << >>
  /\ rpc' = [c \in Thread |-> idle]

NodeNext ==
  \/ HandleTx
  \/ HandleClaim
  \/ HandleChallenge
  \/ CallResolve
  \/ PutBlob
  \/ EndEpoch
  \/ \E c \in Thread : AnswerClaim(c) \/ Gather(c) \/ Resolve(c) \/ Panic(c)

\* A call that has begun is run to its end: its thread is scheduled and gets
\* the mutex.  Nobody has to call, to put a blob or to end an epoch.
Fairness ==
  \A c \in Thread : WF_vars(AnswerClaim(c) \/ Gather(c) \/ Resolve(c) \/ Panic(c))

NodeSpec == NodeInit /\ [][NodeNext]_vars /\ Fairness
=============================================================================
