--------------------------- MODULE NodeProperties ---------------------------
(***************************************************************************)
(* What the node promises on top of the ledger.                            *)
(***************************************************************************)
EXTENDS Node

Call == [pc : {"idle"}]
          \cup [pc : {"claimed"}, task : Task, provider : Identity, stake : Nat]
          \cup [pc : {"gather"}, task : Task]
          \cup [pc : {"check"}, task : Task, proof : ComputeProof]

NodeTypeOK ==
  /\ ledger \in State /\ storage \in State
  /\ sequencer.height \in Nat /\ sequencer.epoch \in Nat
  /\ blobs \subseteq Blob
  /\ rpc \in [Thread -> Call]

root(h) == IF h = 0 THEN genesis ELSE blocks[h].state_root

\* The chain links up: heights without gaps, each block on the hash of the one
\* before, its transactions beside it, the head of the sequencer, the ledger
\* and the storage at its end, and each block in the epoch of its post-state.
ChainLinked ==
  /\ Len(blocks) = sequencer.height /\ Len(block_txs) = sequencer.height
  /\ \A h \in 1..Len(blocks) :
       /\ blocks[h].height = h
       /\ blocks[h].parent = IF h = 1 THEN zero ELSE block_hash(blocks[h - 1])
       /\ blocks[h].txs = block_txs[h]
       /\ blocks[h].epoch = blocks[h].state_root.epoch
  /\ sequencer.parent = IF blocks = << >> THEN zero ELSE block_hash(Last(blocks))
  /\ ledger = root(Len(blocks)) /\ storage = ledger

\* The places of the transactions in the chain, and their order.
places == UNION {{h} \X DOMAIN block_txs[h] : h \in DOMAIN block_txs}

tx_at(p) == block_txs[p[1]][p[2]]

before(p, r) == p[1] < r[1] \/ (p[1] = r[1] /\ p[2] < r[2])

\* However often a client sends a transaction and in whatever order the calls
\* arrive, the chain has each author's nonces once each and in order, on
\* transactions that the author signed as they are.
NoReplay ==
  /\ \A p \in places : /\ tx_at(p).sig = tx_at(p).author
                       /\ tx_at(p).nonce < ledger.nonces[tx_at(p).author]
  /\ \A p, r \in places :
       (before(p, r) /\ tx_at(p).author = tx_at(r).author)
         => tx_at(p).nonce < tx_at(r).nonce
  /\ \A a \in Identity : \A n \in 0..(ledger.nonces[a] - 1) :
       \E p \in places : tx_at(p).author = a /\ tx_at(p).nonce = n

\* The answer to a claim is read with a second lock, after other calls may
\* have run: it is still the stake of this claim, of this provider.
ClaimAnswerTrue ==
  \A c \in Thread :
    rpc[c].pc = "claimed" =>
      /\ ledger.tasks[rpc[c].task].provider = rpc[c].provider
      /\ ledger.tasks[rpc[c].task].claim_stake = rpc[c].stake

honest(t) == /\ Outcome[t] # None
             /\ ledger.proofs[t].result = Outcome[t].result
             /\ ledger.proofs[t].ucu_count = Outcome[t].ucu_count

\* A verdict is computed without the lock from a copy of the proof and applied
\* to whatever the ledger is by then.  Still a challenge is decided by the
\* proof the ledger holds: a task is slashed exactly if that proof is wrong,
\* whichever thread decides, whoever's challenge it meets and however late.
VerdictSound ==
  [][\A t \in Task :
       (/\ ledger.pending_challenges[t] # None
        /\ ledger'.pending_challenges[t] = None)
       => ((t \in ledger'.slashed) = ~ honest(t))]_vars

\* Nobody is slashed who proved what re-execution yields.
HonestNeverSlashed == \A t \in ledger.slashed : ~ honest(t)

\* The node implements the ledger state machine: every transaction, epoch and
\* verdict it publishes is one step of it, every other step none.
LedgerSpec == Spec

\* A challenge call whose inputs are there, and whose task can be executed to an
\* outcome, is resolved, although other calls and epochs run between its steps
\* and calls for other tasks die.
ChallengeResolved ==
  \A c \in Thread, t \in Task :
    (/\ rpc[c].pc = "gather" /\ rpc[c].task = t
     /\ Needs[t] \subseteq blobs /\ Outcome[t] # None)
      ~> (ledger.pending_challenges[t] = None)

-----------------------------------------------------------------------------
(***************************************************************************)
(* What the repository says of the node and the code does not do.          *)
(***************************************************************************)
\* "Lock the bond + record the challenge, then re-execute and resolve" (the
\* challenge call): a bond that was locked is not locked for ever.
BondNotStuck ==
  \A t \in Task :
    (ledger.pending_challenges[t] # None) ~> (ledger.pending_challenges[t] = None)
=============================================================================
