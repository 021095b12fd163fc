----------------------------- MODULE Consensus ------------------------------
(***************************************************************************)
(* Transactions as data and the single sequencer of crates/consensus:      *)
(* blocks produced from a mempool, sealed around a system transition, and  *)
(* replayed by a replica.                                                  *)
(*                                                                         *)
(* Hashes are taken as injective: the state_root of a state is the state   *)
(* itself, a TxId its transaction, and a block is known by its height, its *)
(* epoch, its transactions and its root.  The parent it also hashes is     *)
(* left out of block_hash, where it would nest the whole chain: each link  *)
(* is compared by itself.  A signature is known by the key that made it    *)
(* over the author, the transaction and the nonce it comes with; over      *)
(* anything else it is None.                                               *)
(***************************************************************************)
EXTENDS Ledger, SequencesExt

Tx == [type : {"SubmitTask", "ClaimTask"}, task : Task]
        \cup [type : {"SubmitProof"}, task : Task, proof : ComputeProof]
        \cup [type : {"Challenge"}, task : Task, bond : Ucu]
        \cup [type : {"Transfer"}, to : Identity, amount : Ucu]

SignedTx == [author : Identity, nonce : Nat, tx : Tx, sig : Identity \cup {None}]

sign(key, tx, nonce) == [author |-> key, nonce |-> nonce, tx |-> tx, sig |-> key]

\* Slip: any signature over the transaction is good.
verify_sig_any(stx) == stx.sig # None

verify_sig(stx) == stx.sig = stx.author

\* Slip: any nonce that was not used yet is good.
NonceOk_gap(s, stx) == stx.nonce >= s.nonces[stx.author]

NonceOk(s, stx) == stx.nonce = s.nonces[stx.author]

\* The Ok of apply: the author's signature and next nonce, then the guards of the
\* operation.
CanApply(s, stx) ==
  LET a == stx.author
      tx == stx.tx
  IN /\ verify_sig(stx)
     /\ NonceOk(s, stx)
     /\ CASE tx.type = "SubmitTask"  -> CanSubmitTask(s, a, tx.task)
          [] tx.type = "ClaimTask"   -> CanClaimTask(s, a, tx.task)
          [] tx.type = "SubmitProof" -> CanSubmitProof(s, a, tx.task, tx.proof)
          [] tx.type = "Challenge"   -> CanOpenChallenge(s, a, tx.task, tx.bond)
          [] tx.type = "Transfer"    -> CanTransfer(s, a, tx.amount)

effect(s, stx) ==
  LET a == stx.author
      tx == stx.tx
  IN CASE tx.type = "SubmitTask"  -> submit_task(s, a, tx.task)
       [] tx.type = "ClaimTask"   -> claim_task(s, a, tx.task)
       [] tx.type = "SubmitProof" -> submit_proof(s, tx.task, tx.proof)
       [] tx.type = "Challenge"   -> open_challenge(s, a, tx.task, tx.bond)
       [] tx.type = "Transfer"    -> transfer(s, a, tx.to, tx.amount)

\* Slip: the nonce of the author is checked and not bumped.
apply_unbumped(s, stx) == effect(s, stx)

apply(s, stx) == bump_nonce(effect(s, stx), stx.author)

-----------------------------------------------------------------------------
(***************************************************************************)
(* The sequencer: the head of the chain and the current epoch.             *)
(***************************************************************************)
block_hash(b) == [ height     |-> b.height,
                   epoch      |-> b.epoch,
                   txs        |-> b.txs,
                   state_root |-> b.state_root ]

zero == None \* the parent of the first block

new_sequencer == [height |-> 0, parent |-> zero, epoch |-> 0]

block_on(seq, txs, post_state) ==
  [ height     |-> seq.height + 1,
    parent     |-> seq.parent,
    epoch      |-> seq.epoch,
    txs        |-> txs,
    state_root |-> post_state ]

adopt(seq, b) == [height |-> b.height, parent |-> block_hash(b), epoch |-> b.epoch]

seal_block(seq, post_state) == block_on(seq, << >>, post_state)

\* The mempool is applied in order of arrival; what is rejected is skipped.
produce(seq, mempool, s) ==
  LET take(acc, stx) ==
        IF CanApply(acc.state, stx)
        THEN [state |-> apply(acc.state, stx), txs |-> Append(acc.txs, stx)]
        ELSE acc
      final == FoldLeft(take, [state |-> s, txs |-> << >>], mempool)
  IN [ block |-> block_on(seq, final.txs, final.state),
       txs   |-> final.txs,
       state |-> final.state ]

\* The state that the transactions txs lead to, None when one is rejected.
replayed(txs, s) ==
  LET replay(acc, stx) ==
        IF acc # None /\ CanApply(acc, stx) THEN apply(acc, stx) ELSE None
  IN FoldLeft(replay, s, txs)

\* Slip: the root of the block is not compared.
commit_unchecked(b, txs, s) == IF txs = b.txs THEN replayed(txs, s) ELSE None

\* Slip: the root is compared before the replay.
commit_early(b, txs, s) ==
  IF txs = b.txs /\ s = b.state_root THEN replayed(txs, s) ELSE None

\* The state a replica in state s reaches by replaying b with the transactions
\* txs, None when it rejects them.
commit(b, txs, s) ==
  IF txs = b.txs /\ replayed(txs, s) = b.state_root THEN b.state_root ELSE None
=============================================================================
