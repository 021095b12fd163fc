-------------------------------- MODULE Words ---------------------------------
(***************************************************************************)
(* Amounts in machine words.  The code keeps every amount in a word of 128 *)
(* bits and a client may name any word as the ceiling of a task.  The fee  *)
(* of that ceiling is computed twice before a balance is looked at: by the *)
(* call, for its answer, and by the ledger.  In a release build a product  *)
(* or a sum that is no word wraps around.  In a debug build it panics, and *)
(* the call does so first, before it takes the mutex.                      *)
(***************************************************************************)
EXTENDS LedgerProperties

CONSTANT Word    \* the number of values of a word: 2^128 in the code

ASSUME WordAssumption == Word \in Nat \ {0}

Amount == 0..(Word - 1)

\* The fee as a release build computes it.
word_fee(max_ucu) == ((max_ucu * params.fee_ppm) % Word) \div PPM

\* What submitTask says it escrowed: a sum that nobody checks.
answer(max_ucu) == (max_ucu + word_fee(max_ucu)) % Word

\* Slip: the ledger does not check the sum either.
word_affords_unchecked(balance, max_ucu) == balance >= answer(max_ucu)

\* The guard of submit_task: a sum that is no word is Invalid.
word_affords(balance, max_ucu) ==
  /\ max_ucu + word_fee(max_ucu) < Word
  /\ balance >= max_ucu + word_fee(max_ucu)

\* Whatever ceiling a client names, and although its fee may wrap around, a task
\* is admitted exactly if the account can pay for it, and the answer of the call
\* is then what was escrowed.
WordsAdmitAlike ==
  \A a \in Identity, max_ucu \in Amount :
    LET due == max_ucu + fee(max_ucu)
    IN /\ word_affords(ledger.balance[a], max_ucu) <=> ledger.balance[a] >= due
       /\ ledger.balance[a] >= due => answer(max_ucu) = due
=============================================================================
