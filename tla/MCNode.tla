------------------------------- MODULE MCNode -------------------------------
(***************************************************************************)
(* Instances of the node for TLC: a requester, a provider and a            *)
(* challenger, and the transactions they have signed.                      *)
(***************************************************************************)
EXTENDS NodeProperties, MCParams, TLC

CONSTANTS req, prov, chal, t1, t2, v0, right, wrong, th1, th2, program

SmallBody == [t \in Task |->
  [max_ucu |-> 2, deadline |-> 0, benchmark |-> v0, supported |-> TRUE]]

\* The requester can pay for the task and little else.
SmallAllocation == [a \in Identity |-> IF a = req THEN 4 ELSE 5]

SmallNeeds == [t \in Task |-> Blob]

\* The first task has an outcome, the second one reads beyond its input.
SmallOutcome == [t \in Task |-> IF t = t1 THEN [ucu_count |-> 1, result |-> right] ELSE None]

proof(u, res) == [provider |-> prov, ucu_count |-> u, benchmark |-> v0, result |-> res]

signed(a, n, tx) == sign(a, tx, n)

\* One task, for which the provider and the challenger compete; the provider
\* may prove it well, with a wrong result or with too much work; both the
\* challenger and the requester may challenge, the challenger twice; a transfer
\* may take a nonce or the bond away.  A claim in the name of the provider was
\* signed with the wrong key, and the nonce of a transfer was changed after it was
\* signed.
SmallMail ==
  {signed(req, 0, [type |-> "SubmitTask", task |-> t1]),
   signed(prov, 0, [type |-> "ClaimTask", task |-> t1]),
   signed(chal, 0, [type |-> "ClaimTask", task |-> t1]),
   signed(prov, 1, [type |-> "SubmitProof", task |-> t1, proof |-> proof(1, right)]),
   signed(prov, 1, [type |-> "SubmitProof", task |-> t1, proof |-> proof(2, right)]),
   signed(prov, 1, [type |-> "SubmitProof", task |-> t1, proof |-> proof(1, wrong)]),
   signed(prov, 2, [type |-> "SubmitProof", task |-> t1, proof |-> proof(1, right)]),
   signed(chal, 0, [type |-> "Challenge", task |-> t1, bond |-> 1]),
   signed(chal, 1, [type |-> "Challenge", task |-> t1, bond |-> 1]),
   signed(req, 1, [type |-> "Challenge", task |-> t1, bond |-> 2]),
   signed(req, 1, [type |-> "Transfer", to |-> chal, amount |-> 2]),
   [signed(prov, 0, [type |-> "ClaimTask", task |-> t1]) EXCEPT !.sig = chal],
   [signed(req, 0, [type |-> "Transfer", to |-> chal, amount |-> 2]) EXCEPT !.sig = None]}

\* Or the requester submits the second task instead; one proof of it is as good as
\* another.
PanicMail == SmallMail \cup
  {signed(req, 0, [type |-> "SubmitTask", task |-> t2]),
   signed(prov, 0, [type |-> "ClaimTask", task |-> t2]),
   signed(prov, 1, [type |-> "SubmitProof", task |-> t2, proof |-> proof(1, right)]),
   signed(chal, 0, [type |-> "Challenge", task |-> t2, bond |-> 1])}

Symmetry == Permutations(Thread)
=============================================================================
