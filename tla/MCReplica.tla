----------------------------- MODULE MCReplica ------------------------------
(***************************************************************************)
(* An instance of the replica for TLC: the values of MCNode with one       *)
(* server thread, the life of one task, and a third account whose          *)
(* transactions may come before, between or after, so that the chains of   *)
(* two lives of the node differ and may meet again.                        *)
(***************************************************************************)
EXTENDS Replica, MCNode

LifeMail ==
  {signed(req, 0, [type |-> "SubmitTask", task |-> t1]),
   signed(prov, 0, [type |-> "ClaimTask", task |-> t1]),
   signed(prov, 1, [type |-> "SubmitProof", task |-> t1, proof |-> proof(1, right)]),
   signed(chal, 0, [type |-> "Challenge", task |-> t1, bond |-> 1]),
   signed(chal, 0, [type |-> "Transfer", to |-> req, amount |-> 1])}
=============================================================================
