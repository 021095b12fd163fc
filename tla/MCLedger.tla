------------------------------ MODULE MCLedger ------------------------------
(***************************************************************************)
(* Instances of the ledger for TLC.                                        *)
(***************************************************************************)
EXTENDS Words, MCParams, TLC

CONSTANTS alice, bob, carol, t1, t2, v0, v1, r

SmallBody == [t \in Task |->
  [ max_ucu   |-> 2,
    deadline  |-> 0,
    benchmark |-> v0,
    supported |-> TRUE ]]

SmallAllocation == [a \in Identity |-> 5]

\* A task whose ceiling is well above the work that a proof may report.
WideBody == [t \in Task |-> [SmallBody[t] EXCEPT !.max_ucu = 4]]

WideAllocation == [a \in Identity |-> 8]

\* The accounts start alike and the tasks have like bodies.
Symmetry == Permutations(Identity) \cup Permutations(Task)
=============================================================================
