---------------------------- MODULE MCConformance -----------------------------
(***************************************************************************)
(* One 𝕌 is 10^5 base units, the largest power of ten whose fines TLC can  *)
(* compute, and the claimed work goes through the ceiling of ten 𝕌.        *)
(***************************************************************************)
EXTENDS Conformance

ScenarioBody == [t \in Task |-> task_body]

NoAllocation == [a \in Identity |-> 0]

\* The published works, the smallest ones, around the stake, and the ceiling.
SomeWork == {7142, 400000}
              \cup 0..3 \cup {99, 100, 499999, 500000, 500001, 999999}
              \cup {n * 100000 : n \in 1..10}
=============================================================================
