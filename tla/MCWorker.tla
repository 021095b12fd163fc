------------------------------ MODULE MCWorker ------------------------------
(***************************************************************************)
(* Two workers with the same keys and two tasks, another provider who may  *)
(* claim the first task, and a challenger of the second.                   *)
(***************************************************************************)
EXTENDS Worker, MCParams

CONSTANTS req, prov, chal, t1, t2, v0, right, wrong, th1, w1, w2, input1, input2

\* A stake of half the ceiling and little discount: what a task pays does not
\* make up for the stake that it locks.
StakeParams == [SmallParams EXCEPT !.stake_base_ppm = 5, !.sp_ref = 10]

\* The deadline is later than any epoch, as the worker sets it.
SmallBody == [t \in Task |->
  [max_ucu |-> 6, deadline |-> MaxEpoch + 1, benchmark |-> v0, supported |-> TRUE]]

\* Enough for one task after the other, without anything to spare; the provider
\* can stake for the second task only when the first stake was returned.
SmallAllocation == [a \in Identity |-> IF a = req THEN 13 ELSE 3]

SmallNeeds == [t \in Task |-> {program, IF t = t1 THEN input1 ELSE input2}]

SmallOutcome == [t \in Task |-> [ucu_count |-> IF t = t1 THEN 1 ELSE 2, result |-> right]]

SmallTaskAt == <<t1, t2>>

SmallMail ==
  {sign(chal, [type |-> "ClaimTask", task |-> t1], 0),
   sign(chal, [type |-> "SubmitProof", task |-> t1,
               proof |-> [ provider  |-> chal,  ucu_count |-> 1,
                           benchmark |-> v0,    result    |-> right ]], 1),
   sign(chal, [type |-> "Challenge", task |-> t2, bond |-> 1], 0)}
=============================================================================
