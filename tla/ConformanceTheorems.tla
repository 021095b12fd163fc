------------------------- MODULE ConformanceTheorems --------------------------
(***************************************************************************)
(* The outcomes of the conformance scenarios, for every PPM that is a      *)
(* multiple of 1000, every scale of one 𝕌 that divides into hundredths,    *)
(* any work up to the ceiling, and any further accounts and tasks: the     *)
(* code's own scales are an instance.                                      *)
(*                                                                         *)
(* A scenario is deterministic, so each step of a script leads to a state  *)
(* that is known (reached).  The amounts of these states are computed one  *)
(* after the other (Settled, Disputed, Convicted); the invariant says      *)
(* which of them the ledger is in.                                         *)
(***************************************************************************)
EXTENDS Conformance, LedgerRecords

-----------------------------------------------------------------------------
(***************************************************************************)
(* The devnet amounts.                                                     *)
(***************************************************************************)
\* The quotient is what leaves a rest smaller than the divisor.
LEMMA QuotientIs ==
  ASSUME NEW d \in Nat, d > 0, NEW q \in Int, NEW r \in Int, 0 <= r, r < d
  PROVE  (q * d + r) \div d = q
<1> DEFINE a == q * d + r
           x == a \div d
<1>1. a \in Int /\ x \in Int /\ x * d <= a /\ a < x * d + d
  OBVIOUS
<1>2. q * d <= a /\ a < q * d + d
  OBVIOUS
<1> HIDE DEF a, x
<1>3. ~ x < q
  <2> SUFFICES ASSUME x + 1 <= q PROVE FALSE
    BY <1>1
  <2>1. (x + 1) * d <= q * d
    BY <1>1
  <2>2. (x + 1) * d = x * d + d
    BY <1>1
  <2> QED BY <1>1, <1>2, <2>1, <2>2
<1>4. ~ q < x
  <2> SUFFICES ASSUME q + 1 <= x PROVE FALSE
    BY <1>1
  <2>1. (q + 1) * d <= x * d
    BY <1>1
  <2>2. (q + 1) * d = q * d + d
    OBVIOUS
  <2> QED BY <1>1, <1>2, <2>1, <2>2
<1> QED BY <1>1, <1>3, <1>4 DEF x, a

\* A thousandth of PPM is a whole number.
LEMMA Thousandth ==
  /\ PPM \div 1000 \in Nat /\ PPM \div 1000 > 0
  /\ PPM = 1000 * (PPM \div 1000)
BY PpmPositive, RateAssumption

\* A rate of n thousandths takes n thousandths, rounded down.
LEMMA ThousandthsOf ==
  ASSUME NEW x \in Nat, NEW n \in Nat
  PROVE  ppm_of(x, thousandths(n)) = (x * n) \div 1000
<1> DEFINE k == PPM \div 1000
           y == x * n
           q == y \div 1000
           r == y % 1000
<1>1. k \in Nat /\ k > 0 /\ PPM = 1000 * k
  BY Thousandth
<1>2. y \in Nat
  OBVIOUS
<1> HIDE DEF k
<1>3. x * (n * k) = y * k
  BY <1>1
<1> HIDE DEF y
<1>4. q \in Int /\ r \in Int /\ 0 <= r /\ r < 1000 /\ y = q * 1000 + r
  BY <1>2
<1> HIDE DEF q, r
<1>5. y * k = q * (1000 * k) + r * k
  BY <1>1, <1>4
<1>6. r * k \in Int /\ 0 <= r * k /\ r * k < 1000 * k
  BY <1>1, <1>4
<1> DEFINE d == 1000 * k
           e == r * k
<1>7. d \in Nat /\ d > 0 /\ e \in Int /\ 0 <= e /\ e < d
  BY <1>1, <1>6
<1>8. y * k = q * d + e
  BY <1>5
<1> HIDE DEF d, e
<1>9. (y * k) \div d = q
  BY <1>4, <1>7, <1>8, QuotientIs
<1> QED BY <1>1, <1>3, <1>9 DEF ppm_of, thousandths, k, d, q, y

\* A rate of PPM takes all.
LEMMA AllOf ==
  ASSUME NEW x \in Nat
  PROVE  ppm_of(x, PPM) = x
<1>1. (x * PPM + 0) \div PPM = x
  BY PpmPositive, QuotientIs
<1>2. x * PPM + 0 = x * PPM
  BY PpmPositive
<1> QED BY <1>1, <1>2 DEF ppm_of

\* One hundredth of one 𝕌.
LEMMA CentiType ==
  /\ UCU_SCALE \div 100 \in Nat /\ UCU_SCALE \div 100 >= 100
  /\ UCU_SCALE = 100 * (UCU_SCALE \div 100)
BY ScaleAssumption

\* The rates of work.
LEMMA WorkAmounts ==
  ASSUME NEW u \in Nat
  PROVE  /\ issuance(u) = (u * 10) \div 1000
         /\ standing_accrual(u) = u
         /\ fine(u) = 2 * u
         /\ challenger_reward(2 * u) = u
         /\ bond_min(u) = (u * 250) \div 1000
<1>1. /\ params.issuance_rate_ppm = thousandths(10)
      /\ params.sp_rate_ppm = PPM /\ params.efficiency_mult_ppm = PPM
      /\ params.fine_mult_ppm = thousandths(2000)
      /\ params.challenger_reward_ppm = thousandths(500)
      /\ params.bond_min_ppm = thousandths(250)
  BY DevnetAssumption DEF devnet
<1>2. (u * 2000) \div 1000 = 2 * u /\ ((2 * u) * 500) \div 1000 = u
  OBVIOUS
<1>3. ppm_of(ppm_of(u, PPM), PPM) = u
  BY AllOf
<1> QED BY <1>1, <1>2, <1>3, ThousandthsOf
        DEF issuance, standing_accrual, fine, challenger_reward, bond_min

\* What the task costs its requester, and the stake of a provider without Standing.
LEMMA TaskAmounts ==
  /\ Body[task].max_ucu = 10 * UCU_SCALE
  /\ Body[task].max_ucu \in Nat
  /\ fee(Body[task].max_ucu) = UCU_SCALE \div 100
  /\ need(task) = 10 * UCU_SCALE + UCU_SCALE \div 100
  /\ claim_stake(Body[task].max_ucu, 0) = 5 * UCU_SCALE
<1> DEFINE c == UCU_SCALE \div 100
<1>1. c \in Nat /\ c >= 100 /\ UCU_SCALE = 100 * c
  BY CentiType
<1>2. Body[task].max_ucu = 10 * UCU_SCALE
  BY ScriptAssumption DEF task_body
<1>3. 10 * UCU_SCALE \in Nat /\ 5 * UCU_SCALE \in Nat
  BY <1>1
<1> HIDE DEF c
<1>4. fee(10 * UCU_SCALE) = c
  <2>1. params.fee_ppm = thousandths(1)
    BY DevnetAssumption DEF devnet
  <2>2. ((10 * UCU_SCALE) * 1) \div 1000 = c
    BY <1>1
  <2> QED BY <1>3, <2>1, <2>2, ThousandthsOf DEF fee
<1>5. stake_base(10 * UCU_SCALE) = 5 * UCU_SCALE
  <2>1. params.stake_base_ppm = thousandths(500)
    BY DevnetAssumption DEF devnet
  <2>2. ((10 * UCU_SCALE) * 500) \div 1000 = 5 * UCU_SCALE
    BY <1>1
  <2> QED BY <1>3, <2>1, <2>2, ThousandthsOf DEF stake_base
<1>6. discount_reduction_ppm(0) = 0
  <2>1. params.sp_ref = 1000 * UCU_SCALE /\ params.discount_max_ppm \in 0..PPM
    BY DevnetAssumption, ParamsAssumption DEF devnet, Params
  <2>2. params.sp_ref \in Nat /\ params.sp_ref > 0
    BY <1>1, <2>1
  <2>3. (0 * PPM) \div params.sp_ref = 0
    BY <2>2, PpmPositive
  <2> QED BY <2>1, <2>2, <2>3, PpmPositive DEF discount_reduction_ppm, Least
<1>7. claim_stake(10 * UCU_SCALE, 0) = 5 * UCU_SCALE
  <2>1. PPM - 0 = PPM
    BY PpmPositive
  <2> QED BY <1>3, <1>5, <1>6, <2>1, AllOf DEF claim_stake
<1> QED BY <1>2, <1>3, <1>4, <1>7 DEF need, c

-----------------------------------------------------------------------------
(***************************************************************************)
(* The states of a script, by their amounts.                               *)
(***************************************************************************)
Holds(s, a, balance, escrowed, bonded) ==
  s.balance[a] = balance /\ s.escrowed[a] = escrowed /\ s.bonded[a] = bonded

endowed(r)   == IF r = "fraud" THEN allotted ELSE 0
endowment(r) == IF r = "fraud" THEN 3 * allotted ELSE 2 * allotted
posted       == 5 * UCU_SCALE
bond_of(u)   == AtLeastOne(bond_min(u))

\* Where only the task moves, and nobody was judged.
Peaceful(s) ==
  /\ s \in State
  /\ s.epoch = 0 /\ s.slashed = {} /\ s.released = {} /\ s.burned = 0
  /\ s.strikes[prov] = 0
  /\ \A t \in Task : t # task => s.tasks[t] = None /\ s.receipts[t] = None

Undisputed(s, r) ==
  /\ Peaceful(s)
  /\ \A t \in Task : s.pending_challenges[t] = None
  /\ Holds(s, chal, endowed(r), 0, 0) /\ s.nonces[chal] = 0

\* Before the settlement nothing is earned.
Unearned(s, r) ==
  /\ Undisputed(s, r)
  /\ s.receipts[task] = None
  /\ s.sp[prov] = 0 /\ s.minted = endowment(r) /\ s.fee_pool = 0

Fresh(s, r) ==
  /\ Unearned(s, r)
  /\ Holds(s, req, allotted, 0, 0) /\ Holds(s, prov, allotted, 0, 0)
  /\ s.nonces[req] = 0 /\ s.nonces[prov] = 0
  /\ s.tasks[task] = None

submission(st, provider, locked, u) ==
  [ status      |-> st,
    requester   |-> req,
    provider    |-> provider,
    fee         |-> centi(1),
    claim_stake |-> locked,
    ucu_count   |-> u ]

Posted(s, r) ==
  /\ Unearned(s, r)
  /\ Holds(s, req, allotted - need(task), need(task), 0)
  /\ Holds(s, prov, allotted, 0, 0)
  /\ s.nonces[req] = 1 /\ s.nonces[prov] = 0
  /\ s.tasks[task] = submission("Submitted", None, 0, 0)

Claimed(s, r) ==
  /\ Unearned(s, r)
  /\ Holds(s, req, allotted - need(task), need(task), 0)
  /\ Holds(s, prov, allotted - posted, 0, posted)
  /\ s.nonces[req] = 1 /\ s.nonces[prov] = 1
  /\ s.tasks[task] = submission("Executing", prov, posted, 0)

settled_receipt(u) ==
  [ paid_to_provider |-> u,        work_issuance  |-> issuance(u),
    validator_fee    |-> centi(1), standing_delta |-> u,
    settled_epoch    |-> 0,        clawback_until |-> 32 ]

\* What the settlement leaves, apart from the challenger's money.
Earned(s, r, u) ==
  /\ Peaceful(s)
  /\ Holds(s, req, allotted - centi(1) - u, 0, 0)
  /\ Holds(s, prov, allotted - posted + u + issuance(u), 0, posted)
  /\ s.nonces[prov] = 2
  /\ s.tasks[task] = submission("Settled", prov, posted, u)
  /\ s.proofs[task] = proof(r, u)
  /\ s.receipts[task] = settled_receipt(u)
  /\ s.q_ledger[task] = [ucu |-> u, benchmark |-> Body[task].benchmark, q |-> None]
  /\ s.sp[prov] = u /\ s.minted = endowment(r) + issuance(u)
  /\ s.fee_pool = centi(1)

Settled(s, r, u) == Earned(s, r, u) /\ Undisputed(s, r)

Disputed(s, u) ==
  /\ Earned(s, "fraud", u)
  /\ Holds(s, chal, allotted - bond_of(u), 0, bond_of(u))
  /\ s.pending_challenges[task] = [challenger |-> chal, bond |-> bond_of(u)]

\* What the verdict takes from the stake: for the requester, as a fine, and of
\* that for the challenger.
recovery(u) == Least(u, posted)
fined(u)    == Least(2 * u, posted - recovery(u))
reward(u)   == Least(u, fined(u))

Convicted(s, u) ==
  /\ Holds(s, req, allotted - centi(1) - u + recovery(u), 0, 0)
  /\ Holds(s, prov, allotted - posted + u, 0, posted - recovery(u) - fined(u))
  /\ Holds(s, chal, allotted + reward(u), 0, 0)
  /\ s.sp[prov] = 0 /\ s.strikes[prov] = 1
  /\ s.minted = 3 * allotted + issuance(u)
  /\ s.burned = issuance(u) + (fined(u) - reward(u))
  /\ s.fee_pool = centi(1)

\* While the window of the task is open, and from the epoch that closes it.
Maturing(s, u) ==
  /\ s \in State
  /\ s.epoch \in 0..32 /\ s.slashed = {}
  /\ \A t \in Task : t # task => s.tasks[t] = None /\ s.receipts[t] = None
  /\ s.tasks[task] = submission("Settled", prov, posted, u)
  /\ s.receipts[task] = settled_receipt(u)
  /\ s.escrowed[prov] = 0
  /\ s.epoch < 32 => /\ s.released = {} /\ s.bonded[prov] = posted
                     /\ s.balance[prov] = allotted - posted + u + issuance(u)
  /\ s.epoch = 32 => /\ s.released = {task} /\ s.bonded[prov] = 0
                     /\ s.balance[prov] = allotted + u + issuance(u)

\* An allotment covers the task and the stake.
LEMMA AllottedIs ==
  /\ allotted \in Nat /\ posted \in Nat /\ posted < allotted
  /\ centi(1) \in Nat /\ centi(1) >= 100
  /\ UCU_SCALE = 100 * centi(1)
  /\ allotted = 10000 * centi(1) /\ posted = 500 * centi(1)
  /\ need(task) = 1001 * centi(1) /\ need(task) \in Nat
  /\ Body[task].max_ucu = 1000 * centi(1)
  /\ fee(Body[task].max_ucu) = centi(1)
<1> DEFINE c == UCU_SCALE \div 100
<1>1. c \in Nat /\ c >= 100 /\ UCU_SCALE = 100 * c
  BY CentiType
<1>2. centi(1) = c
  BY <1>1 DEF centi
<1>3. /\ Body[task].max_ucu = 10 * UCU_SCALE /\ fee(Body[task].max_ucu) = c
      /\ need(task) = 10 * UCU_SCALE + c
  BY TaskAmounts
<1> HIDE DEF c
<1> QED BY <1>1, <1>2, <1>3 DEF allotted, posted

\* The parties of the scripts.
LEMMA Parties ==
  /\ req \in Identity /\ prov \in Identity /\ chal \in Identity
  /\ req # prov /\ req # chal /\ prov # chal
  /\ task \in Task
  /\ req # None /\ prov # None /\ chal # None
BY PartyAssumption, ScriptAssumption, NoneAssumption

\* A scenario starts with the allotments.
LEMMA StartFresh ==
  ASSUME NEW r \in Record
  PROVE  Fresh(start(r), r)
<1> DEFINE n     == allotted
           zeros == [a \in Identity |-> 0]
           one   == [zeros EXCEPT ![req] = n]
           two   == [one EXCEPT ![prov] = n]
           three == [two EXCEPT ![chal] = n]
           alloc == [a \in Identity |-> IF a \in parties(r) THEN n ELSE 0]
<1>1. n \in Nat
  BY AllottedIs
<1>2. SumFunction(zeros) = 0
  <2>1. zeros \in [Identity -> Int] /\ \A a \in Identity : zeros[a] = 0
    OBVIOUS
  <2> HIDE DEF zeros
  <2> QED BY <2>1, IdentityAssumption, SumFunctionZero
<1>3. ASSUME NEW f \in [Identity -> Int], NEW a \in Identity, f[a] = 0
      PROVE  SumFunction([f EXCEPT ![a] = n]) = SumFunction(f) + n
  <2> HIDE DEF n
  <2>1. n \in Int
    BY <1>1
  <2>2. /\ SumFunction(f) \in Int
        /\ SumFunction([f EXCEPT ![a] = n]) = SumFunction(f) + n - f[a]
    BY <1>3, <2>1, IdentityAssumption, SumFunctionExcept
  <2> QED BY <1>3, <2>1, <2>2
<1>4. SumFunction(two) = 2 * n
  <2>1. /\ zeros \in [Identity -> Int] /\ zeros[req] = 0
        /\ one \in [Identity -> Int] /\ one[prov] = 0
    BY <1>1, Parties
  <2>2. SumFunction(one) = SumFunction(zeros) + n
    BY <1>3, <2>1, Parties
  <2>3. SumFunction(two) = SumFunction(one) + n
    <3> HIDE DEF one
    <3> QED BY <1>3, <2>1, Parties
  <2> HIDE DEF n, one, two
  <2> QED BY <1>1, <1>2, <2>2, <2>3
<1>5. SumFunction(three) = 3 * n
  <2>1. two \in [Identity -> Int] /\ two[chal] = 0
    BY <1>1, Parties
  <2>2. SumFunction(three) = SumFunction(two) + n
    <3> HIDE DEF two
    <3> QED BY <1>3, <2>1, Parties
  <2> HIDE DEF n, two, three
  <2> QED BY <1>1, <1>4, <2>2
<1>6. alloc = IF r = "fraud" THEN three ELSE two
  BY Parties DEF parties
<1>7. alloc \in [Identity -> Nat] /\ SumFunction(alloc) = endowment(r)
      /\ endowment(r) \in Nat
  <2> HIDE DEF two, three, alloc
  <2>1. alloc \in [Identity -> Nat]
    BY <1>1 DEF alloc
  <2> QED BY <1>1, <1>4, <1>5, <1>6, <2>1 DEF endowment
<1>8. start(r) = [genesis EXCEPT !.balance = alloc, !.minted = SumFunction(alloc)]
  BY DEF start
<1>9. /\ alloc[req] = allotted /\ alloc[prov] = allotted /\ alloc[chal] = endowed(r)
  BY Parties DEF parties, endowed
<1> HIDE DEF alloc
<1>10. start(r) \in State
  <2>1. nobody \in [Identity -> Nat] /\ 0 \in Nat /\ {} \in SUBSET Task
    BY DEF nobody
  <2>2. /\ nothing \in [Task -> Submission \cup {None}]
        /\ nothing \in [Task -> ComputeProof \cup {None}]
        /\ nothing \in [Task -> Receipt \cup {None}]
        /\ nothing \in [Task -> QLedgerEntry \cup {None}]
        /\ nothing \in [Task -> ChallengeRecord \cup {None}]
    BY DEF nothing
  <2>3. SumFunction(alloc) \in Nat
    BY <1>7
  <2>4. start(r) =
          [ balance   |-> alloc,    escrowed |-> nobody,
            bonded    |-> nobody,   sp       |-> nobody,
            strikes   |-> nobody,   tasks    |-> nothing,
            proofs    |-> nothing,  receipts |-> nothing,
            q_ledger  |-> nothing,  pending_challenges |-> nothing,
            slashed   |-> {},       released |-> {},
            nonces    |-> nobody,   minted   |-> SumFunction(alloc),
            burned    |-> 0,        fee_pool |-> 0,
            epoch     |-> 0 ]
    BY <1>8 DEF genesis
  <2> QED BY <1>7, <2>1, <2>2, <2>3, <2>4 DEF State
<1> QED BY <1>7, <1>8, <1>9, <1>10, Parties
        DEF Fresh, Unearned, Undisputed, Peaceful, Holds, genesis, nobody, nothing

-----------------------------------------------------------------------------
(***************************************************************************)
(* The transactions of the scripts, one after the other.                   *)
(***************************************************************************)
\* A nonce moves alone.
LEMMA BumpFields ==
  ASSUME NEW s \in State, NEW a \in Identity
  PROVE  LET x == bump_nonce(s, a)
         IN /\ x \in State
            /\ x.balance = s.balance /\ x.escrowed = s.escrowed /\ x.bonded = s.bonded
            /\ x.sp = s.sp /\ x.strikes = s.strikes /\ x.tasks = s.tasks
            /\ x.proofs = s.proofs /\ x.receipts = s.receipts
            /\ x.q_ledger = s.q_ledger
            /\ x.pending_challenges = s.pending_challenges
            /\ x.slashed = s.slashed /\ x.released = s.released
            /\ x.minted = s.minted /\ x.burned = s.burned
            /\ x.fee_pool = s.fee_pool /\ x.epoch = s.epoch
            /\ x.nonces[a] = s.nonces[a] + 1
            /\ \A b \in Identity : b # a => x.nonces[b] = s.nonces[b]
<1>1. bump_nonce(s, a) \in State
  BY BumpNonceType
<1>2. s.nonces \in [Identity -> Nat]
  BY FieldType
<1> QED BY <1>1, <1>2 DEF bump_nonce, Credit, State

\* The submissions of the task are such records, and known by their fields.
LEMMA SubmissionIs ==
  /\ submission("Submitted", None, 0, 0) \in Submission
  /\ \A u \in Nat : /\ submission("Executing", prov, posted, u) \in Submission
                    /\ submission("Settled", prov, posted, u) \in Submission
BY AllottedIs, Parties DEF submission, Submission, TaskStatus

LEMMA SubmissionFields ==
  ASSUME NEW x \in Submission, x.requester = req, x.fee = centi(1)
  PROVE  x = submission(x.status, x.provider, x.claim_stake, x.ucu_count)
BY DEF submission, Submission

\* The requester posts the task.
LEMMA SubmitPosts ==
  ASSUME NEW s, NEW r, Fresh(s, r)
  PROVE  /\ CanSubmitTask(s, req, task)
         /\ Posted(bump_nonce(submit_task(s, req, task), req), r)
<1> DEFINE x == submit_task(s, req, task)
           y == bump_nonce(x, req)
<1>1. /\ s \in State /\ Unearned(s, r) /\ Undisputed(s, r) /\ Peaceful(s)
      /\ s.tasks[task] = None
  BY DEF Fresh, Unearned, Undisputed, Peaceful
<1>2. CanSubmitTask(s, req, task)
  <2>1. s.balance[req] = allotted /\ need(task) <= allotted
    BY AllottedIs DEF Fresh, Holds
  <2>2. Body[task].supported
    BY ScriptAssumption DEF task_body
  <2> QED BY <1>1, <2>1, <2>2, AllottedIs DEF CanSubmitTask
<1>3. x \in State
  BY <1>1, <1>2, SubmitTaskType, Parties
<1>4. /\ x.balance = Debit(s.balance, req, need(task))
      /\ x.escrowed = Credit(s.escrowed, req, need(task))
      /\ x.tasks = [s.tasks EXCEPT ![task] = submission("Submitted", None, 0, 0)]
      /\ x.bonded = s.bonded /\ x.sp = s.sp /\ x.strikes = s.strikes
      /\ x.receipts = s.receipts /\ x.pending_challenges = s.pending_challenges
      /\ x.slashed = s.slashed /\ x.released = s.released /\ x.nonces = s.nonces
      /\ x.minted = s.minted /\ x.burned = s.burned /\ x.fee_pool = s.fee_pool
      /\ x.epoch = s.epoch
  BY <1>1, AllottedIs DEF submit_task, submission, State
<1> HIDE DEF x
<1>5. /\ y \in State
      /\ y.balance = Debit(s.balance, req, need(task))
      /\ y.escrowed = Credit(s.escrowed, req, need(task))
      /\ y.tasks = [s.tasks EXCEPT ![task] = submission("Submitted", None, 0, 0)]
      /\ y.bonded = s.bonded /\ y.sp = s.sp /\ y.strikes = s.strikes
      /\ y.receipts = s.receipts /\ y.pending_challenges = s.pending_challenges
      /\ y.slashed = s.slashed /\ y.released = s.released
      /\ y.minted = s.minted /\ y.burned = s.burned /\ y.fee_pool = s.fee_pool
      /\ y.epoch = s.epoch
      /\ y.nonces[req] = s.nonces[req] + 1
      /\ y.nonces[prov] = s.nonces[prov] /\ y.nonces[chal] = s.nonces[chal]
  BY <1>3, <1>4, BumpFields, Parties
<1> HIDE DEF y
<1>6. /\ y.tasks[task] = submission("Submitted", None, 0, 0)
      /\ \A t \in Task : t # task => y.tasks[t] = s.tasks[t]
  BY <1>1, <1>5, FieldType, Parties
<1>7. Peaceful(y)
  BY <1>1, <1>5, <1>6 DEF Peaceful
<1>8. /\ Holds(y, req, allotted - need(task), need(task), 0)
      /\ Holds(y, prov, allotted, 0, 0) /\ Holds(y, chal, endowed(r), 0, 0)
  <2>1. /\ s.balance \in [Identity -> Nat] /\ s.escrowed \in [Identity -> Nat]
    BY <1>1, FieldType
  <2>2. /\ Holds(s, req, allotted, 0, 0) /\ Holds(s, prov, allotted, 0, 0)
        /\ Holds(s, chal, endowed(r), 0, 0)
    BY <1>1 DEF Fresh, Undisputed
  <2> QED BY <1>5, <2>1, <2>2, Parties, AllottedIs DEF Holds, Credit, Debit
<1>9. Unearned(y, r)
  BY <1>1, <1>5, <1>7, <1>8 DEF Unearned, Undisputed
<1>10. Posted(y, r)
  BY <1>5, <1>6, <1>8, <1>9 DEF Posted, Fresh
<1> QED BY <1>2, <1>10 DEF y, x

\* The provider claims it.
LEMMA ClaimClaims ==
  ASSUME NEW s, NEW r, Posted(s, r)
  PROVE  /\ CanClaimTask(s, prov, task)
         /\ Claimed(bump_nonce(claim_task(s, prov, task), prov), r)
<1> DEFINE x == claim_task(s, prov, task)
           y == bump_nonce(x, prov)
<1>1. /\ s \in State /\ Unearned(s, r) /\ Undisputed(s, r) /\ Peaceful(s)
      /\ s.tasks[task] = submission("Submitted", None, 0, 0)
  BY DEF Posted, Unearned, Undisputed, Peaceful
<1>2. stake(s, prov, task) = posted
  BY <1>1, TaskAmounts DEF Unearned, stake, posted
<1>3. CanClaimTask(s, prov, task)
  <2>1. s.tasks[task] # None
    <3>1. s.tasks[task] \in Submission
      BY <1>1, SubmissionIs
    <3> QED BY <3>1, NoneAssumption
  <2>2. status(s, task) = "Submitted"
    BY <1>1, <2>1 DEF status, submission
  <2>3. s.epoch <= Body[task].deadline
    BY <1>1, ScriptAssumption DEF Peaceful, task_body
  <2> QED BY <1>2, <2>2, <2>3, AllottedIs DEF CanClaimTask, Posted, Holds
<1>4. x \in State
  BY <1>1, <1>3, ClaimTaskType, Parties
<1>5. /\ x.balance = Debit(s.balance, prov, posted)
      /\ x.bonded = Credit(s.bonded, prov, posted)
      /\ x.tasks = [s.tasks EXCEPT ![task] = submission("Executing", prov, posted, 0)]
      /\ x.escrowed = s.escrowed /\ x.sp = s.sp /\ x.strikes = s.strikes
      /\ x.receipts = s.receipts /\ x.pending_challenges = s.pending_challenges
      /\ x.slashed = s.slashed /\ x.released = s.released /\ x.nonces = s.nonces
      /\ x.minted = s.minted /\ x.burned = s.burned /\ x.fee_pool = s.fee_pool
      /\ x.epoch = s.epoch
  <2> DEFINE sub == [s.tasks[task] EXCEPT !.provider    = prov,
                                          !.status      = "Executing",
                                          !.claim_stake = posted]
  <2>1. sub = submission("Executing", prov, posted, 0)
    <3>1. s.tasks[task] \in Submission
      BY <1>1, SubmissionIs
    <3>2. /\ sub \in Submission
          /\ sub.status = "Executing" /\ sub.provider = prov
          /\ sub.claim_stake = posted
          /\ sub.requester = s.tasks[task].requester /\ sub.fee = s.tasks[task].fee
          /\ sub.ucu_count = s.tasks[task].ucu_count
      <4>1. posted \in Nat /\ prov \in Identity
        BY AllottedIs, Parties
      <4>2. sub \in Submission
        BY <3>1, <4>1 DEF Submission, TaskStatus
      <4> QED BY <3>1, <4>1, <4>2 DEF Submission
    <3>3. /\ s.tasks[task].requester = req /\ s.tasks[task].fee = centi(1)
          /\ s.tasks[task].ucu_count = 0
      BY <1>1 DEF submission
    <3> HIDE DEF sub
    <3> QED BY <3>2, <3>3, SubmissionFields
  <2> QED BY <1>1, <1>2, <2>1 DEF claim_task, State
<1> HIDE DEF x
<1>6. /\ y \in State
      /\ y.balance = Debit(s.balance, prov, posted)
      /\ y.bonded = Credit(s.bonded, prov, posted)
      /\ y.tasks = [s.tasks EXCEPT ![task] = submission("Executing", prov, posted, 0)]
      /\ y.escrowed = s.escrowed /\ y.sp = s.sp /\ y.strikes = s.strikes
      /\ y.receipts = s.receipts /\ y.pending_challenges = s.pending_challenges
      /\ y.slashed = s.slashed /\ y.released = s.released
      /\ y.minted = s.minted /\ y.burned = s.burned /\ y.fee_pool = s.fee_pool
      /\ y.epoch = s.epoch
      /\ y.nonces[prov] = s.nonces[prov] + 1
      /\ y.nonces[req] = s.nonces[req] /\ y.nonces[chal] = s.nonces[chal]
  BY <1>4, <1>5, BumpFields, Parties
<1> HIDE DEF y
<1>7. /\ y.tasks[task] = submission("Executing", prov, posted, 0)
      /\ \A t \in Task : t # task => y.tasks[t] = s.tasks[t]
  BY <1>1, <1>6, FieldType, Parties
<1>8. Peaceful(y)
  BY <1>1, <1>6, <1>7 DEF Peaceful
<1>9. /\ Holds(y, req, allotted - need(task), need(task), 0)
      /\ Holds(y, prov, allotted - posted, 0, posted) /\ Holds(y, chal, endowed(r), 0, 0)
  <2>1. /\ s.balance \in [Identity -> Nat] /\ s.bonded \in [Identity -> Nat]
    BY <1>1, FieldType
  <2>2. /\ Holds(s, req, allotted - need(task), need(task), 0)
        /\ Holds(s, prov, allotted, 0, 0) /\ Holds(s, chal, endowed(r), 0, 0)
    BY <1>1 DEF Posted, Undisputed
  <2> QED BY <1>6, <2>1, <2>2, Parties, AllottedIs DEF Holds, Credit, Debit
<1>10. Unearned(y, r)
  BY <1>1, <1>6, <1>8, <1>9 DEF Unearned, Undisputed
<1>11. Claimed(y, r)
  BY <1>6, <1>7, <1>9, <1>10 DEF Claimed, Posted
<1> QED BY <1>3, <1>11 DEF y, x

\* The work of a scenario, what it mints, and what challenging it costs.
LEMMA WorkType ==
  ASSUME NEW u \in Work
  PROVE  /\ u \in Ucu /\ u \in Nat /\ u <= Body[task].max_ucu
         /\ issuance(u) \in Nat /\ issuance(u) <= u
         /\ bond_of(u) \in Nat /\ bond_of(u) >= 1 /\ bond_of(u) >= bond_min(u)
         /\ bond_of(u) <= allotted
<1>1. u \in Ucu /\ u \in Nat /\ u <= Body[task].max_ucu
  BY ScriptAssumption, UcuAssumption
<1>2. issuance(u) = (u * 10) \div 1000 /\ bond_min(u) = (u * 250) \div 1000
  BY <1>1, WorkAmounts
<1>3. /\ (u * 10) \div 1000 \in Nat /\ (u * 10) \div 1000 <= u
      /\ (u * 250) \div 1000 \in Nat /\ (u * 250) \div 1000 <= u
  BY <1>1
<1>4. u <= 1000 * centi(1) /\ allotted = 10000 * centi(1) /\ centi(1) \in Nat
      /\ centi(1) >= 100
  BY <1>1, AllottedIs
<1> QED BY <1>1, <1>2, <1>3, <1>4 DEF bond_of, AtLeastOne

\* The proof of a script.
LEMMA ProofIs ==
  ASSUME NEW u \in Work, NEW r
  PROVE  /\ proof(r, u) \in ComputeProof
         /\ proof(r, u).provider = prov /\ proof(r, u).ucu_count = u
         /\ proof(r, u).benchmark = Body[task].benchmark
         /\ r = "fraud" => proof(r, u).result # "honest"
<1>1. u \in Ucu /\ Body[task].benchmark \in Benchmark /\ prov \in Identity
  BY WorkType, BodyType, Parties
<1>2. "honest" \in Result /\ "forged" \in Result
  BY ScriptAssumption
<1> QED BY <1>1, <1>2 DEF proof, ComputeProof

\* The provider proves it, and it settles.
LEMMA ProofSettles ==
  ASSUME NEW s, NEW r, Claimed(s, r), NEW u \in Work
  PROVE  /\ CanSubmitProof(s, prov, task, proof(r, u))
         /\ Settled(bump_nonce(submit_proof(s, task, proof(r, u)), prov), r, u)
<1> DEFINE x == submit_proof(s, task, proof(r, u))
           y == bump_nonce(x, prov)
           sub == [s.tasks[task] EXCEPT !.ucu_count = u, !.status = "Settled"]
           q   == [ucu |-> u, benchmark |-> Body[task].benchmark, q |-> None]
<1>1. /\ s \in State /\ Unearned(s, r) /\ Undisputed(s, r) /\ Peaceful(s)
      /\ s.tasks[task] = submission("Executing", prov, posted, 0)
  BY DEF Claimed, Unearned, Undisputed, Peaceful
<1>2. /\ s.tasks[task].requester = req /\ s.tasks[task].provider = prov
      /\ s.tasks[task].fee = centi(1) /\ s.tasks[task].claim_stake = posted
      /\ s.tasks[task].status = "Executing"
  BY <1>1 DEF submission
<1>3. s.tasks[task] \in Submission /\ s.tasks[task] # None
  <2>1. submission("Executing", prov, posted, 0) \in Submission
    BY SubmissionIs
  <2> QED BY <1>1, <2>1, NoneAssumption
<1>4. CanSubmitProof(s, prov, task, proof(r, u))
  <2>1. status(s, task) = "Executing"
    BY <1>2, <1>3 DEF status
  <2> QED BY <1>2, <2>1, ProofIs, WorkType DEF CanSubmitProof
<1>5. x \in State
  <2>1. need(task) <= s.escrowed[req]
    BY AllottedIs DEF Claimed, Holds
  <2> QED BY <1>1, <1>2, <1>4, <2>1, AllottedIs, ProofIs, Parties, SubmitProofType
<1>6. sub = submission("Settled", prov, posted, u)
  <2>1. u \in Nat
    BY WorkType
  <2>2. sub \in Submission
    BY <1>3, <2>1 DEF Submission, TaskStatus
  <2>3. /\ sub.status = "Settled" /\ sub.ucu_count = u
        /\ sub.provider = prov /\ sub.claim_stake = posted
        /\ sub.requester = req /\ sub.fee = centi(1)
    BY <1>2, <1>3, <2>1, <2>2 DEF Submission
  <2> HIDE DEF sub
  <2> QED BY <2>2, <2>3, SubmissionFields
<1>7. receipt(s, task, u) = settled_receipt(u)
  <2>1. params.clawback_epochs = 32 /\ s.epoch = 0
    BY <1>1, DevnetAssumption DEF devnet, Peaceful
  <2>2. standing_accrual(u) = u
    BY WorkType, WorkAmounts
  <2> QED BY <1>2, <2>1, <2>2 DEF receipt, settled_receipt
<1>8. /\ x.tasks = [s.tasks EXCEPT ![task] = sub]
      /\ x.proofs = [s.proofs EXCEPT ![task] = proof(r, u)]
      /\ x.receipts = [s.receipts EXCEPT ![task] = settled_receipt(u)]
      /\ x.q_ledger = [s.q_ledger EXCEPT ![task] = q]
      /\ x.pending_challenges = s.pending_challenges
      /\ x.slashed = s.slashed /\ x.released = s.released /\ x.epoch = s.epoch
      /\ x.bonded = s.bonded /\ x.burned = s.burned /\ x.strikes = s.strikes
      /\ x.escrowed = Debit(s.escrowed, req, need(task))
      /\ x.balance = Credit(Credit(s.balance, req, Body[task].max_ucu - u),
                            prov, u + issuance(u))
      /\ x.fee_pool = s.fee_pool + centi(1)
      /\ x.minted = s.minted + issuance(u)
      /\ x.sp = Credit(s.sp, prov, u)
      /\ x.nonces = s.nonces
  <2>1. ProofSubmitted(s, x, task, proof(r, u))
    BY <1>1, <1>3, ProofIs, Parties, SubmitProofFields
  <2>2. Body[task].max_ucu + s.tasks[task].fee = need(task)
    BY <1>2, AllottedIs DEF need
  <2>3. standing_accrual(u) = u
    BY WorkType, WorkAmounts
  <2> DEFINE p == proof(r, u)
  <2>4. p.provider = prov /\ p.ucu_count = u
    BY ProofIs
  <2> HIDE DEF x, p
  <2>5. ProofSubmitted(s, x, task, p)
    BY <2>1 DEF p
  <2>6. x.tasks = [s.tasks EXCEPT ![task] = sub]
    BY <2>4, <2>5, Zenon DEF ProofSubmitted
  <2>7. /\ x.escrowed = Debit(s.escrowed, req, need(task))
        /\ x.balance = Credit(Credit(s.balance, req, Body[task].max_ucu - u),
                              prov, u + issuance(u))
        /\ x.fee_pool = s.fee_pool + centi(1)
    BY <1>2, <2>2, <2>4, <2>5, Zenon DEF ProofSubmitted
  <2>8. /\ x.proofs = [s.proofs EXCEPT ![task] = p]
        /\ x.receipts = [s.receipts EXCEPT ![task] = settled_receipt(u)]
        /\ x.q_ledger = [s.q_ledger EXCEPT ![task] = q]
        /\ x.minted = s.minted + issuance(u)
        /\ x.sp = Credit(s.sp, prov, u)
    BY <1>7, <2>3, <2>4, <2>5, Zenon DEF ProofSubmitted
  <2> HIDE DEF sub, q
  <2> QED BY <2>5, <2>6, <2>7, <2>8 DEF ProofSubmitted, p
<1> HIDE DEF x, sub, q
<1>9. /\ y \in State
      /\ y.tasks = [s.tasks EXCEPT ![task] = sub]
      /\ y.proofs = [s.proofs EXCEPT ![task] = proof(r, u)]
      /\ y.receipts = [s.receipts EXCEPT ![task] = settled_receipt(u)]
      /\ y.q_ledger = [s.q_ledger EXCEPT ![task] = q]
      /\ y.pending_challenges = s.pending_challenges
      /\ y.slashed = s.slashed /\ y.released = s.released /\ y.epoch = s.epoch
      /\ y.bonded = s.bonded /\ y.burned = s.burned /\ y.strikes = s.strikes
      /\ y.escrowed = Debit(s.escrowed, req, need(task))
      /\ y.balance = Credit(Credit(s.balance, req, Body[task].max_ucu - u),
                            prov, u + issuance(u))
      /\ y.fee_pool = s.fee_pool + centi(1)
      /\ y.minted = s.minted + issuance(u)
      /\ y.sp = Credit(s.sp, prov, u)
      /\ y.nonces[prov] = s.nonces[prov] + 1
      /\ y.nonces[chal] = s.nonces[chal]
  BY <1>5, <1>8, BumpFields, Parties
<1> HIDE DEF y
<1>10. /\ y.tasks[task] = sub /\ y.proofs[task] = proof(r, u)
       /\ y.receipts[task] = settled_receipt(u) /\ y.q_ledger[task] = q
       /\ \A t \in Task : t # task => /\ y.tasks[t] = s.tasks[t]
                                      /\ y.receipts[t] = s.receipts[t]
  BY <1>1, <1>9, FieldType, Parties
<1>11. Peaceful(y)
  BY <1>1, <1>9, <1>10 DEF Peaceful
<1>12. /\ Holds(y, req, allotted - centi(1) - u, 0, 0)
       /\ Holds(y, prov, allotted - posted + u + issuance(u), 0, posted)
       /\ Holds(y, chal, endowed(r), 0, 0)
  <2>1. /\ s.balance \in [Identity -> Nat] /\ s.escrowed \in [Identity -> Nat]
    BY <1>1, FieldType
  <2>2. /\ Holds(s, req, allotted - need(task), need(task), 0)
        /\ Holds(s, prov, allotted - posted, 0, posted)
        /\ Holds(s, chal, endowed(r), 0, 0)
    BY <1>1 DEF Claimed, Undisputed
  <2>3. u \in Nat /\ issuance(u) \in Nat
    BY WorkType
  <2> QED BY <1>9, <2>1, <2>2, <2>3, Parties, AllottedIs DEF Holds, Credit, Debit
<1>13. /\ y.sp[prov] = u /\ y.minted = endowment(r) + issuance(u)
       /\ y.fee_pool = centi(1) /\ y.nonces[prov] = 2
  <2>1. s.sp \in [Identity -> Nat] /\ u \in Nat /\ s.sp[prov] = 0
    BY <1>1, FieldType, WorkType DEF Unearned
  <2>2. s.minted = endowment(r) /\ s.fee_pool = 0 /\ s.nonces[prov] = 1
    BY <1>1 DEF Unearned, Claimed
  <2> QED BY <1>9, <2>1, <2>2, Parties, AllottedIs DEF Credit
<1>14. Undisputed(y, r)
  BY <1>1, <1>9, <1>11, <1>12 DEF Undisputed
<1>15. Settled(y, r, u)
  BY <1>6, <1>10, <1>11, <1>12, <1>13, <1>14 DEF Settled, Earned, q
<1> QED BY <1>4, <1>15 DEF y, x

\* The challenger disputes it.
LEMMA ChallengeDisputes ==
  ASSUME NEW s, NEW u \in Work, Settled(s, "fraud", u)
  PROVE  /\ CanOpenChallenge(s, chal, task, bond_of(u))
         /\ Disputed(bump_nonce(open_challenge(s, chal, task, bond_of(u)), chal), u)
<1> DEFINE b  == bond_of(u)
           pc == [challenger |-> chal, bond |-> b]
           x  == open_challenge(s, chal, task, b)
           y  == bump_nonce(x, chal)
<1>1. /\ s \in State /\ Earned(s, "fraud", u) /\ Undisputed(s, "fraud") /\ Peaceful(s)
      /\ s.tasks[task] = submission("Settled", prov, posted, u)
      /\ s.receipts[task] = settled_receipt(u)
      /\ Holds(s, chal, allotted, 0, 0)
  BY DEF Settled, Earned, Undisputed, Peaceful, endowed
<1>2. b \in Nat /\ b >= bond_min(u) /\ b <= allotted
  BY WorkType
<1> HIDE DEF b
<1>3. CanOpenChallenge(s, chal, task, b)
  <2>1. settled_receipt(u) \in Receipt /\ settled_receipt(u) # None
    <3>1. settled_receipt(u) \in Receipt
      BY WorkType, AllottedIs DEF settled_receipt, Receipt
    <3> QED BY <3>1, NoneAssumption
  <2>2. status(s, task) = "Settled"
    <3>1. submission("Settled", prov, posted, u) \in Submission
      BY WorkType, SubmissionIs
    <3> QED BY <1>1, <3>1, NoneAssumption DEF status, submission
  <2>3. s.receipts[task].clawback_until = 32 /\ s.receipts[task].paid_to_provider = u
    BY <1>1 DEF settled_receipt
  <2>4. /\ s.epoch = 0 /\ s.slashed = {} /\ s.pending_challenges[task] = None
        /\ s.balance[chal] = allotted
    BY <1>1, Parties DEF Peaceful, Undisputed, Holds
  <2> QED BY <1>1, <1>2, <2>1, <2>2, <2>3, <2>4 DEF CanOpenChallenge
<1>4. x \in State
  BY <1>1, <1>2, <1>3, BondType, Parties
<1>5. /\ x.balance = Debit(s.balance, chal, b)
      /\ x.bonded = Credit(s.bonded, chal, b)
      /\ x.pending_challenges = [s.pending_challenges EXCEPT ![task] = pc]
      /\ x.escrowed = s.escrowed /\ x.sp = s.sp /\ x.strikes = s.strikes
      /\ x.tasks = s.tasks /\ x.proofs = s.proofs /\ x.receipts = s.receipts
      /\ x.q_ledger = s.q_ledger
      /\ x.slashed = s.slashed /\ x.released = s.released /\ x.nonces = s.nonces
      /\ x.minted = s.minted /\ x.burned = s.burned /\ x.fee_pool = s.fee_pool
      /\ x.epoch = s.epoch
  BY <1>1 DEF open_challenge, State
<1> HIDE DEF x, pc
<1>6. /\ y \in State
      /\ y.balance = Debit(s.balance, chal, b)
      /\ y.bonded = Credit(s.bonded, chal, b)
      /\ y.pending_challenges = [s.pending_challenges EXCEPT ![task] = pc]
      /\ y.escrowed = s.escrowed /\ y.sp = s.sp /\ y.strikes = s.strikes
      /\ y.tasks = s.tasks /\ y.proofs = s.proofs /\ y.receipts = s.receipts
      /\ y.q_ledger = s.q_ledger
      /\ y.slashed = s.slashed /\ y.released = s.released
      /\ y.minted = s.minted /\ y.burned = s.burned /\ y.fee_pool = s.fee_pool
      /\ y.epoch = s.epoch /\ y.nonces[prov] = s.nonces[prov]
  BY <1>4, <1>5, BumpFields, Parties
<1> HIDE DEF y
<1>7. y.pending_challenges[task] = pc
  BY <1>1, <1>6, FieldType, Parties
<1>8. Peaceful(y)
  BY <1>1, <1>6 DEF Peaceful
<1>9. /\ Holds(y, chal, allotted - b, 0, b)
      /\ \A e, m, n : /\ Holds(s, req, m, e, n) => Holds(y, req, m, e, n)
                      /\ Holds(s, prov, m, e, n) => Holds(y, prov, m, e, n)
  <2>1. s.balance \in [Identity -> Nat] /\ s.bonded \in [Identity -> Nat]
    BY <1>1, FieldType
  <2> QED BY <1>1, <1>2, <1>6, <2>1, Parties, AllottedIs DEF Holds, Credit, Debit
<1>10. Earned(y, "fraud", u)
  BY <1>1, <1>6, <1>8, <1>9 DEF Earned
<1>11. Disputed(y, u)
  BY <1>7, <1>9, <1>10 DEF Disputed, b, pc
<1> QED BY <1>3, <1>11 DEF y, x, b

\* The provider can afford to pay one 𝕌 back.
LEMMA Repayable ==
  ASSUME NEW s, NEW r, NEW u \in Work, Settled(s, r, u)
  PROVE  CanTransfer(s, prov, UCU_SCALE)
<1>1. s.balance[prov] = allotted - posted + u + issuance(u)
  BY DEF Settled, Earned, Holds
<1> QED BY <1>1, WorkType, AllottedIs DEF CanTransfer

-----------------------------------------------------------------------------
(***************************************************************************)
(* The verdict on a forged proof.                                          *)
(***************************************************************************)
\* What it takes is covered.
LEMMA PenaltyType ==
  ASSUME NEW u \in Work
  PROVE  /\ recovery(u) \in Nat /\ fined(u) \in Nat /\ reward(u) \in Nat
         /\ recovery(u) <= u /\ recovery(u) + fined(u) <= posted
         /\ reward(u) <= fined(u)
<1>1. u \in Nat /\ posted \in Nat
  BY WorkType, AllottedIs
<1>2. recovery(u) \in Nat /\ recovery(u) <= u /\ recovery(u) <= posted
  BY <1>1, LeastType DEF recovery
<1>3. 2 * u \in Nat /\ posted - recovery(u) \in Nat
  BY <1>1, <1>2
<1>4. fined(u) \in Nat /\ fined(u) <= posted - recovery(u)
  BY <1>3, LeastType DEF fined
<1>5. reward(u) \in Nat /\ reward(u) <= fined(u)
  BY <1>1, <1>4, LeastType DEF reward
<1> QED BY <1>1, <1>2, <1>4, <1>5

\* The penalties of the scenario.
LEMMA ForgeryPenalties ==
  ASSUME NEW s \in State, NEW u \in Work, Earned(s, "fraud", u),
         Holds(s, chal, allotted - bond_of(u), 0, bond_of(u))
  PROVE  LET x == take_fraud_penalties(s, task, chal)
         IN /\ x \in State
            /\ Holds(x, req, allotted - centi(1) - u + recovery(u), 0, 0)
            /\ Holds(x, prov, allotted - posted + u, 0, posted - recovery(u) - fined(u))
            /\ Holds(x, chal, allotted - bond_of(u) + reward(u), 0, bond_of(u))
            /\ x.burned = issuance(u) + (fined(u) - reward(u))
            /\ x.minted = s.minted /\ x.fee_pool = s.fee_pool
            /\ x.sp = s.sp /\ x.strikes = s.strikes
            /\ x.tasks = s.tasks /\ x.slashed = s.slashed
<1> DEFINE x      == take_fraud_penalties(s, task, chal)
           w      == issuance(u)
           repaid == Credit(s.balance, req, recovery(u))
<1>1. /\ s.tasks[task] = submission("Settled", prov, posted, u)
      /\ s.receipts[task] = settled_receipt(u)
      /\ Holds(s, req, allotted - centi(1) - u, 0, 0)
      /\ Holds(s, prov, allotted - posted + u + w, 0, posted)
      /\ s.burned = 0
  BY DEF Earned, Peaceful
<1>2. /\ s.tasks[task].provider = prov /\ s.tasks[task].requester = req
      /\ s.receipts[task].paid_to_provider = u
      /\ s.receipts[task].work_issuance = w
  BY <1>1 DEF submission, settled_receipt
<1>3. s.bonded[prov] = posted
  BY <1>1 DEF Holds
<1>4. fine(u) = 2 * u /\ challenger_reward(2 * u) = u
  BY WorkType, WorkAmounts
<1>5. /\ u \in Nat /\ w \in Nat /\ bond_of(u) \in Nat
      /\ recovery(u) \in Nat /\ fined(u) \in Nat /\ reward(u) \in Nat
      /\ allotted \in Nat /\ posted \in Nat /\ posted < allotted /\ centi(1) \in Nat
  BY WorkType, PenaltyType, AllottedIs
<1>6. /\ s.balance \in [Identity -> Nat] /\ s.bonded \in [Identity -> Nat]
      /\ s.escrowed \in [Identity -> Nat]
  BY FieldType
<1> HIDE DEF w
<1>7. Least(w, repaid[prov]) = w
  <2>1. repaid[prov] = allotted - posted + u + w
    BY <1>1, <1>5, <1>6, Parties DEF Holds, Credit
  <2> HIDE DEF repaid
  <2> QED BY <1>5, <2>1 DEF Least
<1>8. x = [s EXCEPT
             !.bonded   = Debit(@, prov, recovery(u) + fined(u)),
             !.balance  = Credit(Debit(repaid, prov, w), chal, reward(u)),
             !.fee_pool = @,
             !.burned   = @ + w + (fined(u) - reward(u))]
  <2>1. chal # None
    BY Parties
  <2>2. /\ recovery(u) = Least(u, s.bonded[prov])
        /\ fined(u) = Least(fine(u), s.bonded[prov] - recovery(u))
        /\ reward(u) = Least(challenger_reward(fine(u)), fined(u))
    BY <1>3, <1>4 DEF recovery, fined, reward
  <2> DEFINE fn == fine(u)
  <2> HIDE DEF fn
  <2> QED BY <1>2, <1>7, <2>1, <2>2 DEF take_fraud_penalties
<1>9. /\ x.bonded = Debit(s.bonded, prov, recovery(u) + fined(u))
      /\ x.balance = Credit(Debit(repaid, prov, w), chal, reward(u))
      /\ x.escrowed = s.escrowed
      /\ x.fee_pool = s.fee_pool
      /\ x.burned = s.burned + w + (fined(u) - reward(u))
      /\ x.minted = s.minted /\ x.sp = s.sp /\ x.strikes = s.strikes
      /\ x.tasks = s.tasks /\ x.slashed = s.slashed
  <2> HIDE DEF x, repaid
  <2> QED BY <1>8 DEF State
<1>10. x \in State
  <2>1. s.tasks[task] # None /\ s.receipts[task] # None
    <3>1. submission("Settled", prov, posted, u) \in Submission
      BY WorkType, SubmissionIs
    <3>2. settled_receipt(u) \in Receipt
      BY WorkType, AllottedIs DEF settled_receipt, Receipt
    <3> QED BY <1>1, <3>1, <3>2, NoneAssumption
  <2> QED BY <1>2, <2>1, Parties, FraudPenaltiesType
<1> HIDE DEF x
<1>11. /\ Holds(x, req, allotted - centi(1) - u + recovery(u), 0, 0)
       /\ Holds(x, prov, allotted - posted + u, 0, posted - recovery(u) - fined(u))
       /\ Holds(x, chal, allotted - bond_of(u) + reward(u), 0, bond_of(u))
  BY <1>1, <1>5, <1>6, <1>9, Parties DEF Holds, Credit, Debit
<1>12. x.burned = w + (fined(u) - reward(u))
  BY <1>1, <1>5, <1>9, PenaltyType
<1> QED BY <1>9, <1>10, <1>11, <1>12 DEF x, w

\* The challenge is upheld.
LEMMA VerdictConvicts ==
  ASSUME NEW s, NEW u \in Work, Disputed(s, u)
  PROVE  Convicted(resolve_challenge(s, task, TRUE), u)
<1> DEFINE c == closed(s, task)
           m == take_fraud_penalties(c, task, chal)
           j == penalise(c, task, chal)
           x == close_challenge(s, task, TRUE)
           b == bond_of(u)
<1>1. /\ s \in State /\ Earned(s, "fraud", u) /\ Peaceful(s)
      /\ Holds(s, chal, allotted - b, 0, b)
      /\ s.pending_challenges[task].challenger = chal
      /\ s.pending_challenges[task].bond = b
      /\ s.pending_challenges[task] # None
  <2>1. s.pending_challenges[task] = [challenger |-> chal, bond |-> b]
    BY DEF Disputed
  <2>2. [challenger |-> chal, bond |-> b] \in ChallengeRecord
    BY WorkType, Parties DEF ChallengeRecord
  <2> QED BY <2>1, <2>2, NoneAssumption DEF Disputed, Earned, Peaceful
<1>2. resolve_challenge(s, task, TRUE) = x
  BY <1>1 DEF resolve_challenge
<1>3. /\ c \in State
      /\ c.balance = s.balance /\ c.escrowed = s.escrowed /\ c.bonded = s.bonded
      /\ c.sp = s.sp /\ c.strikes = s.strikes /\ c.tasks = s.tasks
      /\ c.proofs = s.proofs /\ c.receipts = s.receipts /\ c.q_ledger = s.q_ledger
      /\ c.slashed = s.slashed /\ c.released = s.released /\ c.nonces = s.nonces
      /\ c.minted = s.minted /\ c.burned = s.burned /\ c.fee_pool = s.fee_pool
      /\ c.epoch = s.epoch
  BY <1>1, ClosedType, Parties DEF closed, State
<1> HIDE DEF c
<1>4. Earned(c, "fraud", u) /\ Holds(c, chal, allotted - b, 0, b)
  BY <1>1, <1>3 DEF Earned, Peaceful, Holds
<1>5. /\ c.tasks[task] \in Submission /\ c.tasks[task] # None
      /\ c.receipts[task] # None /\ c.tasks[task].provider = prov
      /\ task \notin c.slashed
  <2>1. /\ c.tasks[task] = submission("Settled", prov, posted, u)
        /\ c.receipts[task] = settled_receipt(u) /\ c.slashed = {}
    BY <1>4 DEF Earned, Peaceful
  <2>2. submission("Settled", prov, posted, u) \in Submission
    BY WorkType, SubmissionIs
  <2>3. settled_receipt(u) \in Receipt
    BY WorkType, AllottedIs DEF settled_receipt, Receipt
  <2> QED BY <2>1, <2>2, <2>3, NoneAssumption DEF submission
<1>6. judged(s, task, TRUE) = j
  <2>1. CanResolveFraud(c, task)
    BY <1>5, Parties DEF CanResolveFraud
  <2> QED BY <1>1, <2>1 DEF judged, resolve_fraud, c
<1>7. /\ m \in State
      /\ Holds(m, req, allotted - centi(1) - u + recovery(u), 0, 0)
      /\ Holds(m, prov, allotted - posted + u, 0, posted - recovery(u) - fined(u))
      /\ Holds(m, chal, allotted - b + reward(u), 0, b)
      /\ m.burned = issuance(u) + (fined(u) - reward(u))
      /\ m.minted = c.minted /\ m.fee_pool = c.fee_pool
      /\ m.sp = c.sp /\ m.strikes = c.strikes
      /\ m.tasks = c.tasks /\ m.slashed = c.slashed
  BY <1>3, <1>4, ForgeryPenalties
<1>8. /\ j.balance = m.balance /\ j.escrowed = m.escrowed /\ j.bonded = m.bonded
      /\ j.sp = [m.sp EXCEPT ![prov] = 0] /\ j.strikes = Credit(m.strikes, prov, 1)
      /\ j.minted = m.minted /\ j.burned = m.burned /\ j.fee_pool = m.fee_pool
  <2> HIDE DEF m
  <2> QED BY <1>3, <1>5, <1>7 DEF penalise, State, m
<1>9. j \in State
  BY <1>3, <1>5, Parties, PenaliseType
<1> HIDE DEF m, j
<1>10. returned(s, task, TRUE) = b
  <2>1. j.bonded[chal] = b /\ b \in Nat
    BY <1>7, <1>8, WorkType DEF Holds
  <2> QED BY <1>1, <1>6, <2>1 DEF returned, Least
<1>11. x = [j EXCEPT !.bonded  = Debit(@, chal, b),
                     !.balance = Credit(@, chal, b),
                     !.burned  = @]
  BY <1>1, <1>6, <1>10, CloseChallengeIs
<1> HIDE DEF x
<1>12. /\ x.bonded = Debit(j.bonded, chal, b) /\ x.balance = Credit(j.balance, chal, b)
       /\ x.escrowed = j.escrowed /\ x.burned = j.burned /\ x.minted = j.minted
       /\ x.fee_pool = j.fee_pool /\ x.sp = j.sp /\ x.strikes = j.strikes
  BY <1>9, <1>11 DEF State
<1>13. /\ Holds(x, req, allotted - centi(1) - u + recovery(u), 0, 0)
       /\ Holds(x, prov, allotted - posted + u, 0, posted - recovery(u) - fined(u))
       /\ Holds(x, chal, allotted + reward(u), 0, 0)
  <2>1. /\ j.balance \in [Identity -> Nat] /\ j.bonded \in [Identity -> Nat]
    BY <1>9, FieldType
  <2>2. allotted \in Nat /\ b \in Nat /\ reward(u) \in Nat
    BY WorkType, PenaltyType, AllottedIs
  <2> HIDE DEF b
  <2> QED BY <1>7, <1>8, <1>12, <2>1, <2>2, Parties DEF Holds, Credit, Debit
<1>14. x.sp[prov] = 0 /\ x.strikes[prov] = 1
  <2>1. s.strikes[prov] = 0
    BY <1>1 DEF Peaceful
  <2>2. m.sp \in [Identity -> Nat] /\ m.strikes \in [Identity -> Nat]
    BY <1>7, FieldType
  <2> QED BY <1>3, <1>7, <1>8, <1>12, <2>1, <2>2, Parties DEF Credit
<1>15. /\ x.minted = 3 * allotted + issuance(u)
       /\ x.burned = issuance(u) + (fined(u) - reward(u))
       /\ x.fee_pool = centi(1)
  <2>1. s.minted = endowment("fraud") + issuance(u) /\ s.fee_pool = centi(1)
    BY <1>1 DEF Earned
  <2> QED BY <1>3, <1>7, <1>8, <1>12, <2>1 DEF endowment
<1> QED BY <1>2, <1>13, <1>14, <1>15 DEF Convicted

\* The sum over three accounts.
LEMMA SumOfThree ==
  ASSUME NEW f \in [{req, prov, chal} -> Int]
  PROVE  SumFunction(f) = f[req] + f[prov] + f[chal]
<1> DEFINE S     == {req, prov, chal}
           zeros == [a \in S |-> 0]
           one   == [zeros EXCEPT ![req] = f[req]]
           two   == [one EXCEPT ![prov] = f[prov]]
           three == [two EXCEPT ![chal] = f[chal]]
<1>1. IsFiniteSet(S)
  BY IdentityAssumption, Parties, FS_Subset
<1>2. SumFunction(zeros) = 0
  <2>1. zeros \in [S -> Int] /\ \A a \in S : zeros[a] = 0
    OBVIOUS
  <2> HIDE DEF zeros, S
  <2> QED BY <1>1, <2>1, SumFunctionZero
<1>3. ASSUME NEW g \in [S -> Int], NEW a \in S, g[a] = 0
      PROVE  SumFunction([g EXCEPT ![a] = f[a]]) = SumFunction(g) + f[a]
  <2>1. f[a] \in Int
    BY <1>3
  <2> HIDE DEF S
  <2>2. /\ SumFunction(g) \in Int
        /\ SumFunction([g EXCEPT ![a] = f[a]]) = SumFunction(g) + f[a] - g[a]
    BY <1>1, <1>3, <2>1, SumFunctionExcept
  <2> QED BY <1>3, <2>1, <2>2
<1>4. /\ zeros \in [S -> Int] /\ zeros[req] = 0
      /\ one \in [S -> Int] /\ one[prov] = 0
      /\ two \in [S -> Int] /\ two[chal] = 0
  BY Parties
<1>5. three = f
  BY Parties
<1>6. SumFunction(one) = f[req]
  <2>1. SumFunction(one) = SumFunction(zeros) + f[req] /\ f[req] \in Int
    BY <1>3, <1>4
  <2> HIDE DEF one, zeros
  <2> QED BY <1>2, <2>1
<1>7. SumFunction(two) = f[req] + f[prov]
  <2> HIDE DEF one
  <2>1. SumFunction(two) = SumFunction(one) + f[prov]
    BY <1>3, <1>4
  <2> HIDE DEF two
  <2> QED BY <1>6, <2>1
<1>8. SumFunction(three) = f[req] + f[prov] + f[chal]
  <2> HIDE DEF two
  <2>1. SumFunction(three) = SumFunction(two) + f[chal]
    BY <1>3, <1>4
  <2> HIDE DEF three
  <2> QED BY <1>7, <2>1
<1> QED BY <1>5, <1>8

\* Less is left than was allotted: at least the fee is gone.
LEMMA ConvictedLoses ==
  ASSUME NEW s, NEW u \in Work, Convicted(s, u)
  PROVE  SumFunction([a \in parties("fraud") |-> s.balance[a] + s.bonded[a]])
           < 3 * allotted
<1> DEFINE f == [a \in {req, prov, chal} |-> s.balance[a] + s.bonded[a]]
<1>1. parties("fraud") = {req, prov, chal}
  BY DEF parties
<1>2. /\ u \in Nat /\ allotted \in Nat /\ posted \in Nat
      /\ centi(1) \in Nat /\ centi(1) >= 100
      /\ recovery(u) \in Nat /\ fined(u) \in Nat /\ reward(u) \in Nat
      /\ reward(u) <= fined(u)
  BY WorkType, PenaltyType, AllottedIs
<1>3. /\ f[req] = allotted - centi(1) - u + recovery(u)
      /\ f[prov] = allotted + u - recovery(u) - fined(u)
      /\ f[chal] = allotted + reward(u)
  BY <1>2 DEF Convicted, Holds
<1>4. f \in [{req, prov, chal} -> Int]
  <2>1. \A a \in {req, prov, chal} : f[a] \in Int
    BY <1>2, <1>3
  <2> QED BY <2>1
<1> HIDE DEF f
<1>5. SumFunction(f) = f[req] + f[prov] + f[chal]
  BY <1>4, SumOfThree
<1>6. SumFunction(f) < 3 * allotted
  BY <1>2, <1>3, <1>5
<1> QED BY <1>1, <1>6 DEF f

-----------------------------------------------------------------------------
(***************************************************************************)
(* The window.                                                             *)
(***************************************************************************)
\* A settled scenario stands at the start of its window.
LEMMA SettledMatures ==
  ASSUME NEW s, NEW r, NEW u, Settled(s, r, u)
  PROVE  Maturing(s, u)
BY DEF Settled, Earned, Peaceful, Maturing, Holds

\* One more epoch, up to the last one of the window.
LEMMA EpochMatures ==
  ASSUME NEW s, NEW u \in Work, Maturing(s, u), s.epoch < 32
  PROVE  Maturing(advance_epoch(s), u)
<1> DEFINE e == s.epoch + 1
           x == advance_epoch(s)
           M == matured(s, e)
           f == [t \in Task |-> IF t \in M /\ s.tasks[t].provider = prov
                                THEN s.tasks[t].claim_stake ELSE 0]
<1>1. /\ s \in State /\ s.epoch \in Nat /\ s.slashed = {} /\ s.released = {}
      /\ s.tasks[task] = submission("Settled", prov, posted, u)
      /\ s.receipts[task] = settled_receipt(u)
      /\ s.escrowed[prov] = 0 /\ s.bonded[prov] = posted
      /\ s.balance[prov] = allotted - posted + u + issuance(u)
      /\ \A t \in Task : t # task => s.tasks[t] = None /\ s.receipts[t] = None
  BY DEF Maturing
<1>2. /\ s.tasks[task].provider = prov /\ s.tasks[task].claim_stake = posted
      /\ s.receipts[task].clawback_until = 32
  BY <1>1 DEF submission, settled_receipt
<1>3. s.tasks[task] # None /\ s.receipts[task] # None
  <2>1. submission("Settled", prov, posted, u) \in Submission
    BY WorkType, SubmissionIs
  <2>2. settled_receipt(u) \in Receipt
    BY WorkType, AllottedIs DEF settled_receipt, Receipt
  <2> QED BY <1>1, <2>1, <2>2, NoneAssumption
<1>4. M = IF e = 32 THEN {task} ELSE {}
  <2>1. \A t \in Task : t \in M => t = task
    BY <1>1 DEF matured
  <2>2. task \in M <=> 32 <= e
    BY <1>1, <1>2, <1>3, Parties DEF matured
  <2>3. M \subseteq Task
    BY DEF matured
  <2>4. 32 <= e <=> e = 32
    BY <1>1
  <2> HIDE DEF M, e
  <2> QED BY <2>1, <2>2, <2>3, <2>4
<1>5. f \in [Task -> Int] /\ f[task] = (IF e = 32 THEN posted ELSE 0)
      /\ \A t \in Task : t # task => f[t] = 0
  <2>1. posted \in Int
    BY AllottedIs
  <2>2. \A t \in Task : t # task => t \notin M
    BY <1>4
  <2>3. task \in M <=> e = 32
    BY <1>4
  <2> HIDE DEF M, e
  <2> QED BY <1>2, <2>1, <2>2, <2>3, Parties
<1>6. matured_stake(s, e, prov) = IF e = 32 THEN posted ELSE 0
  <2> DEFINE zeros == [t \in Task |-> 0]
  <2>1. zeros \in [Task -> Int] /\ zeros[task] = 0
        /\ \A t \in Task : zeros[t] = 0
    BY Parties
  <2> HIDE DEF f, zeros
  <2>2. SumFunction(zeros) = 0
    BY <2>1, TaskAssumption, SumFunctionZero
  <2>3. SumFunction(f) = SumFunction(zeros) + f[task] - zeros[task]
    BY <1>5, <2>1, TaskAssumption, Parties, SumFunctionChange
  <2>4. SumFunction(f) = f[task]
    BY <1>5, <2>1, <2>2, <2>3, Parties
  <2>5. matured_stake(s, e, prov) = SumFunction(f)
    BY DEF matured_stake, f
  <2> HIDE DEF e
  <2> QED BY <1>5, <2>4, <2>5
<1>7. freed(s, e, prov) = IF e = 32 THEN posted ELSE 0
  BY <1>1, <1>6, AllottedIs DEF freed, Least
<1>8. x \in State
  <2>1. Submitted(s)
    BY <1>1, <1>3 DEF Submitted
  <2> QED BY <1>1, <2>1, AdvanceEpochType
<1>9. /\ x.epoch = e /\ x.slashed = s.slashed /\ x.tasks = s.tasks
      /\ x.receipts = s.receipts /\ x.escrowed = s.escrowed
      /\ x.released = s.released \cup M
      /\ x.bonded = [a \in Identity |-> s.bonded[a] - freed(s, e, a)]
      /\ x.balance = [a \in Identity |-> s.balance[a] + freed(s, e, a)]
  <2> HIDE DEF M, e
  <2>1. x = [s EXCEPT
               !.epoch    = e,
               !.sp       = [a \in Identity |-> decay(s.sp[a])],
               !.bonded   = [a \in Identity |-> s.bonded[a] - freed(s, e, a)],
               !.balance  = [a \in Identity |-> s.balance[a] + freed(s, e, a)],
               !.released = @ \cup M]
    BY DEF advance_epoch, M, e
  <2> HIDE DEF x
  <2> QED BY <1>1, <2>1 DEF State
<1> HIDE DEF x
<1>10. x.epoch \in 0..32 /\ x.slashed = {} /\ x.escrowed[prov] = 0
  BY <1>1, <1>9
<1>11. /\ x.bonded[prov] = posted - freed(s, e, prov)
       /\ x.balance[prov] = allotted - posted + u + issuance(u) + freed(s, e, prov)
  BY <1>1, <1>9, Parties
<1>12. x.epoch < 32 => /\ x.released = {} /\ x.bonded[prov] = posted
                       /\ x.balance[prov] = allotted - posted + u + issuance(u)
  <2> SUFFICES ASSUME e # 32
               PROVE  /\ x.released = {} /\ x.bonded[prov] = posted
                      /\ x.balance[prov] = allotted - posted + u + issuance(u)
    BY <1>9
  <2>1. x.released = {}
    BY <1>1, <1>4, <1>9
  <2> QED BY <1>7, <1>11, <2>1, WorkType, AllottedIs
<1>13. x.epoch = 32 => /\ x.released = {task} /\ x.bonded[prov] = 0
                       /\ x.balance[prov] = allotted + u + issuance(u)
  <2> SUFFICES ASSUME e = 32
               PROVE  /\ x.released = {task} /\ x.bonded[prov] = 0
                      /\ x.balance[prov] = allotted + u + issuance(u)
    BY <1>9
  <2>1. x.released = {task}
    BY <1>1, <1>4, <1>9
  <2> QED BY <1>7, <1>11, <2>1, WorkType, AllottedIs
<1>14. /\ x.tasks[task] = submission("Settled", prov, posted, u)
       /\ x.receipts[task] = settled_receipt(u)
       /\ \A t \in Task : t # task => x.tasks[t] = None /\ x.receipts[t] = None
  BY <1>1, <1>9
<1> QED BY <1>8, <1>10, <1>12, <1>13, <1>14 DEF Maturing, x

-----------------------------------------------------------------------------
(***************************************************************************)
(* The scripts.                                                            *)
(***************************************************************************)
scripted(r, u, k) ==
  CASE k = 1 -> sign(req, [type |-> "SubmitTask", task |-> task], 0)
    [] k = 2 -> sign(prov, [type |-> "ClaimTask", task |-> task], 0)
    [] k = 3 -> sign(prov, [type |-> "SubmitProof", task |-> task,
                            proof |-> proof(r, u)], 1)
    [] k = 4 -> IF r = "fraud"
                THEN sign(chal, [type |-> "Challenge", task |-> task,
                                 bond |-> bond_of(u)], 0)
                ELSE sign(prov, [type |-> "Transfer", to |-> req,
                                 amount |-> UCU_SCALE], 2)

script_length(r) == IF r \in {"fraud", "replication"} THEN 4 ELSE 3

\* Transaction by transaction.
LEMMA ScriptIs ==
  ASSUME NEW r \in Record, NEW u
  PROVE  /\ Len(script(r, u)) = script_length(r)
         /\ \A k \in 1..script_length(r) : script(r, u)[k] = scripted(r, u, k)
<1> DEFINE one   == sign(req, [type |-> "SubmitTask", task |-> task], 0)
           two   == sign(prov, [type |-> "ClaimTask", task |-> task], 0)
           three == sign(prov, [type |-> "SubmitProof", task |-> task,
                                proof |-> proof(r, u)], 1)
           repay == sign(prov, [type |-> "Transfer", to |-> req,
                                amount |-> UCU_SCALE], 2)
           sue   == sign(chal, [type |-> "Challenge", task |-> task,
                                bond |-> bond_of(u)], 0)
<1>1. script(r, u) = CASE r = "fraud"       -> Append(<<one, two, three>>, sue)
                       [] r = "replication" -> Append(<<one, two, three>>, repay)
                       [] OTHER             -> <<one, two, three>>
  BY DEF script, bond_of
<1>2. \A k : scripted(r, u, k) =
        CASE k = 1 -> one [] k = 2 -> two [] k = 3 -> three
          [] k = 4 -> IF r = "fraud" THEN sue ELSE repay
  BY DEF scripted
<1> HIDE DEF one, two, three, repay, sue
<1>3. r \in {"settlement", "finality", "fraud", "replication"}
  BY DEF Record
<1>4. ASSUME NEW last
      PROVE  LET long == Append(<<one, two, three>>, last)
             IN /\ Len(long) = 4
                /\ long[1] = one /\ long[2] = two /\ long[3] = three /\ long[4] = last
  OBVIOUS
<1>5. /\ \A k \in 1..3 : k = 1 \/ k = 2 \/ k = 3
      /\ \A k \in 1..4 : k = 1 \/ k = 2 \/ k = 3 \/ k = 4
  OBVIOUS
<1>6. CASE r = "fraud"
  <2>1. script(r, u) = Append(<<one, two, three>>, sue)
    BY <1>1, <1>6
  <2> QED BY <1>2, <1>4, <1>5, <1>6, <2>1 DEF script_length
<1>7. CASE r = "replication"
  <2>1. script(r, u) = Append(<<one, two, three>>, repay)
    BY <1>1, <1>7
  <2> QED BY <1>2, <1>4, <1>5, <1>7, <2>1 DEF script_length
<1>8. CASE r # "fraud" /\ r # "replication"
  <2>1. script(r, u) = <<one, two, three>>
    BY <1>1, <1>8
  <2>2. script_length(r) = 3
    BY <1>8 DEF script_length
  <2>3. Len(<<one, two, three>>) = 3
    OBVIOUS
  <2> QED BY <1>2, <1>5, <2>1, <2>2, <2>3
<1> QED BY <1>6, <1>7, <1>8

\* What each does, if the ledger applies it.
LEMMA ScriptedDoes ==
  ASSUME NEW s, NEW r, NEW u
  PROVE  /\ apply(s, scripted(r, u, 1)) = bump_nonce(submit_task(s, req, task), req)
         /\ apply(s, scripted(r, u, 2)) = bump_nonce(claim_task(s, prov, task), prov)
         /\ apply(s, scripted(r, u, 3))
              = bump_nonce(submit_proof(s, task, proof(r, u)), prov)
         /\ r = "fraud" => apply(s, scripted(r, u, 4))
              = bump_nonce(open_challenge(s, chal, task, bond_of(u)), chal)
         /\ r # "fraud" => apply(s, scripted(r, u, 4))
              = bump_nonce(transfer(s, prov, req, UCU_SCALE), prov)
BY DEF scripted, sign, apply, effect

\* And that it does.
LEMMA ScriptedApplies ==
  ASSUME NEW s, NEW r, NEW u
  PROVE  /\ s.nonces[req] = 0 /\ CanSubmitTask(s, req, task)
              => CanApply(s, scripted(r, u, 1))
         /\ s.nonces[prov] = 0 /\ CanClaimTask(s, prov, task)
              => CanApply(s, scripted(r, u, 2))
         /\ s.nonces[prov] = 1 /\ CanSubmitProof(s, prov, task, proof(r, u))
              => CanApply(s, scripted(r, u, 3))
         /\ r = "fraud" /\ s.nonces[chal] = 0
              /\ CanOpenChallenge(s, chal, task, bond_of(u))
              => CanApply(s, scripted(r, u, 4))
         /\ r # "fraud" /\ s.nonces[prov] = 2 /\ CanTransfer(s, prov, UCU_SCALE)
              => CanApply(s, scripted(r, u, 4))
<1> DEFINE Signed(x, a, n) == x.author = a /\ x.sig = a /\ x.nonce = n
<1>1. ASSUME s.nonces[req] = 0, CanSubmitTask(s, req, task)
      PROVE  CanApply(s, scripted(r, u, 1))
  <2> DEFINE x == scripted(r, u, 1)
  <2>1. Signed(x, req, 0) /\ x.tx.type = "SubmitTask"
        /\ x.tx.task = task
    BY DEF scripted, sign
  <2> HIDE DEF x
  <2>2. CanApply(s, x)
    BY <1>1, <2>1 DEF CanApply, verify_sig, NonceOk
  <2> QED BY <2>2 DEF x
<1>2. ASSUME s.nonces[prov] = 0, CanClaimTask(s, prov, task)
      PROVE  CanApply(s, scripted(r, u, 2))
  <2> DEFINE x == scripted(r, u, 2)
  <2>1. Signed(x, prov, 0) /\ x.tx.type = "ClaimTask"
        /\ x.tx.task = task
    BY DEF scripted, sign
  <2> HIDE DEF x
  <2>2. CanApply(s, x)
    BY <1>2, <2>1 DEF CanApply, verify_sig, NonceOk
  <2> QED BY <2>2 DEF x
<1>3. ASSUME s.nonces[prov] = 1, CanSubmitProof(s, prov, task, proof(r, u))
      PROVE  CanApply(s, scripted(r, u, 3))
  <2> DEFINE x == scripted(r, u, 3)
  <2>1. Signed(x, prov, 1) /\ x.tx.type = "SubmitProof"
        /\ x.tx.task = task /\ x.tx.proof = proof(r, u)
    BY DEF scripted, sign
  <2> HIDE DEF x
  <2>2. CanApply(s, x)
    BY <1>3, <2>1 DEF CanApply, verify_sig, NonceOk
  <2> QED BY <2>2 DEF x
<1>4. ASSUME r = "fraud", s.nonces[chal] = 0, CanOpenChallenge(s, chal, task, bond_of(u))
      PROVE  CanApply(s, scripted(r, u, 4))
  <2> DEFINE x == scripted(r, u, 4)
  <2>1. Signed(x, chal, 0) /\ x.tx.type = "Challenge"
        /\ x.tx.task = task /\ x.tx.bond = bond_of(u)
    BY <1>4 DEF scripted, sign
  <2> HIDE DEF x
  <2>2. CanApply(s, x)
    BY <1>4, <2>1 DEF CanApply, verify_sig, NonceOk
  <2> QED BY <2>2 DEF x
<1>5. ASSUME r # "fraud", s.nonces[prov] = 2, CanTransfer(s, prov, UCU_SCALE)
      PROVE  CanApply(s, scripted(r, u, 4))
  <2> DEFINE x == scripted(r, u, 4)
  <2>1. Signed(x, prov, 2) /\ x.tx.type = "Transfer"
        /\ x.tx.amount = UCU_SCALE
    BY <1>5 DEF scripted, sign
  <2> HIDE DEF x
  <2>2. CanApply(s, x)
    BY <1>5, <2>1 DEF CanApply, verify_sig, NonceOk
  <2> QED BY <2>2 DEF x
<1> QED BY <1>1, <1>2, <1>3, <1>4, <1>5

\* The state after k transactions of a script.
Reached(s, r, u, k) ==
  /\ k = 0 => Fresh(s, r)
  /\ k = 1 => Posted(s, r)
  /\ k = 2 => Claimed(s, r)
  /\ k = 3 => Settled(s, r, u)
  /\ k = 4 => IF r = "fraud" THEN Disputed(s, u) ELSE s \in State

LEMMA ReachedType ==
  ASSUME NEW r, NEW u, NEW k \in 0..4, NEW s, Reached(s, r, u, k)
  PROVE  s \in State
<1>1. k = 0 \/ k = 1 \/ k = 2 \/ k = 3 \/ k = 4
  OBVIOUS
<1>2. \/ Fresh(s, r) \/ Posted(s, r) \/ Claimed(s, r) \/ Settled(s, r, u)
      \/ Disputed(s, u) \/ s \in State
  BY <1>1 DEF Reached
<1> QED BY <1>2 DEF Disputed, Settled, Earned, Claimed, Posted, Fresh, Unearned,
                    Undisputed, Peaceful

\* The ledger applies the next transaction and is where it leads.
LEMMA ScriptAdvances ==
  ASSUME NEW r \in Record, NEW u \in Work, NEW k \in 0..3, k < script_length(r),
         NEW s, Reached(s, r, u, k)
  PROVE  /\ CanApply(s, scripted(r, u, k + 1))
         /\ Reached(apply(s, scripted(r, u, k + 1)), r, u, k + 1)
<1> DEFINE x == scripted(r, u, k + 1)
           y == apply(s, x)
<1>1. CASE k = 0
  <2>1. Fresh(s, r)
    BY <1>1 DEF Reached
  <2>2. x = scripted(r, u, 1)
    BY <1>1
  <2>3. CanApply(s, x)
    BY <2>1, <2>2, SubmitPosts, ScriptedApplies DEF Fresh
  <2>4. Posted(y, r)
    BY <2>1, <2>2, SubmitPosts, ScriptedDoes
  <2> HIDE DEF x, y
  <2>5. Reached(y, r, u, 1)
    BY <2>4 DEF Reached
  <2> QED BY <1>1, <2>3, <2>5 DEF y, x
<1>2. CASE k = 1
  <2>1. Posted(s, r)
    BY <1>2 DEF Reached
  <2>2. x = scripted(r, u, 2)
    BY <1>2
  <2>3. CanApply(s, x)
    BY <2>1, <2>2, ClaimClaims, ScriptedApplies DEF Posted
  <2>4. Claimed(y, r)
    BY <2>1, <2>2, ClaimClaims, ScriptedDoes
  <2> HIDE DEF x, y
  <2>5. Reached(y, r, u, 2)
    BY <2>4 DEF Reached
  <2> QED BY <1>2, <2>3, <2>5 DEF y, x
<1>3. CASE k = 2
  <2>1. Claimed(s, r)
    BY <1>3 DEF Reached
  <2>2. x = scripted(r, u, 3)
    BY <1>3
  <2>3. CanApply(s, x)
    BY <2>1, <2>2, ProofSettles, ScriptedApplies DEF Claimed
  <2>4. Settled(y, r, u)
    BY <2>1, <2>2, ProofSettles, ScriptedDoes
  <2> HIDE DEF x, y
  <2>5. Reached(y, r, u, 3)
    BY <2>4 DEF Reached
  <2> QED BY <1>3, <2>3, <2>5 DEF y, x
<1>4. CASE k = 3 /\ r = "fraud"
  <2>1. Settled(s, "fraud", u)
    BY <1>4 DEF Reached
  <2>2. x = scripted(r, u, 4)
    BY <1>4
  <2>3. s.nonces[chal] = 0
    BY <2>1 DEF Settled, Undisputed
  <2>4. CanApply(s, x)
    BY <1>4, <2>1, <2>2, <2>3, ChallengeDisputes, ScriptedApplies
  <2>5. Disputed(y, u)
    BY <1>4, <2>1, <2>2, ChallengeDisputes, ScriptedDoes
  <2> HIDE DEF x, y
  <2>6. Reached(y, r, u, 4)
    BY <1>4, <2>5 DEF Reached
  <2> QED BY <1>4, <2>4, <2>6 DEF y, x
<1>5. CASE k = 3 /\ r # "fraud"
  <2>1. Settled(s, r, u)
    BY <1>5 DEF Reached
  <2>2. x = scripted(r, u, 4)
    BY <1>5
  <2>3. s.nonces[prov] = 2
    BY <2>1 DEF Settled, Earned
  <2>4. CanApply(s, x)
    BY <1>5, <2>1, <2>2, <2>3, Repayable, ScriptedApplies
  <2>5. y = bump_nonce(transfer(s, prov, req, UCU_SCALE), prov)
    BY <1>5, <2>2, ScriptedDoes
  <2>6. y \in State
    <3>1. s \in State
      BY <2>1 DEF Settled, Earned, Peaceful
    <3>2. CanTransfer(s, prov, UCU_SCALE) /\ UCU_SCALE \in Nat
      BY <2>1, Repayable, ScaleAssumption
    <3>3. transfer(s, prov, req, UCU_SCALE) \in State
      BY <3>1, <3>2, MoveType, Parties
    <3> QED BY <2>5, <3>3, BumpNonceType, Parties
  <2> HIDE DEF x, y
  <2>7. Reached(y, r, u, 4)
    BY <1>5, <2>6 DEF Reached
  <2> QED BY <1>5, <2>4, <2>7 DEF y, x
<1> QED BY <1>1, <1>2, <1>3, <1>4, <1>5

-----------------------------------------------------------------------------
(***************************************************************************)
(* Replaying one transaction.                                              *)
(***************************************************************************)
replay(acc, stx) ==
  IF acc # None /\ CanApply(acc, stx) THEN apply(acc, stx) ELSE None

\* g is the function by which the fold over the block <<stx>> is defined.
IsReplay(stx, s, g) ==
  g = [S \in SUBSET {1} |->
         IF S = {} THEN s ELSE replay(g[S \ {Max(S)}], <<stx>>[Max(S)])]

LEMMA ReplayUnfold ==
  ASSUME NEW stx, NEW s
  PROVE  replayed(<<stx>>, s) = (CHOOSE g : IsReplay(stx, s, g))[{1}]
<1>1. DOMAIN <<stx>> = {1}
  OBVIOUS
<1>2. replayed(<<stx>>, s) = FoldLeft(replay, s, <<stx>>)
  BY Zenon DEF replayed, replay
<1> QED BY <1>1, <1>2, Zenon DEF FoldLeft, MapThenFoldSet, IsReplay

LEMMA ReplayOne ==
  ASSUME NEW stx, NEW s
  PROVE  replayed(<<stx>>, s) = replay(s, stx)
<1> DEFINE h == [S \in SUBSET {1} |-> IF S = {} THEN s ELSE replay(s, stx)]
<1>1. Max({1}) = 1
  BY DEF Max
<1>2. \A S \in SUBSET {1} : S = {} \/ S = {1}
  OBVIOUS
<1>3. IsReplay(stx, s, h)
  <2>1. h[{}] = s
    OBVIOUS
  <2>2. \A S \in SUBSET {1} : S # {} => S \ {Max(S)} = {} /\ <<stx>>[Max(S)] = stx
    <3>1. /\ {1} \ {1} = {} /\ <<stx>>[1] = stx
      OBVIOUS
    <3>2. \A S \in SUBSET {1} : S # {} => S = {1}
      BY <1>2
    <3> QED BY <1>1, <3>1, <3>2
  <2>3. h = [S \in SUBSET {1} |->
               IF S = {} THEN s ELSE replay(h[S \ {Max(S)}], <<stx>>[Max(S)])]
    BY <2>1, <2>2
  <2> HIDE DEF h
  <2> QED BY <2>3 DEF IsReplay
<1>4. PICK g : IsReplay(stx, s, g) /\ g = (CHOOSE f : IsReplay(stx, s, f))
  <2> HIDE DEF h
  <2> QED BY <1>3
<1>5. g[{}] = s
  BY <1>4 DEF IsReplay
<1>6. g[{1}] = replay(g[{1} \ {1}], <<stx>>[1])
  BY <1>1, <1>4 DEF IsReplay
<1>7. g[{1}] = replay(s, stx)
  BY <1>5, <1>6
<1> QED BY <1>4, <1>7, ReplayUnfold

-----------------------------------------------------------------------------
(***************************************************************************)
(* The invariant: where the ledger, the chain and the replica are.         *)
(***************************************************************************)
ScenarioType ==
  /\ record \in Record /\ work \in Work
  /\ step \in 0..script_length(record)
  /\ resolved \in BOOLEAN

\* After its script, the finality scenario runs through its window, and the
\* verdict falls in the fraud scenario.
Arrived ==
  /\ ~ resolved /\ ~ (record = "finality" /\ step = 3)
       => Reached(ledger, record, work, step)
  /\ record = "finality" /\ step = 3 => Maturing(ledger, work)
  /\ resolved => record = "fraud" /\ step = 4 /\ Convicted(ledger, work)

\* The state that the first k blocks lead to.
after(k) == IF k = 0 THEN start(record) ELSE chain[k].state

\* Block k holds transaction k of the script and the state it leads to.
Recorded(k) ==
  LET x == scripted(record, work, k)
  IN /\ chain[k].txs = <<x>> /\ chain[k].block.txs = <<x>>
     /\ chain[k].block.height = k /\ chain[k].block.state_root = after(k)
     /\ CanApply(after(k - 1), x) /\ after(k) = apply(after(k - 1), x)
     /\ after(k - 1) \in State /\ after(k) \in State

\* The producer is at the end of its chain, the replica somewhere on it.
Replicated ==
  record = "replication" =>
    /\ \E S : chain \in Seq(S)
    /\ Len(chain) = step /\ sequencer.height = step
    /\ ledger = after(step)
    /\ \A k \in 1..step : Recorded(k)
    /\ replica_sequencer.height \in 0..step
    /\ replica = after(replica_sequencer.height)

IInv == ScenarioType /\ Arrived /\ Replicated

\* Where a script stands.
LEMMA Running ==
  ASSUME ScenarioType
  PROVE  /\ ran <=> step = script_length(record)
         /\ ~ ran => /\ next_tx = scripted(record, work, step + 1)
                     /\ step \in 0..3 /\ step < script_length(record)
<1>1. record \in Record /\ step \in 0..script_length(record)
  BY DEF ScenarioType
<1>2. script_length(record) \in 0..4
  BY DEF script_length
<1>3. /\ Len(script(record, work)) = script_length(record)
      /\ \A k \in 1..script_length(record) :
           script(record, work)[k] = scripted(record, work, k)
  BY <1>1, ScriptIs
<1>4. ran <=> step = script_length(record)
  BY <1>3 DEF ran
<1>5. ASSUME ~ ran
      PROVE  /\ step \in 0..3 /\ step < script_length(record)
             /\ step + 1 \in 1..script_length(record)
  BY <1>1, <1>2, <1>4, <1>5
<1> QED BY <1>3, <1>4, <1>5 DEF next_tx

LEMMA IInvInit == ScenarioInit => IInv
<1> SUFFICES ASSUME ScenarioInit PROVE IInv
  OBVIOUS
<1>1. /\ record \in Record /\ work \in Work /\ step = 0 /\ resolved = FALSE
      /\ ledger = start(record) /\ replica = start(record) /\ chain = << >>
      /\ sequencer.height = 0 /\ replica_sequencer.height = 0
  BY DEF ScenarioInit, new_sequencer
<1>2. Fresh(ledger, record)
  BY <1>1, StartFresh
<1>3. script_length(record) \in 3..4
  BY DEF script_length
<1>4. ScenarioType
  <2>1. resolved \in BOOLEAN
    BY <1>1
  <2> QED BY <1>1, <1>3, <2>1 DEF ScenarioType
<1>5. Reached(ledger, record, work, step)
  BY <1>1, <1>2 DEF Reached
<1>6. Arrived
  BY <1>1, <1>5 DEF Arrived
<1>7. Replicated
  <2>1. chain \in Seq({}) /\ Len(chain) = 0
    BY <1>1
  <2> QED BY <1>1, <2>1 DEF Replicated, after
<1> QED BY <1>4, <1>6, <1>7 DEF IInv

LEMMA RunScriptKeeps == IInv /\ RunScript => IInv'
<1> SUFFICES ASSUME IInv, RunScript PROVE IInv'
  OBVIOUS
<1> DEFINE x == scripted(record, work, step + 1)
<1>1. ScenarioType /\ Arrived
  BY DEF IInv
<1>2. /\ record # "replication" /\ ~ ran
      /\ ledger' = apply(ledger, next_tx) /\ step' = step + 1
      /\ record' = record /\ work' = work /\ resolved' = resolved
  BY DEF RunScript
<1>3. next_tx = x /\ step \in 0..3 /\ step < script_length(record)
  BY <1>1, <1>2, Running
<1>4. record \in Record /\ work \in Work /\ resolved \in BOOLEAN
  BY <1>1 DEF ScenarioType
<1>5. ~ resolved /\ Reached(ledger, record, work, step)
  <2>1. record = "finality" => script_length(record) = 3
    BY DEF script_length
  <2>2. ~ resolved
    <3>1. script_length(record) \in 3..4
      BY DEF script_length
    <3> QED BY <1>1, <1>3, <3>1 DEF Arrived
  <2> QED BY <1>1, <1>3, <2>1, <2>2 DEF Arrived
<1>6. Reached(ledger', record, work, step + 1)
  BY <1>2, <1>3, <1>4, <1>5, ScriptAdvances
<1>7. ScenarioType'
  <2>1. script_length(record) \in 3..4
    BY DEF script_length
  <2> QED BY <1>2, <1>3, <1>4, <2>1 DEF ScenarioType
<1>8. Arrived'
  <2>1. step + 1 = 3 => Maturing(ledger', work)
    BY <1>6, SettledMatures DEF Reached
  <2> QED BY <1>2, <1>5, <1>6, <2>1 DEF Arrived
<1>9. Replicated'
  BY <1>2 DEF Replicated
<1> QED BY <1>7, <1>8, <1>9 DEF IInv

LEMMA ProduceKeeps == IInv /\ Produce => IInv'
<1> SUFFICES ASSUME IInv, Produce PROVE IInv'
  OBVIOUS
<1> DEFINE x == scripted(record, work, step + 1)
           p == produce(sequencer, <<x>>, ledger)
           y == apply(ledger, x)
<1>1. ScenarioType /\ Arrived /\ Replicated
  BY DEF IInv
<1>2. record = "replication" /\ ~ ran
  BY DEF Produce
<1>3. next_tx = x /\ step \in 0..3 /\ step < script_length(record)
  BY <1>1, <1>2, Running
<1>4. record \in Record /\ work \in Work /\ resolved = FALSE
  BY <1>1, <1>2 DEF ScenarioType, Arrived
<1>5. Reached(ledger, record, work, step)
  BY <1>1, <1>2, <1>4 DEF Arrived
<1>6. CanApply(ledger, x) /\ Reached(y, record, work, step + 1)
  BY <1>3, <1>4, <1>5, ScriptAdvances
<1>7. ledger \in State /\ y \in State
  BY <1>3, <1>5, <1>6, ReachedType
<1>8. p = [ block |-> block_on(sequencer, <<x>>, y), txs |-> <<x>>, state |-> y ]
  BY <1>6, ProduceOne
<1>9. /\ p.txs = <<x>> /\ p.txs # << >> /\ p.state = y
      /\ p.block.txs = <<x>> /\ p.block.state_root = y
      /\ p.block.height = sequencer.height + 1
  BY <1>8 DEF block_on
<1>10. /\ sequencer' = adopt(sequencer, p.block) /\ ledger' = y
       /\ chain' = Append(chain, p) /\ step' = step + 1
       /\ record' = record /\ work' = work /\ resolved' = resolved
       /\ replica_sequencer' = replica_sequencer /\ replica' = replica
  BY <1>3, <1>9 DEF Produce, follower
<1> HIDE DEF x, p, y
<1>11. ScenarioType'
  <2>1. script_length(record) \in 3..4
    BY DEF script_length
  <2>2. resolved' \in BOOLEAN
    BY <1>4, <1>10
  <2> QED BY <1>3, <1>4, <1>10, <2>1, <2>2 DEF ScenarioType
<1>12. Arrived'
  BY <1>2, <1>4, <1>6, <1>10 DEF Arrived
<1>13. /\ Len(chain) = step /\ sequencer.height = step
       /\ ledger = after(step)
       /\ \A k \in 1..step : Recorded(k)
       /\ replica_sequencer.height \in 0..step
       /\ replica = after(replica_sequencer.height)
  BY <1>1, <1>2 DEF Replicated
<1>14. PICK n \in 0..3 : n = step
  BY <1>3
<1>15. /\ \E T : chain' \in Seq(T)
       /\ Len(chain') = n + 1
       /\ \A k \in 1..n : chain'[k] = chain[k]
       /\ chain'[n + 1] = p
  <2>1. PICK S : chain \in Seq(S)
    BY <1>1, <1>2 DEF Replicated
  <2>2. chain \in Seq(S \cup {p})
    BY <2>1
  <2>3. chain' \in Seq(S \cup {p})
    BY <1>10, <2>2
  <2> QED BY <1>10, <1>13, <1>14, <2>2, <2>3
<1>16. /\ \A k \in 0..n : after(k)' = after(k)
       /\ after(n + 1)' = y
  BY <1>9, <1>10, <1>14, <1>15 DEF after
<1>17. \A k \in 1..n : Recorded(k)'
  <2> SUFFICES ASSUME NEW k \in 1..n PROVE Recorded(k)'
    OBVIOUS
  <2>1. k \in 0..n /\ k - 1 \in 0..n
    OBVIOUS
  <2>2. Recorded(k) /\ chain'[k] = chain[k]
    BY <1>13, <1>14, <1>15
  <2>3. after(k)' = after(k) /\ after(k - 1)' = after(k - 1)
    BY <1>16, <2>1
  <2> QED BY <1>10, <2>2, <2>3 DEF Recorded
<1>18. Recorded(n + 1)'
  <2> DEFINE m == n + 1
  <2>1. m - 1 = n /\ m = step + 1
    BY <1>14
  <2>2. after(n)' = ledger
    BY <1>13, <1>14, <1>16
  <2>3. /\ chain'[m] = p /\ after(m)' = y /\ after(m - 1)' = ledger
    BY <1>15, <1>16, <2>1, <2>2
  <2>4. /\ p.txs = <<x>> /\ p.block.txs = <<x>> /\ p.block.height = m
        /\ p.block.state_root = y /\ x = scripted(record, work, m)
    BY <1>9, <1>13, <2>1 DEF x
  <2>5. CanApply(ledger, x) /\ y = apply(ledger, x) /\ ledger \in State /\ y \in State
    BY <1>6, <1>7 DEF y
  <2> HIDE DEF m
  <2>6. Recorded(m)'
    BY <1>10, <2>3, <2>4, <2>5 DEF Recorded
  <2> QED BY <2>6 DEF m
<1>19. Replicated'
  <2>1. \A k \in 1..(n + 1) : Recorded(k)'
    BY <1>14, <1>17, <1>18
  <2>2. sequencer'.height = step + 1
    BY <1>9, <1>10, <1>13 DEF adopt
  <2>3. replica' = after(replica_sequencer.height)'
    BY <1>10, <1>13, <1>14, <1>16
  <2>4. ledger' = after(step)'
    BY <1>10, <1>14, <1>16
  <2>5. \A k \in 1..step' : Recorded(k)'
    BY <1>10, <1>14, <2>1
  <2>6. Len(chain') = step' /\ sequencer'.height = step'
        /\ replica_sequencer'.height \in 0..step'
    BY <1>10, <1>13, <1>14, <1>15, <2>2
  <2> QED BY <1>15, <2>3, <2>4, <2>5, <2>6 DEF Replicated
<1> QED BY <1>11, <1>12, <1>19 DEF IInv

\* A replica that is at block k - 1 accepts block k, and is in its state.
LEMMA Committed ==
  ASSUME NEW k \in Nat, Recorded(k)
  PROVE  /\ commit(chain[k].block, chain[k].txs, after(k - 1)) = after(k)
         /\ after(k) # None
<1> DEFINE x == scripted(record, work, k)
<1>1. /\ chain[k].txs = <<x>> /\ chain[k].block.txs = <<x>>
      /\ chain[k].block.state_root = after(k)
      /\ CanApply(after(k - 1), x) /\ after(k) = apply(after(k - 1), x)
      /\ after(k - 1) \in State /\ after(k) \in State
  BY DEF Recorded
<1> HIDE DEF x
<1>2. after(k - 1) # None /\ after(k) # None
  BY <1>1, NoneAssumption
<1>3. replayed(<<x>>, after(k - 1)) = after(k)
  BY <1>1, <1>2, ReplayOne DEF replay
<1> QED BY <1>1, <1>2, <1>3 DEF commit

LEMMA ReplayKeeps == IInv /\ Replay => IInv'
<1> SUFFICES ASSUME IInv, Replay PROVE IInv'
  OBVIOUS
<1>1. ScenarioType /\ Arrived /\ Replicated
  BY DEF IInv
<1>2. /\ record = "replication" /\ replica_sequencer.height < Len(chain)
      /\ UNCHANGED <<ledger, record, work, step, resolved, producer>>
  BY DEF Replay
<1>3. /\ Len(chain) = step /\ ledger = after(step)
      /\ \A k \in 1..step : Recorded(k)
      /\ replica_sequencer.height \in 0..step
      /\ replica = after(replica_sequencer.height)
  BY <1>1, <1>2 DEF Replicated
<1>4. PICK n \in Nat : n = replica_sequencer.height + 1
  BY <1>3
<1>5. n \in 1..step /\ replica_sequencer.height = n - 1
  BY <1>1, <1>2, <1>3, <1>4 DEF ScenarioType
<1>6. Recorded(n) /\ replica = after(n - 1)
  BY <1>3, <1>5
<1>7. /\ replica' = after(n)
      /\ replica_sequencer' = adopt(replica_sequencer, chain[n].block)
  BY <1>4, <1>6, Committed DEF Replay
<1>8. replica_sequencer'.height = n
  BY <1>6, <1>7 DEF adopt, Recorded
<1>9. /\ ledger' = ledger /\ record' = record /\ work' = work /\ step' = step
      /\ resolved' = resolved /\ sequencer' = sequencer /\ chain' = chain
  BY <1>2 DEF producer
<1>10. ScenarioType' /\ Arrived'
  BY <1>1, <1>9 DEF ScenarioType, Arrived
<1>11. \A k \in Nat : after(k)' = after(k)
  BY <1>9 DEF after
<1>12. Replicated'
  <2>1. replica' = after(replica_sequencer.height)'
    BY <1>7, <1>8, <1>11
  <2>2. \A k \in 1..step' : Recorded(k)'
    <3> SUFFICES ASSUME NEW k \in 1..step' PROVE Recorded(k)'
      OBVIOUS
    <3>1. k \in 1..step /\ k \in Nat /\ k - 1 \in Nat
      BY <1>9
    <3>2. Recorded(k) /\ after(k)' = after(k) /\ after(k - 1)' = after(k - 1)
      BY <1>3, <1>11, <3>1
    <3> QED BY <1>9, <3>2 DEF Recorded
  <2>3. ledger' = after(step)'
    BY <1>1, <1>3, <1>9, <1>11 DEF ScenarioType
  <2> QED BY <1>1, <1>2, <1>5, <1>8, <1>9, <2>1, <2>2, <2>3 DEF Replicated
<1> QED BY <1>10, <1>12 DEF IInv

LEMMA CloseWindowKeeps == IInv /\ CloseWindow => IInv'
<1> SUFFICES ASSUME IInv, CloseWindow PROVE IInv'
  OBVIOUS
<1>1. ScenarioType /\ Arrived
  BY DEF IInv
<1>2. /\ record = "finality" /\ ran /\ ledger.epoch < params.clawback_epochs
      /\ ledger' = advance_epoch(ledger)
      /\ record' = record /\ work' = work /\ step' = step /\ resolved' = resolved
  BY DEF CloseWindow
<1>3. step = 3
  BY <1>1, <1>2, Running DEF script_length
<1>4. work \in Work /\ Maturing(ledger, work) /\ ~ resolved
  BY <1>1, <1>2, <1>3 DEF ScenarioType, Arrived
<1>5. ledger.epoch < 32
  BY <1>2, DevnetAssumption DEF devnet
<1>6. Maturing(ledger', work)
  BY <1>2, <1>4, <1>5, EpochMatures
<1>7. ScenarioType'
  BY <1>1, <1>2 DEF ScenarioType
<1>8. Arrived'
  BY <1>2, <1>3, <1>4, <1>6 DEF Arrived
<1>9. Replicated'
  BY <1>2 DEF Replicated
<1> QED BY <1>7, <1>8, <1>9 DEF IInv

LEMMA JudgeKeeps == IInv /\ Judge => IInv'
<1> SUFFICES ASSUME IInv, Judge PROVE IInv'
  OBVIOUS
<1>1. ScenarioType /\ Arrived
  BY DEF IInv
<1>2. /\ record = "fraud" /\ ran /\ ~ resolved
      /\ ledger' = resolve_challenge(ledger, task, ledger.proofs[task].result # "honest")
      /\ record' = record /\ work' = work /\ step' = step /\ resolved' = TRUE
  BY DEF Judge
<1>3. step = 4
  BY <1>1, <1>2, Running DEF script_length
<1>4. work \in Work /\ Disputed(ledger, work)
  BY <1>1, <1>2, <1>3 DEF ScenarioType, Arrived, Reached
<1>5. ledger.proofs[task].result # "honest"
  BY <1>4, ProofIs DEF Disputed, Earned
<1>6. Convicted(ledger', work)
  <2>1. (ledger.proofs[task].result # "honest") = TRUE
    BY <1>5
  <2>2. ledger' = resolve_challenge(ledger, task, TRUE)
    BY <1>2, <2>1
  <2> QED BY <1>4, <2>2, VerdictConvicts
<1>7. ScenarioType'
  <2>1. resolved' \in BOOLEAN
    BY <1>2
  <2> QED BY <1>1, <1>2, <2>1 DEF ScenarioType
<1>8. Arrived'
  BY <1>2, <1>3, <1>6 DEF Arrived
<1>9. Replicated'
  BY <1>2 DEF Replicated
<1> QED BY <1>7, <1>8, <1>9 DEF IInv

\* The scenarios are where their scripts say.
THEOREM ScenariosReach == ScenarioSpec => []IInv
<1>1. IInv /\ UNCHANGED vars => IInv'
  <2> SUFFICES ASSUME IInv, UNCHANGED vars PROVE IInv'
    OBVIOUS
  <2>1. /\ ledger' = ledger /\ record' = record /\ work' = work /\ step' = step
        /\ resolved' = resolved /\ sequencer' = sequencer /\ chain' = chain
        /\ replica_sequencer' = replica_sequencer /\ replica' = replica
    BY DEF vars, producer, follower
  <2> QED BY <2>1 DEF IInv, ScenarioType, Arrived, Replicated, Recorded, after
<1>2. IInv /\ [ScenarioNext]_vars => IInv'
  BY <1>1, RunScriptKeeps, ProduceKeeps, ReplayKeeps, CloseWindowKeeps, JudgeKeeps
     DEF ScenarioNext
<1> QED BY <1>2, IInvInit, PTL DEF ScenarioSpec

-----------------------------------------------------------------------------
(***************************************************************************)
(* The outcomes.                                                           *)
(***************************************************************************)
\* Hundredths of one 𝕌 are multiples of the first, and of four of them the
\* issuance is four hundredths.
LEMMA CentiIs ==
  /\ \A n \in Nat : centi(n) = n * centi(1)
  /\ issuance(centi(400)) = centi(4)
<1> DEFINE c == UCU_SCALE \div 100
<1>1. c \in Nat /\ \A n \in Nat : centi(n) = n * c
  BY CentiType DEF centi
<1> HIDE DEF c
<1>2. centi(1) = c /\ centi(400) = 400 * c /\ centi(4) = 4 * c
  BY <1>1
<1>3. 400 * c \in Nat /\ ((400 * c) * 10) \div 1000 = 4 * c
  BY <1>1
<1>4. issuance(400 * c) = ((400 * c) * 10) \div 1000
  BY <1>3, WorkAmounts
<1>5. issuance(centi(400)) = centi(4)
  BY <1>2, <1>3, <1>4
<1> QED BY <1>1, <1>2, <1>5

\* The settlement of four 𝕌.
LEMMA HappyPath ==
  ASSUME Settled(ledger, "settlement", centi(400))
  PROVE  happy_path
<1> DEFINE c == centi(1)
           u == centi(400)
<1>1. /\ c \in Nat /\ allotted = 10000 * c /\ posted = 500 * c
  BY AllottedIs
<1>2. \A n \in Nat : centi(n) = n * c
  BY CentiIs
<1>3. /\ u = 400 * c /\ issuance(u) = 4 * c /\ centi(4) = 4 * c
      /\ centi(9599) = 9599 * c /\ centi(9904) = 9904 * c
      /\ centi(500) = 500 * c /\ centi(20004) = 20004 * c
  BY <1>2, CentiIs
<1>4. /\ Holds(ledger, req, allotted - c - u, 0, 0)
      /\ Holds(ledger, prov, allotted - posted + u + issuance(u), 0, posted)
      /\ ledger.sp[prov] = u /\ ledger.strikes[prov] = 0
      /\ ledger.receipts[task] = settled_receipt(u)
      /\ ledger.q_ledger[task]
           = [ucu |-> u, benchmark |-> Body[task].benchmark, q |-> None]
      /\ ledger.minted = 2 * allotted + issuance(u) /\ ledger.fee_pool = c
  BY DEF Settled, Earned, Peaceful, endowment
<1>5. settled_receipt(u) = published_receipt
  BY <1>3 DEF settled_receipt, published_receipt
<1>6. ledger.q_ledger[task].ucu = u /\ ledger.q_ledger[task].q = None
  BY <1>4
<1>7. account(req) = <<centi(9599), 0, 0>>
  <2>1. allotted - c - u = centi(9599)
    BY <1>1, <1>3
  <2> QED BY <1>4, <2>1 DEF account, Holds
<1>8. account(prov) = <<centi(9904), 0, centi(500)>>
  <2>1. allotted - posted + u + issuance(u) = centi(9904) /\ posted = centi(500)
    BY <1>1, <1>3
  <2> QED BY <1>4, <2>1 DEF account, Holds
<1>9. ledger.minted = centi(20004)
  BY <1>1, <1>3, <1>4
<1> QED BY <1>4, <1>5, <1>6, <1>7, <1>8, <1>9 DEF happy_path

\* Its end, when the window has closed.
LEMMA Finality ==
  ASSUME Maturing(ledger, centi(400)), ledger.epoch = 32
  PROVE  finality
<1> DEFINE c == centi(1)
           u == centi(400)
<1>1. c \in Nat /\ allotted = 10000 * c
  BY AllottedIs
<1>2. /\ u = 400 * c /\ issuance(u) = 4 * c /\ centi(4) = 4 * c
      /\ centi(10404) = 10404 * c
  BY CentiIs
<1>3. /\ ledger.receipts[task] = settled_receipt(u) /\ ledger.released = {task}
      /\ Holds(ledger, prov, allotted + u + issuance(u), 0, 0)
  BY DEF Maturing, Holds
<1>4. settled_receipt(u) = published_receipt
  BY <1>2 DEF settled_receipt, published_receipt
<1>5. account(prov) = <<centi(10404), 0, 0>>
  <2>1. allotted + u + issuance(u) = centi(10404)
    BY <1>1, <1>2
  <2> QED BY <1>3, <2>1 DEF account, Holds
<1> QED BY <1>3, <1>4, <1>5 DEF finality

\* The verdict on 7142 base units.
LEMMA FraudChallenge ==
  ASSUME Convicted(ledger, 7142)
  PROVE  fraud_challenge
<1> DEFINE c == centi(1)
<1>1. c \in Nat /\ c >= 100 /\ allotted = 10000 * c /\ posted = 500 * c
  BY AllottedIs
<1>2. centi(9500) = 9500 * c /\ centi(500) = 500 * c
  BY CentiIs
<1>3. issuance(7142) = 71
  BY WorkAmounts
<1>4. recovery(7142) = 7142
  BY <1>1 DEF recovery, Least
<1>5. fined(7142) = 14284
  BY <1>1, <1>4 DEF fined, Least
<1>6. reward(7142) = 7142
  BY <1>5 DEF reward, Least
<1>7. /\ Holds(ledger, req, allotted - c - 7142 + 7142, 0, 0)
      /\ Holds(ledger, prov, allotted - posted + 7142, 0, posted - 7142 - 14284)
      /\ Holds(ledger, chal, allotted + 7142, 0, 0)
      /\ ledger.sp[prov] = 0 /\ ledger.strikes[prov] = 1
      /\ ledger.minted = 3 * allotted + 71
      /\ ledger.burned = 71 + (14284 - 7142)
      /\ ledger.fee_pool = c
  BY <1>3, <1>4, <1>5, <1>6 DEF Convicted
<1>8. /\ allotted - c - 7142 + 7142 = allotted - c
      /\ allotted - posted + 7142 = centi(9500) + 7142
      /\ posted - 7142 - 14284 = centi(500) - 21426
      /\ 71 + (14284 - 7142) = 7213
  BY <1>1, <1>2
<1> HIDE DEF c
<1> QED BY <1>7, <1>8 DEF fraud_challenge, account, Holds, c

\* Where a scenario that is done is.
LEMMA DoneIs ==
  ASSUME IInv, done
  PROVE  /\ record = "settlement" => Settled(ledger, record, work)
         /\ record = "finality" => Maturing(ledger, work) /\ ledger.epoch = 32
         /\ record = "fraud" => Convicted(ledger, work)
         /\ record = "replication" => step = 4 /\ replica_sequencer.height = Len(chain)
<1>1. ScenarioType /\ Arrived
  BY DEF IInv
<1>2. step = script_length(record)
  BY <1>1, Running DEF done
<1>3. /\ record \in {"settlement", "finality"} => step = 3
      /\ record \in {"fraud", "replication"} => step = 4
  BY <1>2 DEF script_length
<1>4. record = "settlement" => Settled(ledger, record, work)
  BY <1>1, <1>3 DEF Arrived, Reached
<1>5. record = "finality" => Maturing(ledger, work) /\ ledger.epoch = 32
  BY <1>1, <1>3, DevnetAssumption DEF Arrived, done, devnet
<1>6. record = "fraud" => Convicted(ledger, work)
  BY <1>1 DEF Arrived, done
<1>7. record = "replication" => step = 4 /\ replica_sequencer.height = Len(chain)
  BY <1>3 DEF done
<1> QED BY <1>4, <1>5, <1>6, <1>7

\* The amounts of the test vectors (test-vectors/) are the outcomes, whatever the
\* scale of one 𝕌 and of the rates.
THEOREM VectorsPublished == ScenarioSpec => []PublishedVectors
<1>1. IInv => PublishedVectors
  BY DoneIs, HappyPath, Finality, FraudChallenge DEF PublishedVectors
<1> QED BY <1>1, ScenariosReach, PTL

\* A forged proof that is challenged costs its circle at least the fee, whatever
\* work it claims: resolve_challenge pays out less than it takes.
THEOREM ForgeryLoses == ScenarioSpec => []ForgeryEarnsNothing
<1>1. IInv => ForgeryEarnsNothing
  BY DoneIs, ConvictedLoses DEF ForgeryEarnsNothing, IInv, ScenarioType
<1> QED BY <1>1, ScenariosReach, PTL

\* The replica that commits every block of the producer is in its state.
THEOREM ReplayMatches == ScenarioSpec => []ReplicaMatches
<1>1. IInv => ReplicaMatches
  <2> SUFFICES ASSUME IInv, record = "replication", done
               PROVE  Len(chain) = 4 /\ replica = ledger
    BY DEF ReplicaMatches
  <2>1. step = 4 /\ replica_sequencer.height = Len(chain)
    BY DoneIs
  <2> QED BY <2>1 DEF IInv, Replicated
<1> QED BY <1>1, ScenariosReach, PTL

\* The next call of a scenario is never refused: the ledger applies the next
\* transaction of the script (apply returns Ok), and the replica accepts the next
\* block (commit returns Ok).  Otherwise the expect of the harness would panic.
NothingRefused ==
  /\ ~ ran => CanApply(ledger, next_tx)
  /\ record = "replication" /\ replica_sequencer.height < Len(chain)
       => LET proposal == chain[replica_sequencer.height + 1]
          IN commit(proposal.block, proposal.txs, replica) # None

THEOREM ScenariosRun == ScenarioSpec => []NothingRefused
<1>1. IInv => NothingRefused
  <2> SUFFICES ASSUME IInv PROVE NothingRefused
    OBVIOUS
  <2>1. ScenarioType /\ Arrived /\ Replicated
    BY DEF IInv
  <2>2. ASSUME ~ ran PROVE CanApply(ledger, next_tx)
    <3>1. /\ next_tx = scripted(record, work, step + 1)
          /\ step \in 0..3 /\ step < script_length(record)
      BY <2>1, <2>2, Running
    <3>2. Reached(ledger, record, work, step)
      BY <2>1, <3>1 DEF Arrived, script_length
    <3> QED BY <2>1, <3>1, <3>2, ScriptAdvances DEF ScenarioType
  <2>3. ASSUME record = "replication", replica_sequencer.height < Len(chain)
        PROVE  LET proposal == chain[replica_sequencer.height + 1]
               IN commit(proposal.block, proposal.txs, replica) # None
    <3>1. PICK n \in Nat : n = replica_sequencer.height + 1
      BY <2>1, <2>3 DEF Replicated
    <3>2. n \in 1..step /\ replica = after(n - 1)
      BY <2>1, <2>3, <3>1 DEF Replicated, ScenarioType
    <3>3. Recorded(n)
      BY <2>1, <2>3, <3>2 DEF Replicated
    <3> QED BY <3>1, <3>2, <3>3, Committed
  <2> QED BY <2>2, <2>3 DEF NothingRefused
<1> QED BY <1>1, ScenariosReach, PTL
=============================================================================
