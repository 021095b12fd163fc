----------------------------- MODULE Governance -----------------------------
(***************************************************************************)
(* The static parameter set of crates/governance: the economic constants   *)
(* the ledger reads and the amounts computed from them.  Every rate is in  *)
(* parts per million and every division rounds down.  The audit            *)
(* probability of the set is read by no operation of the ledger; it is one *)
(* of the rates of Verification.                                           *)
(*                                                                         *)
(* The amounts are natural numbers here; the code computes them in 128-bit *)
(* words.  Words says why that makes no difference.                        *)
(***************************************************************************)
EXTENDS Integers

CONSTANTS
  PPM,      \* the denominator of every rate: one million in the code
  params    \* the parameter set

ASSUME PpmAssumption == PPM \in Nat \ {0}

Params == [ issuance_rate_ppm     : Nat,
            fee_ppm               : Nat,
            sp_rate_ppm           : Nat,
            efficiency_mult_ppm   : Nat,
            decay_rate_ppm        : 0..PPM,
            stake_base_ppm        : Nat,
            discount_max_ppm      : 0..PPM,
            sp_ref                : Int,
            clawback_epochs       : Nat,
            fine_mult_ppm         : Nat,
            challenger_reward_ppm : Nat,
            bond_min_ppm          : Nat ]

\* The discount and the decay are subtracted from PPM, so neither exceeds it.
ASSUME ParamsAssumption == params \in Params

-----------------------------------------------------------------------------
Least(a, b) == IF a <= b THEN a ELSE b

\* floor(rate * x), the rate in parts per million.
ppm_of(x, rate) == (x * rate) \div PPM

fee(max_ucu) == ppm_of(max_ucu, params.fee_ppm)

\* Slip: rounded up.
issuance_up(u) == (u * params.issuance_rate_ppm + PPM - 1) \div PPM

issuance(u) == ppm_of(u, params.issuance_rate_ppm)
standing_accrual(u) ==
  ppm_of(ppm_of(u, params.sp_rate_ppm), params.efficiency_mult_ppm)

stake_base(max_ucu) == ppm_of(max_ucu, params.stake_base_ppm)

\* The share of the stake that Standing sp saves, capped; none when sp_ref is
\* not positive.
discount_reduction_ppm(sp) ==
  IF params.sp_ref <= 0 THEN 0
  ELSE Least((sp * PPM) \div params.sp_ref, params.discount_max_ppm)

claim_stake(max_ucu, sp) ==
  ppm_of(stake_base(max_ucu), PPM - discount_reduction_ppm(sp))

fine(p)              == ppm_of(p, params.fine_mult_ppm)
challenger_reward(f) == ppm_of(f, params.challenger_reward_ppm)
bond_min(p)          == ppm_of(p, params.bond_min_ppm)

\* Standing after one epoch.
decay(sp) == ppm_of(sp, PPM - params.decay_rate_ppm)
=============================================================================
