------------------------------ MODULE MCParams ------------------------------
(***************************************************************************)
(* A parameter set for small instances.  Rates are in tenths and large, so *)
(* that amounts of one to four 𝕌 already have a fee, an issuance, a fine   *)
(* and a bond.                                                             *)
(***************************************************************************)

\* Fee 1 for a ceiling of 2; issuance of half the work; full stake, down to
\* half of it for a provider of good Standing; fine twice and bond half of
\* the payment; a window of one epoch.
SmallParams ==
  [ issuance_rate_ppm     |-> 5,
    fee_ppm               |-> 5,
    sp_rate_ppm           |-> 10,
    efficiency_mult_ppm   |-> 10,
    decay_rate_ppm        |-> 5,
    stake_base_ppm        |-> 10,
    discount_max_ppm      |-> 5,
    sp_ref                |-> 2,
    clawback_epochs       |-> 1,
    fine_mult_ppm         |-> 20,
    challenger_reward_ppm |-> 5,
    bond_min_ppm          |-> 5 ]

\* The same with a window of two epochs.
LongParams == [SmallParams EXCEPT !.clawback_epochs = 2]
=============================================================================
