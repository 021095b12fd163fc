--------------------------- MODULE MCVerification ---------------------------
(***************************************************************************)
(* Words of three values for the draws, which neither the rates nor the    *)
(* lists divide.  Words of eight for the seals: some bounds do not fit     *)
(* them, some products wrap around, one of them to zero, and so does what  *)
(* the benchmark would spend on the largest work.                          *)
(***************************************************************************)
EXTENDS Verification

CONSTANTS p, a, b

SmallEligible ==
  {<< >>, <<p>>, <<a>>, <<p, a, b>>, <<a, p, b>>, <<a, b>>}
=============================================================================
