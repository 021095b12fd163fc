---------------------------- MODULE Verification ----------------------------
(***************************************************************************)
(* What crates/verification has beside the re-execution check: the sampled *)
(* audit and the Sealed Power Proof.  Nothing on the live path calls them; *)
(* here an auditor and an attestor do, as their documentation says.        *)
(*                                                                         *)
(* Whether a settled task is audited and who re-executes it are drawn from *)
(* the hash of a block and the task.  Two words of the hash are used, one  *)
(* for each.  Over all tasks every pair of words may come up, in any       *)
(* order; a task is known by the pair it draws.                            *)
(*                                                                         *)
(* A seal declares words of 64 bits, and what it bounds is computed in     *)
(* words of 128 that nobody checks: they wrap around, as in a release      *)
(* build (a debug build panics instead and attests nothing).               *)
(***************************************************************************)
EXTENDS Integers, SequencesExt, FiniteSets, Functions

CONSTANTS
  Word,       \* the number of values of a word of a hash, 2^64 in the code
  Rate,       \* audit probabilities, in parts per million
  Provider,   \* the identity whose proofs are audited
  Eligible,   \* lists of identities that may re-execute
  Work,       \* amounts of metered work, in base units
  U64,        \* the number of values of an amount in a seal, 2^64 as well
  Power, Window, Temp,   \* what seals may declare
  Version,           \* benchmark versions
  version,           \* the benchmark in force
  e_baseline, t_std, \* its energy and temperature
  UCU_SCALE, MICRO_Q_SCALE,
  None        \* nobody, no attestation, nothing recorded

PPM == 1000000

\* The words in which a bound is computed are twice as wide.
U128 == U64 * U64

ASSUME WordAssumption ==
  Word \in Nat \ {0} /\ U64 \in Nat \ {0} /\ Rate \subseteq Nat
ASSUME EligibleAssumption == \A list \in Eligible : list \in Seq(ToSet(list))
ASSUME BenchmarkAssumption ==
  version \in Version /\ {e_baseline, t_std} \subseteq 0..(U64 - 1)
ASSUME DeclaredAssumption ==
  /\ Work \subseteq 0..(U128 - 1)
  /\ Power \cup Window \cup Temp \subseteq 0..(U64 - 1)
ASSUME ScaleAssumption == UCU_SCALE \in Nat \ {0} /\ MICRO_Q_SCALE \in Nat

Draw == 0..(Word - 1)

PowerSeal == [ power_cap : Power, window : Window, t_max : Temp,
               evidence : BOOLEAN, benchmark : Version ]

VARIABLES
  rate, eligible,   \* what the auditor was started with
  drawn,            \* the pairs that came up
  audits,           \* the re-executor of each task that is audited
  ucu_count,        \* the metered work of a task
  seal,             \* the seal last attested for it
  q                 \* what was recorded

auditor  == <<rate, eligible, drawn, audits>>
attestor == <<ucu_count, seal, q>>
vars     == <<auditor, attestor>>

-----------------------------------------------------------------------------
(***************************************************************************)
(* The sampled audit.                                                      *)
(***************************************************************************)
\* Slip: one draw too many.
is_sampled_closed(draw, ppm) == draw <= (ppm * Word) \div PPM

is_sampled(draw, ppm) == draw < (ppm * Word) \div PPM

\* Slip: the provider stays in the list.
candidates_all(list, exclude) == list

candidates(list, exclude) ==
  LET kept[i \in 0..Len(list)] ==
        IF i = 0 THEN << >>
        ELSE IF list[i] = exclude THEN kept[i - 1] ELSE Append(kept[i - 1], list[i])
  IN kept[Len(list)]

\* Slip: the word that decided the audit also picks the re-executor.
pick_word_same(d) == d[1]

pick_word(d) == d[2]

select_reexecutor(draw, list, exclude) ==
  LET filtered == candidates(list, exclude)
  IN IF filtered = << >> THEN None ELSE filtered[(draw % Len(filtered)) + 1]

Pass(d) ==
  /\ ~ is_sampled(d[1], rate)
  /\ UNCHANGED audits

Audit(d) ==
  /\ is_sampled(d[1], rate)
  /\ audits' = [x \in DOMAIN audits \cup {d} |->
                  IF x = d THEN select_reexecutor(pick_word(d), eligible, Provider)
                  ELSE audits[x]]

AuditDraw ==
  /\ rate # None
  /\ \E d \in (Draw \X Draw) \ drawn :
       /\ drawn' = drawn \cup {d}
       /\ Pass(d) \/ Audit(d)
  /\ UNCHANGED <<rate, eligible, attestor>>

-----------------------------------------------------------------------------
(***************************************************************************)
(* The Sealed Power Proof: the gates a power seal has to pass and the      *)
(* bound on the efficiency it then proves.                                 *)
(***************************************************************************)
evidence_valid(s) == s.evidence

plausible(s) == s.power_cap > 0 /\ s.window > 0 /\ s.t_max > 0

well_formed(s) == s.benchmark = version

\* Slip: the energy is computed in the word of its factors.
e_consumed_wrapped(s) == (s.power_cap * s.window) % U64

e_consumed(s) == s.power_cap * s.window

\* The work in whole units, but no less than one.
whole_ucu(u) == IF u \div UCU_SCALE < 1 THEN 1 ELSE u \div UCU_SCALE

\* What the benchmark would spend on the work, as a number and as computed.
standard(u) == whole_ucu(u) * e_baseline * t_std * MICRO_Q_SCALE

numerator(u) == standard(u) % U128

\* The energy times the temperature as computed: the energy, a product of two
\* words, fits the wider one, and this product may not.
denom(s) == (e_consumed(s) * s.t_max) % U128

\* Slip: the work is divided by what was spent before it is scaled.
quotient_early(u, s) ==
  ((whole_ucu(u) * e_baseline * t_std) \div denom(s)) * MICRO_Q_SCALE

quotient(u, s) == numerator(u) \div denom(s)

\* Cast to a word, keeping the low bits; zero when the product is, also when it
\* has wrapped around to zero.
sealed_q_floor(s, u) == IF denom(s) = 0 THEN 0 ELSE quotient(u, s) % U64

attest(s, u) ==
  IF evidence_valid(s) /\ plausible(s) /\ well_formed(s)
  THEN sealed_q_floor(s, u)
  ELSE None

Attest ==
  /\ ucu_count # None
  /\ \E s \in PowerSeal : seal' = s /\ q' = attest(s, ucu_count)
  /\ UNCHANGED <<ucu_count, auditor>>

-----------------------------------------------------------------------------
\* Neither caller sees the other: a behaviour is one of the auditor, with its
\* rate and its list, or one of the attestor, for one amount of work.
Init ==
  /\ drawn = {} /\ audits = << >> /\ seal = None /\ q = None
  /\ \/ rate \in Rate /\ eligible \in Eligible /\ ucu_count = None
     \/ rate = None /\ eligible = None /\ ucu_count \in Work

Next == AuditDraw \/ Attest

Spec == Init /\ [][Next]_vars

-----------------------------------------------------------------------------
(***************************************************************************)
(* Properties.                                                             *)
(***************************************************************************)
all_drawn == drawn = Draw \X Draw

\* Over all hashes the audits come up at the declared rate: never more often,
\* and less often by no more than one value of the word; none at zero, every
\* task at one million.
AuditRate ==
  all_drawn =>
    LET sampled == Cardinality(DOMAIN audits)
        whole   == Word * Word
    IN /\ rate <= PPM => sampled * PPM <= rate * whole
       /\ rate <= PPM => rate * whole < sampled * PPM + Word * PPM
       /\ rate >= PPM => sampled = whole

\* The provider never re-executes its own task; somebody does whenever there
\* is anybody else.
AuditedByOther ==
  \A d \in DOMAIN audits :
    LET others == ToSet(eligible) \ {Provider}
    IN IF others = {} THEN audits[d] = None ELSE audits[d] \in others

\* No candidate is left out, wherever in the list the provider stands.
AllTakePart ==
  (all_drawn /\ DOMAIN audits # {} /\ Word >= Len(eligible)) =>
    ToSet(eligible) \ {Provider} \subseteq Range(audits)

\* What a seal bounds: energy times temperature.
spent(s) == s.power_cap * s.window * s.t_max

\* Some words declare more than the code can multiply.
multiplies(s) == spent(s) < U128

fits(s) == numerator(ucu_count) < U64 * spent(s)

\* What is recorded is at most the efficiency that the seal proves: the work per
\* energy and temperature, in micro units of the benchmark, is at least q.  Less
\* than one unit of work is taken for one, so there the bound is one on the
\* efficiency of a whole unit.  It is a bound for every seal whose product the
\* code can form, also when the work wraps around and when the cast drops bits.
LowerBound ==
  LET work == IF ucu_count < UCU_SCALE THEN UCU_SCALE ELSE ucu_count
  IN (q # None /\ multiplies(seal)) =>
       q * spent(seal) * UCU_SCALE <= work * e_baseline * t_std * MICRO_Q_SCALE

\* Of two such seals for the same work the one that declares less energy and a
\* lower temperature is not recorded with less, as long as its bound fits the
\* word.
TighterSealNotLess ==
  [][(/\ q # None /\ q' # None
      /\ multiplies(seal) /\ spent(seal') <= spent(seal) /\ fits(seal)')
     => q' >= q]_vars

\* The bound is the best one in micro units: it is rounded once, at the end, as
\* long as neither product wraps around and the bound fits the word.
TightBound ==
  (/\ q # None
   /\ multiplies(seal) /\ standard(ucu_count) < U128 /\ fits(seal))
  => standard(ucu_count) < (q + 1) * spent(seal)
=============================================================================
