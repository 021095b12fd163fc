------------------------- MODULE VerificationTheorems -------------------------
(***************************************************************************)
(* What a power seal bounds and how often an audit is drawn, for every     *)
(* width of the word, every benchmark, amount of work and audit rate.  The *)
(* words in which the bound is computed wrap around: what is proved of a   *)
(* seal is for those whose energy times temperature the code can multiply. *)
(***************************************************************************)
EXTENDS Verification, FiniteSetTheorems, WellFoundedInduction, TLAPS

-----------------------------------------------------------------------------
(***************************************************************************)
(* Arithmetic.                                                             *)
(***************************************************************************)
\* Induction up to a bound, with the induction predicate given as a set.
LEMMA UpToInduction ==
  ASSUME NEW n \in Nat, NEW G, 0 \in G,
         \A i \in 0..(n - 1) : i \in G => i + 1 \in G
  PROVE  \A i \in 0..n : i \in G
<1> DEFINE Bad == (0..n) \ G
<1>1. SUFFICES ASSUME Bad # {} PROVE FALSE
  OBVIOUS
<1> DEFINE Less == OpToRel(<, Nat)
<1>2. PICK i \in Bad : \A j \in Bad : ~ (<<j, i>> \in Less)
  <2>1. Bad \subseteq Nat
    OBVIOUS
  <2>2. IsWellFoundedOn(Less, Nat)
    BY NatLessThanWellFounded
  <2> HIDE DEF Bad, Less
  <2> QED BY <1>1, <2>1, <2>2, WFMin
<1>3. \A j \in Bad : ~ (j < i)
  <2>1. \A j \in Nat : j < i => <<j, i>> \in Less
    BY DEF OpToRel
  <2>2. Bad \subseteq Nat
    OBVIOUS
  <2> HIDE DEF Bad, Less
  <2> QED BY <1>2, <2>1, <2>2
<1>4. i # 0 /\ i - 1 \in 0..(n - 1)
  OBVIOUS
<1>5. i - 1 \in G
  BY <1>3, <1>4
<1> QED BY <1>4, <1>5

\* What it is to divide and round down.
LEMMA DivBounds ==
  ASSUME NEW a \in Nat, NEW d \in Nat \ {0}
  PROVE  /\ a \div d \in Nat
         /\ (a \div d) * d <= a
         /\ a < (a \div d + 1) * d
OBVIOUS

\* The quotient is the only number between these bounds.
LEMMA DivUnique ==
  ASSUME NEW a \in Nat, NEW d \in Nat \ {0}, NEW k \in Nat, k * d <= a
  PROVE  k <= a \div d
<1> DEFINE x == a \div d
<1>1. x \in Nat /\ a < (x + 1) * d
  BY DivBounds
<1> HIDE DEF x
<1>2. k * d < (x + 1) * d
  BY <1>1
<1>3. k < x + 1
  BY <1>1, <1>2
<1> QED BY <1>1, <1>3 DEF x

\* The remainder is no more than the number, and is the number when that fits.
LEMMA ModBounds ==
  ASSUME NEW a \in Nat, NEW d \in Nat \ {0}
  PROVE  a % d \in Nat /\ a % d <= a /\ a % d < d /\ (a < d => a % d = a)
OBVIOUS

\* Products grow with their factors.
LEMMA ProductMonotone ==
  ASSUME NEW x \in Nat, NEW y \in Nat, x <= y, NEW c \in Nat
  PROVE  x * c \in Nat /\ y * c \in Nat /\ x * c <= y * c
OBVIOUS

\* A multiple of the divisor adds nothing to the remainder.
LEMMA ModOfSum ==
  ASSUME NEW k \in Nat, NEW d \in Nat \ {0}, NEW r \in Nat, r < d
  PROVE  (k * d + r) % d = r
<1> DEFINE a == k * d + r
           x == a \div d
<1>1. a \in Nat /\ x \in Nat /\ x * d <= a /\ a < (x + 1) * d
  <2>1. a \in Nat
    OBVIOUS
  <2> HIDE DEF a
  <2> QED BY <2>1, DivBounds
<1>2. a % d = a - x * d
  <2> HIDE DEF a
  <2> QED BY <1>1
<1>3. k <= x
  <2>1. k * d <= a
    OBVIOUS
  <2> HIDE DEF a
  <2> QED BY <1>1, <2>1, DivUnique
<1> HIDE DEF x
<1>4. x <= k
  <2> SUFFICES ASSUME k + 1 <= x PROVE FALSE
    BY <1>1
  <2>1. (k + 1) * d <= x * d /\ (k + 1) * d = k * d + d /\ x * d \in Nat
    BY <1>1, ProductMonotone
  <2> QED BY <1>1, <2>1
<1> QED BY <1>2, <1>3, <1>4, <1>1

-----------------------------------------------------------------------------
(***************************************************************************)
(* The seal.                                                               *)
(***************************************************************************)
\* The words have values.
LEMMA WordType == U64 \in Nat \ {0} /\ U128 \in Nat \ {0}
<1>1. U64 \in Nat /\ U64 > 0
  BY WordAssumption
<1>2. U64 * U64 \in Nat /\ U64 * U64 > 0
  BY <1>1
<1> QED BY <1>1, <1>2 DEF U128

\* The amounts of a seal that passes the gates.  Its product is computed exactly
\* when the word holds it.
LEMMA SealType ==
  ASSUME NEW s \in PowerSeal
  PROVE  /\ spent(s) \in Nat /\ denom(s) \in Nat
         /\ plausible(s) => spent(s) > 0
         /\ multiplies(s) => denom(s) = spent(s)
<1>1. s.power_cap \in Nat /\ s.window \in Nat /\ s.t_max \in Nat
  BY DeclaredAssumption, WordType DEF PowerSeal
<1>2. s.power_cap * s.window \in Nat
  BY <1>1
<1>3. ASSUME plausible(s) PROVE spent(s) > 0
  <2>1. s.power_cap * s.window > 0
    BY <1>1, <1>3 DEF plausible
  <2> QED BY <1>1, <1>2, <1>3, <2>1 DEF plausible, spent
<1>4. spent(s) \in Nat /\ denom(s) = spent(s) % U128
  BY <1>1, <1>2 DEF spent, denom, e_consumed
<1>5. denom(s) \in Nat /\ (multiplies(s) => denom(s) = spent(s))
  BY <1>4, WordType, ModBounds DEF multiplies
<1> QED BY <1>3, <1>4, <1>5

\* The amounts of the benchmark.
LEMMA BenchmarkType == e_baseline \in Nat /\ t_std \in Nat
<1>1. 0..(U64 - 1) \subseteq Nat
  BY WordType
<1> QED BY <1>1, BenchmarkAssumption

\* The work, in whole units.
LEMMA WorkType ==
  ASSUME NEW u \in Work
  PROVE  /\ u \in Nat /\ whole_ucu(u) \in Nat /\ standard(u) \in Nat
         /\ whole_ucu(u) * UCU_SCALE <= IF u < UCU_SCALE THEN UCU_SCALE ELSE u
<1>1. u \in Nat /\ UCU_SCALE \in Nat \ {0}
  BY DeclaredAssumption, ScaleAssumption, WordType
<1> DEFINE w == u \div UCU_SCALE
<1>2. w \in Nat /\ w * UCU_SCALE <= u /\ u < (w + 1) * UCU_SCALE
  BY <1>1, DivBounds
<1>3. whole_ucu(u) = IF w < 1 THEN 1 ELSE w
  BY DEF whole_ucu
<1> HIDE DEF w
<1>4. whole_ucu(u) \in Nat
  BY <1>2, <1>3
<1>5. standard(u) \in Nat
  <2>1. whole_ucu(u) * e_baseline \in Nat
    BY <1>4, BenchmarkType
  <2>2. whole_ucu(u) * e_baseline * t_std \in Nat
    BY <2>1, BenchmarkType
  <2> QED BY <2>2, ScaleAssumption DEF standard
<1>6. CASE w < 1
  <2>1. w = 0 /\ whole_ucu(u) = 1
    BY <1>2, <1>3, <1>6
  <2>2. u < UCU_SCALE
    BY <1>1, <1>2, <2>1
  <2> QED BY <1>1, <1>4, <1>5, <2>1, <2>2
<1>7. CASE w >= 1
  <2>1. whole_ucu(u) = w
    BY <1>2, <1>3, <1>7
  <2>2. 1 * UCU_SCALE <= w * UCU_SCALE /\ w * UCU_SCALE \in Nat
    BY <1>1, <1>2, <1>7, ProductMonotone
  <2>3. ~ (u < UCU_SCALE)
    BY <1>1, <1>2, <2>2
  <2> QED BY <1>1, <1>2, <1>4, <1>5, <2>1, <2>3
<1> QED BY <1>1, <1>2, <1>4, <1>5, <1>6, <1>7

\* What the benchmark would spend, as computed: no more than it is.
LEMMA NumeratorType ==
  ASSUME NEW u \in Work
  PROVE  /\ numerator(u) \in Nat /\ numerator(u) <= standard(u)
         /\ standard(u) < U128 => numerator(u) = standard(u)
BY WorkType, WordType, ModBounds DEF numerator

\* The quotient is the bound, rounded down.
LEMMA QuotientBounds ==
  ASSUME NEW u \in Work, NEW s \in PowerSeal, plausible(s), multiplies(s)
  PROVE  /\ quotient(u, s) \in Nat
         /\ quotient(u, s) * spent(s) <= numerator(u)
         /\ numerator(u) < (quotient(u, s) + 1) * spent(s)
<1>1. spent(s) \in Nat \ {0} /\ numerator(u) \in Nat
  BY SealType, NumeratorType
<1>2. quotient(u, s) = numerator(u) \div spent(s)
  BY SealType DEF quotient
<1> QED BY <1>1, <1>2, DivBounds

\* A quotient is cast to no more than it is, and to itself when it fits.
LEMMA CastQuotient ==
  ASSUME NEW u \in Work, NEW s \in PowerSeal, plausible(s), multiplies(s)
  PROVE  LET k == quotient(u, s)
             f == sealed_q_floor(s, u)
         IN  /\ f \in Nat /\ f <= k
             /\ numerator(u) < U64 * spent(s) => f = k
<1> DEFINE k == quotient(u, s)
           n == spent(s)
           f == sealed_q_floor(s, u)
<1>1. /\ k \in Nat /\ k * n <= numerator(u) /\ n \in Nat /\ n > 0
      /\ numerator(u) \in Nat
  BY QuotientBounds, SealType, NumeratorType
<1>2. f = k % U64
  <2>1. denom(s) # 0
    BY SealType
  <2> QED BY <2>1 DEF sealed_q_floor
<1> HIDE DEF k, n, f
<1>3. ASSUME numerator(u) < U64 * n PROVE k < U64
  <2>1. k * n < U64 * n
    BY <1>1, <1>3, WordType
  <2> QED BY <1>1, <2>1, WordType
<1>4. k % U64 \in Nat /\ k % U64 <= k /\ (k < U64 => k % U64 = k)
  BY <1>1, ModBounds, WordType
<1> QED BY <1>2, <1>3, <1>4 DEF k, n, f

\* What is recorded is what the last seal is worth as computed.
SealInv ==
  /\ ucu_count \in Work \cup {None}
  /\ q # None =>
       /\ ucu_count \in Work /\ seal \in PowerSeal /\ plausible(seal)
       /\ q = sealed_q_floor(seal, ucu_count)

LEMMA AttestRecords ==
  ASSUME SealInv, Attest
  PROVE  SealInv'
<1>1. PICK s \in PowerSeal : seal' = s /\ q' = attest(s, ucu_count)
  BY DEF Attest
<1>2. ucu_count \in Work /\ ucu_count' = ucu_count
  BY DEF Attest, SealInv
<1>3. ASSUME q' # None
      PROVE  plausible(s) /\ q' = sealed_q_floor(s, ucu_count)
  BY <1>1, <1>3 DEF attest
<1>4. sealed_q_floor(seal', ucu_count') = sealed_q_floor(s, ucu_count)
  BY <1>1, <1>2
<1>5. q' # None => q' = sealed_q_floor(seal', ucu_count')
  BY <1>3, <1>4
<1> QED BY <1>1, <1>2, <1>3, <1>5 DEF SealInv

LEMMA SealSound == Spec => []SealInv
<1>1. Init => SealInv
  BY DEF Init, SealInv
<1>2. SealInv /\ [Next]_vars => SealInv'
  <2> SUFFICES ASSUME SealInv, [Next]_vars PROVE SealInv'
    OBVIOUS
  <2>1. CASE Attest
    BY <2>1, AttestRecords
  <2>2. CASE UNCHANGED attestor
    BY <2>2 DEF attestor, SealInv
  <2> QED BY <2>1, <2>2 DEF Next, AuditDraw, vars
<1> QED BY <1>1, <1>2, PTL DEF Spec

-----------------------------------------------------------------------------
(***************************************************************************)
(* What is recorded bounds the efficiency.                                 *)
(***************************************************************************)
\* The order of the factors does not matter.
LEMMA ScaleFirst ==
  ASSUME NEW a \in Nat, NEW b \in Nat, NEW c \in Nat, NEW d \in Nat, NEW s \in Nat
  PROVE  (a * b * c * d) * s = (a * s) * b * c * d
OBVIOUS

\* A product of three factors grows with the first.
LEMMA WorkMonotone ==
  ASSUME NEW x \in Nat, NEW y \in Nat, x <= y,
         NEW b \in Nat, NEW c \in Nat, NEW d \in Nat
  PROVE  x * b * c * d <= y * b * c * d
<1>1. x * b \in Nat /\ y * b \in Nat /\ x * b <= y * b
  BY ProductMonotone
<1>2. x * b * c \in Nat /\ y * b * c \in Nat /\ x * b * c <= y * b * c
  BY <1>1, ProductMonotone
<1> QED BY <1>2, ProductMonotone

LEMMA SealBounds == SealInv => LowerBound /\ TightBound
<1> SUFFICES ASSUME SealInv, q # None, multiplies(seal)
             PROVE  LET work == IF ucu_count < UCU_SCALE THEN UCU_SCALE ELSE ucu_count
                    IN /\ q * spent(seal) * UCU_SCALE
                            <= work * e_baseline * t_std * MICRO_Q_SCALE
                       /\ (standard(ucu_count) < U128 /\ fits(seal))
                            => standard(ucu_count) < (q + 1) * spent(seal)
  BY DEF LowerBound, TightBound
<1> DEFINE k == quotient(ucu_count, seal)
           n == spent(seal)
           std == standard(ucu_count)
           work == IF ucu_count < UCU_SCALE THEN UCU_SCALE ELSE ucu_count
<1>1. /\ ucu_count \in Work /\ seal \in PowerSeal /\ plausible(seal)
      /\ q = sealed_q_floor(seal, ucu_count)
  BY DEF SealInv
<1>2. /\ k \in Nat /\ k * n <= numerator(ucu_count)
      /\ numerator(ucu_count) < (k + 1) * n
  BY <1>1, QuotientBounds
<1>3. /\ n \in Nat /\ n > 0 /\ std \in Nat
      /\ numerator(ucu_count) \in Nat /\ numerator(ucu_count) <= std
      /\ std < U128 => numerator(ucu_count) = std
  BY <1>1, SealType, WorkType, NumeratorType
<1>4. q \in Nat /\ q <= k /\ (fits(seal) => q = k)
  BY <1>1, CastQuotient DEF fits
<1>5. q * n * UCU_SCALE <= work * e_baseline * t_std * MICRO_Q_SCALE
  <2>1. whole_ucu(ucu_count) \in Nat /\ ucu_count \in Nat
        /\ whole_ucu(ucu_count) * UCU_SCALE <= work
    BY <1>1, WorkType
  <2>2. UCU_SCALE \in Nat /\ MICRO_Q_SCALE \in Nat /\ e_baseline \in Nat /\ t_std \in Nat
    BY ScaleAssumption, BenchmarkType
  <2>3. work \in Nat
    BY <2>1, <2>2
  <2>4. whole_ucu(ucu_count) * UCU_SCALE \in Nat
    BY <2>1, <2>2
  <2>5. q * n <= std /\ q * n \in Nat
    <3> HIDE DEF k, n, std
    <3>1. q * n \in Nat /\ k * n \in Nat /\ q * n <= k * n
      BY <1>2, <1>3, <1>4, ProductMonotone
    <3> QED BY <1>2, <1>3, <3>1
  <2>6. q * n * UCU_SCALE <= standard(ucu_count) * UCU_SCALE
    <3> HIDE DEF n
    <3> QED BY <2>2, <2>5, <1>3, ProductMonotone
  <2>7. standard(ucu_count) * UCU_SCALE
          = (whole_ucu(ucu_count) * UCU_SCALE) * e_baseline * t_std * MICRO_Q_SCALE
    BY <2>1, <2>2, ScaleFirst DEF standard
  <2>8. (whole_ucu(ucu_count) * UCU_SCALE) * e_baseline * t_std * MICRO_Q_SCALE
          <= work * e_baseline * t_std * MICRO_Q_SCALE
    <3> HIDE DEF work
    <3> QED BY <2>1, <2>2, <2>3, <2>4, WorkMonotone
  <2>9. standard(ucu_count) * UCU_SCALE <= work * e_baseline * t_std * MICRO_Q_SCALE
    BY <2>7, <2>8
  <2>10. /\ q * n * UCU_SCALE \in Nat /\ standard(ucu_count) * UCU_SCALE \in Nat
         /\ work * e_baseline * t_std * MICRO_Q_SCALE \in Nat
    <3> HIDE DEF n, work
    <3>1. work * e_baseline \in Nat
      BY <2>2, <2>3
    <3>2. work * e_baseline * t_std \in Nat
      BY <2>2, <3>1
    <3> QED BY <1>3, <2>2, <2>5, <3>2
  <2> HIDE DEF n, work
  <2> QED BY <2>6, <2>9, <2>10
<1>6. ASSUME std < U128, fits(seal) PROVE std < (q + 1) * n
  <2> HIDE DEF k, n, std
  <2> QED BY <1>2, <1>3, <1>4, <1>6
<1> QED BY <1>5, <1>6

(***************************************************************************)
(* What a seal records bounds the efficiency from below whenever the code  *)
(* can multiply what it declares, although the work may wrap around and    *)
(* the cast to a word may drop bits, for every width of the words.  Beyond *)
(* that it is not so: see WrappedSealOverstates.                           *)
(***************************************************************************)
THEOREM RecordedIsLowerBound == Spec => []LowerBound
BY SealSound, SealBounds, PTL

(***************************************************************************)
(* The bound is rounded once, at the end: no larger one would do in micro  *)
(* units, as long as neither product wraps around and it fits the word.    *)
(***************************************************************************)
THEOREM RecordedIsTight == Spec => []TightBound
BY SealSound, SealBounds, PTL

\* Less spent, the same work: a larger quotient.
LEMMA QuotientAntitone ==
  ASSUME NEW u \in Work, NEW s \in PowerSeal, NEW r \in PowerSeal,
         plausible(s), multiplies(s), plausible(r), multiplies(r),
         spent(r) <= spent(s)
  PROVE  quotient(u, s) <= quotient(u, r)
<1> DEFINE k == quotient(u, s)
           n == spent(s)
           m == spent(r)
           std == numerator(u)
<1>1. k \in Nat /\ k * n <= std /\ std \in Nat
  BY QuotientBounds, NumeratorType
<1>2. n \in Nat /\ m \in Nat \ {0} /\ m <= n
  BY SealType
<1>3. quotient(u, r) = std \div m
  BY SealType DEF quotient
<1> HIDE DEF k, n, m, std
<1>4. k * m <= std
  <2>1. m * k \in Nat /\ n * k \in Nat /\ m * k <= n * k
    BY <1>1, <1>2, ProductMonotone
  <2> QED BY <1>1, <1>2, <2>1
<1>5. k <= std \div m
  BY <1>1, <1>2, <1>4, DivUnique
<1> QED BY <1>3, <1>5 DEF k

(***************************************************************************)
(* Declaring less never costs: of two seals attested one after the other   *)
(* for the same work, one that declares no more is recorded with no less,  *)
(* as long as the code can multiply what the looser one declares.          *)
(***************************************************************************)
THEOREM TighterSeal == Spec => TighterSealNotLess
<1> DEFINE Tighter == (/\ q # None /\ q' # None
                       /\ multiplies(seal) /\ spent(seal') <= spent(seal)
                       /\ fits(seal)') => q' >= q
<1>1. ASSUME SealInv, SealInv', [Next]_vars PROVE Tighter
  <2> SUFFICES ASSUME q # None, q' # None,
                      multiplies(seal), spent(seal') <= spent(seal), fits(seal)'
               PROVE  q' >= q
    OBVIOUS
  <2>1. ucu_count' = ucu_count
    BY <1>1 DEF Next, Attest, AuditDraw, attestor, vars
  <2>2. /\ ucu_count \in Work /\ seal \in PowerSeal /\ plausible(seal)
        /\ q = sealed_q_floor(seal, ucu_count)
    BY <1>1 DEF SealInv
  <2>3. /\ ucu_count' \in Work /\ seal' \in PowerSeal /\ plausible(seal')
        /\ q' = sealed_q_floor(seal', ucu_count')
    BY <1>1 DEF SealInv
  <2>4. multiplies(seal')
    BY <2>2, <2>3, SealType, WordType DEF multiplies
  <2>5. q \in Nat /\ q <= quotient(ucu_count, seal)
    BY <2>2, CastQuotient
  <2>6. q' = quotient(ucu_count, seal')
    BY <2>1, <2>3, <2>4, CastQuotient DEF fits
  <2>7. quotient(ucu_count, seal) <= quotient(ucu_count, seal')
    BY <2>1, <2>2, <2>3, <2>4, QuotientAntitone
  <2>8. quotient(ucu_count, seal) \in Nat /\ quotient(ucu_count, seal') \in Nat
    BY <2>1, <2>2, <2>3, <2>4, QuotientBounds
  <2> HIDE DEF quotient
  <2> QED BY <2>5, <2>6, <2>7, <2>8
<1> HIDE DEF Tighter
<1>2. SealInv /\ SealInv' /\ [Next]_vars => [Tighter]_vars
  BY <1>1
<1>3. [][Tighter]_vars => TighterSealNotLess
  BY PTL DEF Tighter, TighterSealNotLess
<1> QED BY <1>2, <1>3, SealSound, PTL DEF Spec

(***************************************************************************)
(* What becomes of a seal whose product the code cannot form: the one that *)
(* declares the largest power, window and temperature passes the gates,    *)
(* and its denominator wraps around to almost nothing.  For work that      *)
(* would cost the benchmark at least that much, but less than the seal     *)
(* declares, the code records a floor of one or more although the          *)
(* efficiency that the seal proves is below one.                           *)
(***************************************************************************)
THEOREM WrappedSealOverstates ==
  ASSUME U64 > 3, NEW s \in PowerSeal,
         s.power_cap = U64 - 1, s.window = U64 - 1, s.t_max = U64 - 1
  PROVE  /\ plausible(s) /\ ~ multiplies(s)
         /\ denom(s) = 3 * U64 - 1
         /\ \A u \in Work :
              (/\ denom(s) <= numerator(u) /\ numerator(u) < U64 * denom(s)
               /\ standard(u) < spent(s))
              => sealed_q_floor(s, u) >= 1 /\ standard(u) \div spent(s) = 0
<1> DEFINE c == U64
           r == 3 * c - 1
<1>1. c \in Nat /\ c > 3 /\ r \in Nat /\ r > 0
  BY WordType
<1>2. spent(s) = (c - 1) * (c - 1) * (c - 1)
  BY DEF spent
<1>3. (c - 1) * (c - 1) * (c - 1) = (c - 3) * (c * c) + r
  <2> HIDE DEF c
  <2>1. \A x \in Int : (x - 1) * (x - 1) * (x - 1) = (x - 3) * (x * x) + (3 * x - 1)
    OBVIOUS
  <2> QED BY <1>1, <2>1
<1>4. c * c \in Nat /\ r < c * c
  <2> HIDE DEF c
  <2>1. c * c >= 4 * c
    BY <1>1
  <2> QED BY <1>1, <2>1
<1>5. c - 3 \in Nat /\ c - 3 > 0 /\ (c - 3) * (c * c) \in Nat
      /\ (c - 3) * (c * c) >= c * c
  <2>1. c - 3 \in Nat /\ c - 3 >= 1
    BY <1>1
  <2> DEFINE e == c - 3
             w == c * c
  <2>2. e \in Nat /\ w \in Nat /\ 1 <= e
    BY <1>4, <2>1
  <2> HIDE DEF e, w
  <2>3. 1 * w <= e * w /\ e * w \in Nat
    BY <2>2, ProductMonotone
  <2> QED BY <2>1, <2>2, <2>3 DEF e, w
<1>6. ~ multiplies(s) /\ plausible(s)
  <2>1. spent(s) >= c * c
    BY <1>1, <1>2, <1>3, <1>4, <1>5
  <2>2. ~ multiplies(s)
    <3>1. c * c = U128 /\ spent(s) \in Nat
      BY SealType DEF U128
    <3> HIDE DEF c
    <3> QED BY <1>4, <2>1, <3>1 DEF multiplies
  <2>3. plausible(s)
    BY <1>1 DEF plausible
  <2> QED BY <2>2, <2>3
<1>7. denom(s) = r
  <2>1. denom(s) = ((c - 3) * (c * c) + r) % (c * c)
    BY <1>2, <1>3 DEF denom, e_consumed, spent, U128
  <2> DEFINE k == c - 3
             d == c * c
  <2>2. k \in Nat /\ d \in Nat \ {0} /\ r \in Nat /\ r < d
    BY <1>1, <1>4, <1>5
  <2>3. (k * d + r) % d = r
    <3> HIDE DEF k, d, r
    <3> QED BY <2>2, ModOfSum
  <2> QED BY <2>1, <2>3
<1>8. ASSUME NEW u \in Work, r <= numerator(u), numerator(u) < c * r,
             standard(u) < spent(s)
      PROVE  sealed_q_floor(s, u) >= 1 /\ standard(u) \div spent(s) = 0
  <2>1. numerator(u) \in Nat /\ standard(u) \in Nat
    BY NumeratorType, WorkType
  <2>2. spent(s) \in Nat
    BY SealType
  <2> DEFINE k == numerator(u) \div r
  <2>3. k \in Nat /\ k * r <= numerator(u)
    BY <1>1, <2>1, DivBounds
  <2>4. 1 <= k
    <3>1. 1 * r <= numerator(u)
      BY <1>1, <1>8
    <3> QED BY <1>1, <2>1, <3>1, DivUnique
  <2>5. sealed_q_floor(s, u) = k % c
    BY <1>1, <1>7 DEF sealed_q_floor, quotient
  <2> HIDE DEF k, r
  <2>6. k < c
    <3>1. k * r < c * r
      BY <1>1, <1>8, <2>1, <2>3
    <3>2. ASSUME k >= c PROVE FALSE
      <4>1. c * r <= k * r /\ c * r \in Nat /\ k * r \in Nat
        BY <1>1, <2>3, <3>2, ProductMonotone
      <4> QED BY <3>1, <4>1
    <3> QED BY <1>1, <2>3, <3>2
  <2>7. k % c = k
    BY <1>1, <2>3, <2>6, ModBounds
  <2>8. standard(u) \div spent(s) = 0
    <3>1. \A x, y \in Nat : x < y => x \div y = 0
      OBVIOUS
    <3> QED BY <1>8, <2>1, <2>2, <3>1
  <2> QED BY <2>4, <2>5, <2>7, <2>8
<1> QED BY <1>6, <1>7, <1>8

-----------------------------------------------------------------------------
(***************************************************************************)
(* The audit.                                                              *)
(***************************************************************************)
\* An audit is drawn exactly for the pairs under the threshold, and its
\* re-executor from the list that the auditor was started with; an attestor
\* draws none.
AuditInv ==
  /\ rate \in Rate \cup {None}
  /\ rate = None => drawn = {}
  /\ rate = None \/ eligible \in Eligible
  /\ drawn \subseteq Draw \X Draw
  /\ DOMAIN audits = {d \in drawn : is_sampled(d[1], rate)}
  /\ \A d \in DOMAIN audits :
       audits[d] = select_reexecutor(pick_word(d), eligible, Provider)

LEMMA DrawKeeps ==
  ASSUME AuditInv, AuditDraw
  PROVE  AuditInv'
<1>1. PICK d \in (Draw \X Draw) \ drawn :
        drawn' = drawn \cup {d} /\ (Pass(d) \/ Audit(d))
  BY DEF AuditDraw
<1>2. rate' = rate /\ rate # None /\ eligible' = eligible
  BY DEF AuditDraw
<1>3. drawn' \subseteq Draw \X Draw
  BY <1>1 DEF AuditInv
<1> DEFINE chosen(x) == select_reexecutor(pick_word(x), eligible, Provider)
<1>4. /\ DOMAIN audits' = {x \in drawn' : is_sampled(x[1], rate)}
      /\ \A x \in DOMAIN audits' : audits'[x] = chosen(x)
  <2> HIDE DEF chosen
  <2>1. CASE Pass(d)
    BY <1>1, <2>1 DEF Pass, AuditInv, chosen
  <2>2. CASE Audit(d)
    BY <1>1, <2>2 DEF Audit, AuditInv, chosen
  <2> QED BY <1>1, <2>1, <2>2
<1> QED BY <1>1, <1>2, <1>3, <1>4 DEF AuditInv

LEMMA AuditSound == Spec => []AuditInv
<1>1. Init => AuditInv
  BY DEF Init, AuditInv
<1>2. AuditInv /\ [Next]_vars => AuditInv'
  <2> SUFFICES ASSUME AuditInv, [Next]_vars PROVE AuditInv'
    OBVIOUS
  <2>1. CASE AuditDraw
    BY <2>1, DrawKeeps
  <2>2. CASE UNCHANGED auditor
    BY <2>2 DEF auditor, AuditInv
  <2> QED BY <2>1, <2>2 DEF Next, Attest, vars
<1> QED BY <1>1, <1>2, PTL DEF Spec

\* So many first words are under a threshold.
LEMMA SampledCount ==
  ASSUME NEW t \in Nat, NEW k \in Nat, k = IF t <= Word THEN t ELSE Word
  PROVE  Cardinality({d \in Draw \X Draw : d[1] < t}) = k * Word
<1>1. {d \in Draw \X Draw : d[1] < t} = (0..(k - 1)) \X Draw
  BY WordAssumption DEF Draw
<1>2. IsFiniteSet(0..(k - 1)) /\ Cardinality(0..(k - 1)) = k
  <2>1. 0 \in Int /\ k - 1 \in Int
    OBVIOUS
  <2>2. /\ IsFiniteSet(0..(k - 1))
        /\ Cardinality(0..(k - 1)) = IF 0 > k - 1 THEN 0 ELSE (k - 1) - 0 + 1
    BY <2>1, FS_Interval, Zenon
  <2> QED BY <2>2
<1>3. IsFiniteSet(Draw) /\ Cardinality(Draw) = Word
  BY FS_Interval, WordAssumption DEF Draw
<1>4. Cardinality((0..(k - 1)) \X Draw) = Cardinality(0..(k - 1)) * Cardinality(Draw)
  BY <1>2, <1>3, FS_Product, Zenon
<1> QED BY <1>1, <1>2, <1>3, <1>4, Zenon

LEMMA RateFromThreshold ==
  ASSUME AuditInv, all_drawn
  PROVE  /\ rate \in Nat
         /\ DOMAIN audits = {d \in Draw \X Draw : d[1] < (rate * Word) \div PPM}
<1>1. <<0, 0>> \in Draw \X Draw
  BY WordAssumption DEF Draw
<1>2. rate \in Nat
  BY <1>1, WordAssumption DEF AuditInv, all_drawn
<1> QED BY <1>2 DEF AuditInv, all_drawn, is_sampled

(***************************************************************************)
(* Over all hashes the audits come up at the declared rate, for every      *)
(* width of the word and every rate: the threshold of is_sampled errs by   *)
(* less than one value of the word, and never towards more audits.         *)
(***************************************************************************)
THEOREM AuditsAtTheRate == Spec => []AuditRate
<1>1. AuditInv => AuditRate
  <2> SUFFICES ASSUME AuditInv, all_drawn
               PROVE  LET sampled == Cardinality(DOMAIN audits)
                          whole   == Word * Word
                      IN /\ rate <= PPM => sampled * PPM <= rate * whole
                         /\ rate <= PPM => rate * whole < sampled * PPM + Word * PPM
                         /\ rate >= PPM => sampled = whole
    BY DEF AuditRate
  <2> DEFINE t == (rate * Word) \div PPM
             k == IF t <= Word THEN t ELSE Word
             p == PPM
  <2>1. rate \in Nat /\ Word \in Nat \ {0} /\ p \in Nat \ {0} /\ rate * Word \in Nat
    BY RateFromThreshold, WordAssumption DEF PPM
  <2>2. t \in Nat /\ t * p <= rate * Word /\ rate * Word < (t + 1) * p
    BY <2>1, DivBounds
  <2>3. k \in Nat /\ Cardinality(DOMAIN audits) = k * Word
    BY <2>1, <2>2, RateFromThreshold, SampledCount
  <2>4. ASSUME rate >= p PROVE k = Word
    <3>1. Word * p <= rate * Word
      <4> HIDE DEF p
      <4>1. p * Word \in Nat /\ p * Word <= rate * Word
        BY <2>1, <2>4, ProductMonotone
      <4> QED BY <2>1, <4>1
    <3>2. Word <= t
      BY <2>1, <3>1, DivUnique
    <3> HIDE DEF t
    <3> QED BY <2>1, <2>2, <3>2
  <2>5. ASSUME rate <= p PROVE k = t
    <3> HIDE DEF p
    <3>1. rate * Word <= p * Word
      BY <2>1, <2>5, ProductMonotone
    <3> HIDE DEF t
    <3>2. t * p <= Word * p
      BY <2>1, <2>2, <3>1
    <3>3. t <= Word
      BY <2>1, <2>2, <3>2
    <3> QED BY <3>3
  <2>6. /\ t * Word * p <= rate * (Word * Word)
        /\ rate * (Word * Word) < t * Word * p + Word * p
    <3> HIDE DEF t, p
    <3>1. (t * p) * Word <= (rate * Word) * Word
      BY <2>1, <2>2, ProductMonotone
    <3>2. (rate * Word) * Word < ((t + 1) * p) * Word
      BY <2>1, <2>2
    <3> QED BY <2>1, <2>2, <3>1, <3>2
  <2>7. /\ rate \in Nat /\ p = PPM /\ t * Word \in Nat /\ k * Word \in Nat
    BY <2>1, <2>2, <2>3
  <2>8. CASE rate < p
    <3> HIDE DEF t, k, p
    <3> QED BY <2>1, <2>3, <2>5, <2>6, <2>7, <2>8
  <2>9. CASE rate >= p
    <3>1. rate <= p => t = Word
      BY <2>4, <2>5, <2>9
    <3> HIDE DEF t, k, p
    <3> QED BY <2>1, <2>3, <2>4, <2>6, <2>7, <2>9, <3>1
  <2> QED BY <2>1, <2>8, <2>9
<1> QED BY <1>1, AuditSound, PTL

-----------------------------------------------------------------------------
(***************************************************************************)
(* The re-executor.                                                        *)
(***************************************************************************)
\* The recursion by which candidates filters a list, up to the place n.
IsKept(list, exclude, n, kept) ==
  kept = [i \in 0..n |->
            IF i = 0 THEN << >>
            ELSE IF list[i] = exclude THEN kept[i - 1] ELSE Append(kept[i - 1], list[i])]

\* The recursion has a solution: go on with the solution for a shorter list.
LEMMA KeptExists ==
  ASSUME NEW list, NEW exclude, NEW n \in Nat
  PROVE  \E kept : IsKept(list, exclude, n, kept)
<1> DEFINE G == {i \in 0..n : \E kept : IsKept(list, exclude, i, kept)}
<1>1. 0 \in G
  <2> DEFINE none == [i \in 0..0 |-> << >>]
  <2>1. IsKept(list, exclude, 0, none)
    BY DEF IsKept
  <2> QED BY <2>1
<1>2. ASSUME NEW i \in 0..(n - 1), i \in G PROVE i + 1 \in G
  <2>1. PICK kept : IsKept(list, exclude, i, kept)
    BY <1>2
  <2> DEFINE last == IF list[i + 1] = exclude THEN kept[i] ELSE Append(kept[i], list[i + 1])
             longer == [k \in 0..(i + 1) |-> IF k <= i THEN kept[k] ELSE last]
  <2>2. longer[i + 1] = last /\ \A k \in 0..i : longer[k] = kept[k]
    BY <1>2
  <2>3. ASSUME NEW k \in 0..(i + 1)
        PROVE  longer[k] = IF k = 0 THEN << >>
                           ELSE IF list[k] = exclude THEN longer[k - 1]
                           ELSE Append(longer[k - 1], list[k])
    <3> HIDE DEF longer
    <3>1. CASE k = i + 1
      <4>1. k # 0 /\ k - 1 = i /\ i \in 0..i
        BY <1>2, <3>1
      <4> QED BY <2>2, <3>1, <4>1
    <3>2. CASE k \in 0..i
      <4>1. kept[k] = IF k = 0 THEN << >>
                      ELSE IF list[k] = exclude THEN kept[k - 1]
                      ELSE Append(kept[k - 1], list[k])
        BY <2>1, <3>2 DEF IsKept
      <4>2. k # 0 => k - 1 \in 0..i
        BY <3>2
      <4> QED BY <2>2, <3>2, <4>1, <4>2
    <3> QED BY <1>2, <3>1, <3>2
  <2>4. IsKept(list, exclude, i + 1, longer)
    <3>1. longer = [k \in 0..(i + 1) |-> longer[k]]
      OBVIOUS
    <3> HIDE DEF longer
    <3> QED BY <2>3, <3>1 DEF IsKept
  <2>5. i + 1 \in 0..n
    BY <1>2
  <2> QED BY <2>4, <2>5
<1>3. \A i \in 0..n : i \in G
  <2> HIDE DEF G
  <2> QED BY <1>1, <1>2, UpToInduction
<1>4. n \in G
  <2> HIDE DEF G
  <2> QED BY <1>3
<1> QED BY <1>4

\* The candidates are the list without the excluded identity, in some order,
\* and no more than the list has.
LEMMA CandidatesAre ==
  ASSUME NEW S, NEW list \in Seq(S), NEW exclude
  PROVE  /\ candidates(list, exclude) \in Seq(S)
         /\ Len(candidates(list, exclude)) <= Len(list)
         /\ ToSet(candidates(list, exclude)) = ToSet(list) \ {exclude}
<1> DEFINE n == Len(list)
           kept == CHOOSE k : IsKept(list, exclude, n, k)
           upto(i) == {list[k] : k \in 1..i} \ {exclude}
           G == {i \in 0..n : kept[i] \in Seq(S) /\ Len(kept[i]) <= i /\ ToSet(kept[i]) = upto(i)}
<1>1. n \in Nat
  OBVIOUS
<1>2. IsKept(list, exclude, n, kept)
  <2> HIDE DEF n
  <2> QED BY <1>1, KeptExists
<1>3. candidates(list, exclude) = kept[n]
  BY Zenon DEF candidates, IsKept
<1>4. \A i \in 0..n :
        kept[i] = IF i = 0 THEN << >>
                  ELSE IF list[i] = exclude THEN kept[i - 1] ELSE Append(kept[i - 1], list[i])
  <2> HIDE DEF kept, n
  <2> QED BY <1>2 DEF IsKept
<1> HIDE DEF kept
<1>5. 0 \in G
  <2>1. 0 \in 0..n /\ kept[0] = << >>
    BY <1>1, <1>4
  <2>2. << >> \in Seq(S) /\ Len(<< >>) <= 0 /\ ToSet(<< >>) = {}
    BY DEF ToSet
  <2>3. upto(0) = {}
    <3>1. 1..0 = {}
      OBVIOUS
    <3> QED BY <3>1
  <2> HIDE DEF upto
  <2> QED BY <2>1, <2>2, <2>3
<1>6. ASSUME NEW i \in 0..(n - 1), i \in G PROVE i + 1 \in G
  <2>1. /\ kept[i] \in Seq(S) /\ Len(kept[i]) <= i /\ ToSet(kept[i]) = upto(i)
        /\ i + 1 \in 0..n /\ i + 1 \in 1..n /\ i + 1 # 0 /\ (i + 1) - 1 = i
    BY <1>1, <1>6
  <2>2. upto(i + 1) = IF list[i + 1] = exclude THEN upto(i) ELSE upto(i) \cup {list[i + 1]}
    <3>1. 1..(i + 1) = (1..i) \cup {i + 1}
      BY <1>6
    <3> QED BY <3>1
  <2>3. kept[i + 1] = IF list[i + 1] = exclude THEN kept[i] ELSE Append(kept[i], list[i + 1])
    BY <1>4, <2>1
  <2> HIDE DEF upto
  <2>4. CASE list[i + 1] = exclude
    <3>1. Len(kept[i]) <= i + 1
      BY <2>1
    <3> QED BY <2>1, <2>2, <2>3, <2>4, <3>1
  <2>5. CASE list[i + 1] # exclude
    <3> DEFINE s == kept[i]
               e == list[i + 1]
    <3>1. s \in Seq(S) /\ e \in S
      BY <2>1
    <3> HIDE DEF s, e
    <3>2. /\ Append(s, e) \in Seq(S) /\ Len(Append(s, e)) = Len(s) + 1
          /\ ToSet(Append(s, e)) = ToSet(s) \cup {e}
      <4>1. /\ Append(s, e) \in Seq(S) /\ Len(Append(s, e)) = Len(s) + 1
            /\ Len(s) \in Nat /\ DOMAIN s = 1..Len(s)
            /\ DOMAIN Append(s, e) = 1..(Len(s) + 1)
        BY <3>1
      <4>2. /\ \A k \in 1..Len(s) : Append(s, e)[k] = s[k]
            /\ Append(s, e)[Len(s) + 1] = e
        BY <3>1
      <4>3. 1..(Len(s) + 1) = (1..Len(s)) \cup {Len(s) + 1}
        BY <4>1
      <4> QED BY <4>1, <4>2, <4>3 DEF ToSet
    <3>3. kept[i + 1] = Append(s, e) /\ upto(i + 1) = upto(i) \cup {e}
      BY <2>2, <2>3, <2>5 DEF s, e
    <3>4. ToSet(s) = upto(i) /\ Len(s) <= i /\ Len(s) \in Nat
      BY <2>1, <3>1 DEF s
    <3>5. Len(kept[i + 1]) <= i + 1
      BY <3>2, <3>3, <3>4
    <3> QED BY <2>1, <3>2, <3>3, <3>4, <3>5
  <2> QED BY <2>4, <2>5
<1>7. n \in G
  <2>1. \A i \in 0..n : i \in G
    <3> HIDE DEF G, n
    <3> QED BY <1>1, <1>5, <1>6, UpToInduction
  <2> HIDE DEF G
  <2> QED BY <1>1, <2>1
<1>8. upto(n) = ToSet(list) \ {exclude}
  BY DEF ToSet
<1> HIDE DEF upto, n
<1> QED BY <1>3, <1>7, <1>8 DEF n

\* The re-executor that a draw names.
LEMMA Selected ==
  ASSUME NEW list \in Eligible, NEW draw \in Nat
  PROVE  LET c == candidates(list, Provider)
         IN  /\ c \in Seq(ToSet(list) \ {Provider}) /\ Len(c) \in Nat /\ Len(c) <= Len(list)
             /\ ToSet(c) = ToSet(list) \ {Provider}
             /\ c = << >> => select_reexecutor(draw, list, Provider) = None
             /\ c # << >> =>
                  /\ Len(c) > 0
                  /\ (draw % Len(c)) + 1 \in 1..Len(c)
                  /\ select_reexecutor(draw, list, Provider) = c[(draw % Len(c)) + 1]
<1> DEFINE c == candidates(list, Provider)
<1>1. list \in Seq(ToSet(list))
  BY EligibleAssumption
<1>2. c \in Seq(ToSet(list)) /\ Len(c) <= Len(list) /\ ToSet(c) = ToSet(list) \ {Provider}
  BY <1>1, CandidatesAre
<1>3. /\ c = << >> => select_reexecutor(draw, list, Provider) = None
      /\ c # << >> => select_reexecutor(draw, list, Provider) = c[(draw % Len(c)) + 1]
  BY DEF select_reexecutor
<1> HIDE DEF c
<1>4. c \in Seq(ToSet(c)) /\ Len(c) \in Nat /\ (c # << >> => Len(c) > 0)
  BY <1>2 DEF ToSet
<1>5. c # << >> => (draw % Len(c)) + 1 \in 1..Len(c)
  <2> SUFFICES ASSUME c # << >> PROVE (draw % Len(c)) + 1 \in 1..Len(c)
    OBVIOUS
  <2>1. draw % Len(c) \in Nat /\ draw % Len(c) < Len(c)
    BY <1>4, ModBounds
  <2> QED BY <1>4, <2>1
<1> QED BY <1>2, <1>3, <1>4, <1>5 DEF c

(***************************************************************************)
(* The provider is never drawn to re-execute its own task, and the draw    *)
(* falls on nobody only when the list names nobody else, for every list    *)
(* and every width of the word.                                            *)
(***************************************************************************)
THEOREM NeverItself == Spec => []AuditedByOther
<1>1. AuditInv => AuditedByOther
  <2> SUFFICES ASSUME AuditInv, NEW d \in DOMAIN audits
               PROVE  LET others == ToSet(eligible) \ {Provider}
                      IN IF others = {} THEN audits[d] = None ELSE audits[d] \in others
    BY DEF AuditedByOther
  <2> DEFINE c == candidates(eligible, Provider)
             others == ToSet(eligible) \ {Provider}
  <2>1. d \in Draw \X Draw /\ eligible \in Eligible
        /\ audits[d] = select_reexecutor(pick_word(d), eligible, Provider)
    BY DEF AuditInv
  <2>2. pick_word(d) \in Nat
    BY <2>1, WordAssumption DEF pick_word, Draw
  <2>3. /\ c \in Seq(others) /\ ToSet(c) = others
        /\ c = << >> => audits[d] = None
        /\ c # << >> => \E i \in 1..Len(c) : audits[d] = c[i]
    BY <2>1, <2>2, Selected
  <2> HIDE DEF c, others
  <2>4. c = << >> <=> others = {}
    BY <2>3 DEF ToSet
  <2>5. \A i \in 1..Len(c) : c[i] \in others
    BY <2>3
  <2>6. IF others = {} THEN audits[d] = None ELSE audits[d] \in others
    BY <2>3, <2>4, <2>5
  <2> QED BY <2>6 DEF others
<1> QED BY <1>1, AuditSound, PTL

(***************************************************************************)
(* No candidate is left out: for everyone on the list but the provider     *)
(* some hash makes the draw fall on them, as long as the list is no longer *)
(* than the word has values.                                               *)
(***************************************************************************)
THEOREM NobodyLeftOut == Spec => []AllTakePart
<1>1. AuditInv => AllTakePart
  <2> SUFFICES ASSUME AuditInv, all_drawn, NEW d0 \in DOMAIN audits,
                      Word >= Len(eligible), NEW e \in ToSet(eligible) \ {Provider}
               PROVE  e \in Range(audits)
    BY DEF AllTakePart
  <2> DEFINE c == candidates(eligible, Provider)
  <2>1. /\ drawn = Draw \X Draw /\ d0 \in Draw \X Draw /\ is_sampled(d0[1], rate)
        /\ eligible \in Eligible
    BY DEF AuditInv, all_drawn
  <2>2. eligible \in Seq(ToSet(eligible)) /\ Len(eligible) \in Nat
    BY <2>1, EligibleAssumption
  <2>3. c \in Seq(ToSet(eligible) \ {Provider}) /\ Len(c) \in Nat /\ Len(c) <= Len(eligible)
        /\ ToSet(c) = ToSet(eligible) \ {Provider}
    BY <2>1, Selected
  <2>4. PICK i \in 1..Len(c) : c[i] = e
    <3> HIDE DEF c
    <3> QED BY <2>3 DEF ToSet
  <2> DEFINE d == <<d0[1], i - 1>>
  <2>5. d \in Draw \X Draw /\ d[1] = d0[1] /\ i - 1 \in Nat /\ i - 1 < Len(c)
    <3> HIDE DEF c
    <3>1. i - 1 \in Nat /\ i - 1 < Len(c) /\ i - 1 < Word
      BY <2>2, <2>3, WordAssumption
    <3>2. i - 1 \in Draw
      BY <3>1, WordAssumption DEF Draw
    <3> QED BY <2>1, <3>1, <3>2
  <2>6. d \in DOMAIN audits
    BY <2>1, <2>5 DEF AuditInv
  <2>7. audits[d] = select_reexecutor(i - 1, eligible, Provider)
    BY <2>6 DEF AuditInv, pick_word
  <2>8. c # << >>
    <3> HIDE DEF c
    <3> QED BY <2>4
  <2>9. audits[d] = c[((i - 1) % Len(c)) + 1]
    BY <2>1, <2>5, <2>7, <2>8, Selected
  <2>10. ((i - 1) % Len(c)) + 1 = i
    <3> HIDE DEF c
    <3>1. (i - 1) % Len(c) = i - 1
      BY <2>3, <2>5, ModBounds
    <3> QED BY <3>1
  <2> QED BY <2>4, <2>6, <2>9, <2>10 DEF Range
<1> QED BY <1>1, AuditSound, PTL
=============================================================================
