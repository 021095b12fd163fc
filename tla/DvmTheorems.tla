----------------------------- MODULE DvmTheorems -----------------------------
(***************************************************************************)
(* For every benchmark, every ceiling and every guest: an execution is     *)
(* metered to no more than what the task declared (WithinCeiling), the     *)
(* re-execution of a proof yields what the provider's execution did        *)
(* (HonestProofAccepted), and an estimate is enough (EstimateSuffices).    *)
(***************************************************************************)
EXTENDS Dvm, TLAPS

\* Rounding down twice does not exceed what one started from.
LEMMA RoundTrip ==
  ASSUME NEW m \in Nat, NEW fuel \in Nat, NEW p \in Nat \ {0}, NEW s \in Nat \ {0},
         fuel <= (m * p) \div s
  PROVE  (fuel * s) \div p \in Nat /\ (fuel * s) \div p <= m
<1> DEFINE q == (m * p) \div s
           u == (fuel * s) \div p
<1>1. m * p \in Nat /\ fuel * s \in Nat
  OBVIOUS
<1>2. q \in Nat /\ q * s <= m * p
  BY <1>1
<1>3. fuel * s <= q * s
  BY <1>2
<1>4. u \in Nat /\ u * p <= fuel * s
  BY <1>1
<1>5. u * p <= m * p
  <2> HIDE DEF q, u
  <2>1. q * s \in Nat /\ u * p \in Nat
    BY <1>2, <1>4
  <2> QED
    BY <1>1, <1>2, <1>3, <1>4, <2>1
<1>6. u <= m
  <2> HIDE DEF u
  <2> QED
    BY <1>4, <1>5
<1> QED
  BY <1>4, <1>6
-----------------------------------------------------------------------------
(***************************************************************************)
(* The inductive invariant: a run in progress has no more fuel left than   *)
(* it was given, so what it consumed is between zero and its ceiling.      *)
(***************************************************************************)
Waiting == [pc : {"waiting"}]

Running == [ pc : {"instantiate", "start", "run"}, pos : Int, fuel : Int,
             memory : Int, output : Seq({"start", "run"}), fail_code : BOOLEAN ]

Finished == [ pc : {"done"},
              status : {"Ok", "InvalidModule", "Instantiation", "NoEntryPoint",
                        "OutOfFuel", "UserAbort", "Trap"},
              output : Seq({"start", "run"}), ucu_count : Nat, fail_code : BOOLEAN ]

Panicked == [pc : {"panicked"}]

Fueled(r, store) == store \in Running /\ store.fuel \in 0..ceiling(r)

Metered(r, end) ==
  end \in Finished /\ (r # Client => end.ucu_count <= task.limits.max_ucu)

Sound(r, state) == state \in Waiting \cup Panicked \/ Fueled(r, state) \/ Metered(r, state)

IInv == /\ task \in [guest : Guest, limits : Limits]
        /\ runs \in [Run -> Waiting \cup Panicked \cup Running \cup Finished]
        /\ \A r \in Run : Sound(r, runs[r])

LEMMA CeilingNat ==
  ASSUME task \in [guest : Guest, limits : Limits], NEW r \in Run
  PROVE  /\ ceiling(r) \in Nat
         /\ task.limits.max_ucu \in Nat
         /\ r # Client =>
              ceiling(r) <= (task.limits.max_ucu * fuel_per_ucu) \div UCU_SCALE
<1>1. task.limits.max_ucu \in Nat
  BY LimitsAssumption DEF LimitsType
<1> DEFINE m == task.limits.max_ucu
<1>2. m * fuel_per_ucu \in Nat
  BY <1>1, ScaleAssumption
<1>3. (m * fuel_per_ucu) \div UCU_SCALE \in Nat
  BY <1>2, ScaleAssumption
<1> QED
  BY <1>1, <1>3, CeilingAssumption DEF ceiling, ucu_to_fuel_ceiling, least

\* Whatever the status, a run with at most its fuel ends metered.
LEMMA OutcomeMetered ==
  ASSUME task \in [guest : Guest, limits : Limits], NEW r \in Run,
         NEW store, Fueled(r, store),
         NEW status \in {"Ok", "InvalidModule", "Instantiation", "NoEntryPoint",
                         "OutOfFuel", "UserAbort", "Trap"}
  PROVE  Metered(r, outcome(r, store, status))
<1>1. /\ ceiling(r) \in Nat /\ task.limits.max_ucu \in Nat
      /\ r # Client =>
           ceiling(r) <= (task.limits.max_ucu * fuel_per_ucu) \div UCU_SCALE
  BY CeilingNat
<1>2. consumed(r, store) \in Nat /\ consumed(r, store) <= ceiling(r)
  BY <1>1 DEF Fueled, Running, consumed
<1>3. fuel_to_ucu(consumed(r, store)) \in Nat
  <2> DEFINE c == consumed(r, store)
  <2>1. c * UCU_SCALE \in Nat
    BY <1>2, ScaleAssumption
  <2> QED
    BY <2>1, ScaleAssumption DEF fuel_to_ucu
<1>4. r # Client => fuel_to_ucu(consumed(r, store)) <= task.limits.max_ucu
  <2> SUFFICES ASSUME r # Client
               PROVE  fuel_to_ucu(consumed(r, store)) <= task.limits.max_ucu
    OBVIOUS
  <2> DEFINE c == consumed(r, store)
             m == task.limits.max_ucu
             k == ceiling(r)
             d == (m * fuel_per_ucu) \div UCU_SCALE
  <2>1. c \in Nat /\ k \in Nat /\ m \in Nat /\ c <= k /\ k <= d
    BY <1>1, <1>2
  <2>2. d \in Nat
    <3>1. m * fuel_per_ucu \in Nat
      BY <2>1, ScaleAssumption
    <3> QED
      BY <3>1, ScaleAssumption
  <2>3. c <= d
    <3> HIDE DEF c, k, d
    <3> QED
      BY <2>1, <2>2
  <2> HIDE DEF c, m
  <2>4. (c * UCU_SCALE) \div fuel_per_ucu <= m
    BY <2>1, <2>3, RoundTrip, ScaleAssumption
  <2> QED
    BY <2>4 DEF c, m, fuel_to_ucu
<1>5. store.output \in Seq({"start", "run"}) /\ << >> \in Seq({"start", "run"})
      /\ store.fail_code \in BOOLEAN
  BY DEF Fueled, Running
<1> DEFINE o == IF status = "Ok" THEN store.output ELSE << >>
           n == IF status = "OutOfFuel" /\ r # Client THEN task.limits.max_ucu
                ELSE fuel_to_ucu(consumed(r, store))
<1>6. o \in Seq({"start", "run"})
  BY <1>5
<1>7. n \in Nat /\ (r # Client => n <= task.limits.max_ucu)
  BY <1>1, <1>3, <1>4
<1>8. outcome(r, store, status) =
        [pc |-> "done", status |-> status, output |-> o, ucu_count |-> n,
         fail_code |-> store.fail_code]
  BY DEF outcome
<1> HIDE DEF o, n
<1>9. outcome(r, store, status) \in Finished
  BY <1>5, <1>6, <1>7, <1>8 DEF Finished
<1> QED
  BY <1>7, <1>8, <1>9 DEF Metered

\* A step of one run leaves the others alone.
LEMMA OneRun ==
  ASSUME IInv, NEW r \in Run, NEW state, becomes(r, state),
         Sound(r, state)
  PROVE  IInv'
<1>1. task' = task /\ runs' = [runs EXCEPT ![r] = state]
  BY DEF becomes
<1>2. state \in Waiting \cup Panicked \cup Running \cup Finished
  BY DEF Sound, Fueled, Metered
<1>3. runs' \in [Run -> Waiting \cup Panicked \cup Running \cup Finished]
  BY <1>1, <1>2 DEF IInv
<1>4. ASSUME NEW q \in Run PROVE Sound(q, runs'[q])
  <2>1. CASE q = r
    BY <2>1, <1>1 DEF IInv
  <2>2. CASE q # r
    BY <2>2, <1>1 DEF IInv
  <2> QED
    BY <2>1, <2>2
<1>5. \A q \in Run : Sound(q, runs[q])'
  BY <1>1, <1>4 DEF Sound, Fueled, Metered, ceiling, ucu_to_fuel_ceiling
<1> QED
  BY <1>1, <1>3, <1>5 DEF IInv

LEMMA InitSound == Init => IInv
<1> SUFFICES ASSUME Init PROVE IInv
  OBVIOUS
<1>1. waiting \in Waiting
  BY DEF waiting, Waiting
<1> QED
  BY <1>1 DEF Init, IInv, Sound

\* A run that is past its compilation has a store.
LEMMA InProgress ==
  ASSUME IInv, NEW r \in Run, runs[r].pc \in {"instantiate", "start", "run"}
  PROVE  /\ Fueled(r, runs[r]) /\ ceiling(r) \in Nat
         /\ task \in [guest : Guest, limits : Limits]
<1>1. task \in [guest : Guest, limits : Limits]
  BY DEF IInv
<1>2. Fueled(r, runs[r])
  BY DEF IInv, Sound, Waiting, Panicked, Metered, Finished
<1> QED
  BY <1>1, <1>2, CeilingNat

\* A store stays in shape when one of its fields is written.
LEMMA Update ==
  ASSUME NEW r, NEW store, Fueled(r, store)
  PROVE  /\ \A pc \in {"instantiate", "start", "run"} :
              Fueled(r, [store EXCEPT !.pc = pc])
         /\ \A n \in Int : Fueled(r, [store EXCEPT !.pos = n])
         /\ \A n \in 0..ceiling(r) : Fueled(r, [store EXCEPT !.fuel = n])
         /\ \A n \in Int : Fueled(r, [store EXCEPT !.memory = n])
         /\ \A seq \in Seq({"start", "run"}) : Fueled(r, [store EXCEPT !.output = seq])
         /\ \A b \in BOOLEAN : Fueled(r, [store EXCEPT !.fail_code = b])
BY DEF Fueled, Running

LEMMA StepSound == IInv /\ [Next]_vars => IInv'
<1> SUFFICES ASSUME IInv, [Next]_vars PROVE IInv'
  OBVIOUS
<1>1. CASE UNCHANGED vars
  BY <1>1 DEF vars, IInv, Sound, Fueled, Metered, ceiling, ucu_to_fuel_ceiling
<1> USE DEF burn
<1>2. ASSUME NEW r \in Run, Compile(r) PROVE IInv'
  <2>1. task \in [guest : Guest, limits : Limits]
    BY DEF IInv
  <2>2. ceiling(r) \in Nat
    BY <2>1, CeilingNat
  <2>3. Fueled(r, new_store(r))
    BY <2>2 DEF Fueled, Running, new_store, new_output
  <2>4. Metered(r, outcome(r, new_store(r), "InvalidModule"))
    BY <2>1, <2>3, OutcomeMetered
  <2> QED
    BY <1>2, <2>3, <2>4, OneRun DEF Compile, Sound
<1>3. ASSUME NEW r \in Run, Instantiate(r) PROVE IInv'
  <2>1. Fueled(r, runs[r]) /\ ceiling(r) \in Nat /\ task \in [guest : Guest, limits : Limits]
    BY <1>3, InProgress DEF Instantiate
  <2>2. task.guest.pages \in Nat
    BY <2>1, GuestAssumption DEF GuestType
  <2>3. Fueled(r, [runs[r] EXCEPT !.pc = "start", !.memory = task.guest.pages])
    <3> DEFINE store == [runs[r] EXCEPT !.pc = "start"]
    <3>1. Fueled(r, store)
      BY <2>1, Update
    <3>2. Fueled(r, [store EXCEPT !.memory = task.guest.pages])
      <4> HIDE DEF store
      <4>1. \A n \in Int : Fueled(r, [store EXCEPT !.memory = n])
        BY <3>1, Update
      <4>2. task.guest.pages \in Int
        BY <2>2
      <4> QED
        BY <4>1, <4>2
    <3> QED
      BY <3>2
  <2>4. Metered(r, outcome(r, runs[r], "Instantiation"))
    BY <2>1, OutcomeMetered
  <2> QED
    BY <1>3, <2>3, <2>4, OneRun DEF Instantiate, Sound
<1>4. ASSUME NEW r \in Run, GuestStep(r) PROVE IInv'
  <2>1. Fueled(r, runs[r]) /\ ceiling(r) \in Nat
    BY <1>4, InProgress DEF GuestStep, inside
  <2>2. runs[r].fuel > 0 /\ runs[r].pc \in {"start", "run"}
    BY <1>4 DEF GuestStep, inside
  <2> DEFINE pos    == IF next_step(r) = "spin" THEN runs[r].pos ELSE runs[r].pos + 1
             memory == IF next_step(r) = "grow" THEN runs[r].memory + 1 ELSE runs[r].memory
             output == IF next_step(r) = "write" THEN Append(runs[r].output, runs[r].pc)
                       ELSE runs[r].output
             store  == [runs[r] EXCEPT !.fuel = @ - 1, !.pos = pos, !.memory = memory,
                                       !.output = output]
  <2>3. pos \in Int /\ memory \in Int
    BY <2>1 DEF Fueled, Running
  <2>4. output \in Seq({"start", "run"})
    BY <2>1, <2>2 DEF Fueled, Running
  <2>5. becomes(r, store)
    BY <1>4 DEF GuestStep
  <2> HIDE DEF pos, memory, output
  <2>6. Fueled(r, store)
    <3> DEFINE s1 == [runs[r] EXCEPT !.fuel = runs[r].fuel - 1]
               s2 == [s1 EXCEPT !.pos = pos]
               s3 == [s2 EXCEPT !.memory = memory]
               s4 == [s3 EXCEPT !.output = output]
    <3>1. runs[r].fuel - 1 \in 0..ceiling(r)
      BY <2>1, <2>2 DEF Fueled, Running
    <3>2. Fueled(r, s1)
      BY <2>1, <3>1, Update
    <3>3. Fueled(r, s2)
      BY <2>3, <3>2, Update
    <3>4. Fueled(r, s3)
      BY <2>3, <3>3, Update
    <3>5. Fueled(r, s4)
      BY <2>4, <3>4, Update
    <3> QED
      BY <3>5
  <2> QED
    BY <2>5, <2>6, OneRun DEF Sound
<1>5. ASSUME NEW r \in Run, OutOfFuel(r) PROVE IInv'
  <2>1. Fueled(r, runs[r]) /\ ceiling(r) \in Nat /\ task \in [guest : Guest, limits : Limits]
    BY <1>5, InProgress DEF OutOfFuel, inside
  <2>2. /\ Metered(r, outcome(r, runs[r], "OutOfFuel"))
        /\ Metered(r, outcome(r, runs[r], "Instantiation"))
    BY <2>1, OutcomeMetered
  <2> QED
    BY <1>5, <2>2, OneRun DEF OutOfFuel, unwind, Sound
<1>6. ASSUME NEW r \in Run, UserAbort(r) PROVE IInv'
  <2>1. Fueled(r, runs[r]) /\ ceiling(r) \in Nat /\ task \in [guest : Guest, limits : Limits]
    BY <1>6, InProgress DEF UserAbort, inside
  <2> DEFINE store == [runs[r] EXCEPT !.fuel = @ - 1, !.fail_code = TRUE]
  <2>2. Fueled(r, store)
    <3> DEFINE burnt == [runs[r] EXCEPT !.fuel = runs[r].fuel - 1]
    <3>1. runs[r].fuel - 1 \in 0..ceiling(r)
      BY <1>6, <2>1 DEF UserAbort, Fueled, Running
    <3>2. Fueled(r, burnt)
      BY <2>1, <3>1, Update
    <3>3. Fueled(r, [burnt EXCEPT !.fail_code = TRUE])
      BY <3>2, Update
    <3> QED
      BY <3>3
  <2>3. /\ Metered(r, outcome(r, store, "UserAbort"))
        /\ Metered(r, outcome(r, store, "Instantiation"))
    BY <2>1, <2>2, OutcomeMetered
  <2> QED
    BY <1>6, <2>3, OneRun DEF UserAbort, unwind, Sound
<1>7. ASSUME NEW r \in Run, Trap(r) PROVE IInv'
  <2>1. Fueled(r, runs[r]) /\ ceiling(r) \in Nat /\ task \in [guest : Guest, limits : Limits]
    BY <1>7, InProgress DEF Trap, inside
  <2> DEFINE store == [runs[r] EXCEPT !.fuel = @ - 1]
  <2>2. Fueled(r, store)
    BY <1>7, <2>1 DEF Trap, Fueled, Running
  <2>3. /\ Metered(r, outcome(r, store, "Trap"))
        /\ Metered(r, outcome(r, store, "Instantiation"))
    BY <2>1, <2>2, OutcomeMetered
  <2> QED
    BY <1>7, <2>3, OneRun DEF Trap, unwind, Sound
<1>8. ASSUME NEW r \in Run, Panic(r) PROVE IInv'
  <2>1. [pc |-> "panicked"] \in Panicked
    BY DEF Panicked
  <2> QED
    BY <1>8, <2>1, OneRun DEF Panic, Sound
<1>9. ASSUME NEW r \in Run, CallEntry(r) PROVE IInv'
  <2>1. Fueled(r, runs[r]) /\ ceiling(r) \in Nat /\ task \in [guest : Guest, limits : Limits]
    BY <1>9, InProgress DEF CallEntry, returns
  <2>2. Fueled(r, [runs[r] EXCEPT !.pc = "run", !.pos = 1])
    <3> DEFINE store == [runs[r] EXCEPT !.pc = "run"]
    <3>1. Fueled(r, store)
      BY <2>1, Update
    <3>2. Fueled(r, [store EXCEPT !.pos = 1])
      <4> HIDE DEF store
      <4>1. \A n \in Int : Fueled(r, [store EXCEPT !.pos = n])
        BY <3>1, Update
      <4>2. 1 \in Int
        OBVIOUS
      <4> QED
        BY <4>1, <4>2
    <3> QED
      BY <3>2
  <2>3. Metered(r, outcome(r, runs[r], "NoEntryPoint"))
    BY <2>1, OutcomeMetered
  <2> QED
    BY <1>9, <2>2, <2>3, OneRun DEF CallEntry, Sound
<1>10. ASSUME NEW r \in Run, Return(r) PROVE IInv'
  <2>1. Fueled(r, runs[r]) /\ ceiling(r) \in Nat /\ task \in [guest : Guest, limits : Limits]
    BY <1>10, InProgress DEF Return, returns
  <2>2. Metered(r, outcome(r, runs[r], "Ok"))
    BY <2>1, OutcomeMetered
  <2> QED
    BY <1>10, <2>2, OneRun DEF Return, Sound
<1> QED
  BY <1>1, <1>2, <1>3, <1>4, <1>5, <1>6, <1>7, <1>8, <1>9, <1>10 DEF Next, Advance

\* However execute ends, success, abort, trap or exhaustion, it reports no more
\* work than the ceiling of the task, so that submit_proof never refuses an
\* honest proof for its ucu_count.
THEOREM MeteredWithinCeiling == Spec => []WithinCeiling
<1>1. IInv => WithinCeiling
  <2> SUFFICES ASSUME IInv, NEW r \in {Provider, Reexecutor}, done(r)
               PROVE  runs[r].ucu_count <= task.limits.max_ucu
    BY DEF WithinCeiling
  <2>1. r \in Run /\ r # Client
    BY RunAssumption DEF Run
  <2>2. Metered(r, runs[r])
    BY <2>1 DEF IInv, Sound, done, Waiting, Panicked, Fueled, Running
  <2> QED
    BY <2>1, <2>2 DEF Metered
<1> QED
  BY <1>1, InitSound, StepSound, PTL DEF Spec

-----------------------------------------------------------------------------
(***************************************************************************)
(* The same guest takes the same way in every store.  The way is a trace   *)
(* of views: a store with the fuel that is gone in place of the fuel that  *)
(* is left, so that it does not depend on the limits of the run.  A run    *)
(* follows the trace until its own limits, or the guest, stop it.          *)
(***************************************************************************)
view(r, store) == [store EXCEPT !.fuel = ceiling(r) - @]

first_view == [ pc |-> "instantiate", pos |-> 1, fuel |-> 0, memory |-> 0,
                output |-> << >>, fail_code |-> FALSE ]

program(v) == IF v.pc = "start" THEN task.guest.start ELSE task.guest.run

at_step(v) == v.pc \in {"start", "run"} /\ v.pos <= Len(program(v))

\* The guest asks for a page above the limit of the run.
refused(r, v) == program(v)[v.pos] = "grow" /\ v.memory = memory_limit(r)

\* The run goes no further than this.
stops(r, v) ==
  \/ ~ task.guest.valid
  \/ v.pc = "instantiate" /\ ~ (task.guest.links /\ task.guest.pages <= memory_limit(r))
  \/ at_step(v) /\ \/ v.fuel = ceiling(r)
                   \/ program(v)[v.pos] \in {"fail", "trap"}
                   \/ refused(r, v)
  \/ v.pc = "start" /\ ~ at_step(v) /\ ~ task.guest.entry
  \/ v.pc = "run" /\ ~ at_step(v)

\* What comes next on the trace.
follow(v) ==
  IF v.pc = "instantiate" THEN [v EXCEPT !.pc = "start", !.memory = task.guest.pages]
  ELSE IF at_step(v)
  THEN LET step == program(v)[v.pos]
       IN [v EXCEPT !.fuel   = @ + 1,
                    !.pos    = IF step = "spin" THEN @ ELSE @ + 1,
                    !.memory = IF step = "grow" THEN @ + 1 ELSE @,
                    !.output = IF step = "write" THEN Append(@, v.pc) ELSE @]
  ELSE [v EXCEPT !.pc = "run", !.pos = 1]

\* What is reported of a run that stops here.
end(r, v) ==
  LET store == view(r, v)
      unwound(kind) == IF v.pc = "start" THEN "Instantiation" ELSE kind
  IN IF ~ task.guest.valid THEN outcome(r, store, "InvalidModule")
     ELSE IF v.pc = "instantiate" THEN outcome(r, store, "Instantiation")
     ELSE IF ~ at_step(v)
     THEN outcome(r, store, IF v.pc = "start" THEN "NoEntryPoint" ELSE "Ok")
     ELSE IF v.fuel = ceiling(r) THEN outcome(r, store, unwound("OutOfFuel"))
     ELSE IF program(v)[v.pos] = "fail"
     THEN outcome(r, [store EXCEPT !.fuel = @ - 1, !.fail_code = TRUE], unwound("UserAbort"))
     ELSE outcome(r, [store EXCEPT !.fuel = @ - 1], unwound("Trap"))

IsTrace(tr, n) ==
  /\ n \in Nat /\ tr \in [0..n -> Running]
  /\ tr[0] = first_view
  /\ \A k \in 0..(n - 1) : tr[k + 1] = follow(tr[k])
  /\ \A k \in 0..n : \A l \in k..n : tr[k].fuel <= tr[l].fuel

\* The run came this far and no limit stopped it on the way.
Reached(r, tr, i) ==
  /\ \A k \in 0..(i - 1) : ~ stops(r, tr[k])
  /\ tr[i].fuel \in 0..ceiling(r)
  /\ \/ runs[r] = view(r, tr[i]) /\ task.guest.valid
     \/ runs[r] = end(r, tr[i]) /\ stops(r, tr[i])

OnTrace(tr, n) ==
  \A r \in Run : \/ runs[r] \in Waiting \cup Panicked
                 \/ \E i \in 0..n : Reached(r, tr, i)

TraceInv == \E n : \E tr : IsTrace(tr, n) /\ OnTrace(tr, n)

\* Two stores with the same fields are the same.
LEMMA SameStore ==
  ASSUME NEW s \in Running, NEW v \in Running,
         s.pc = v.pc, s.pos = v.pos, s.fuel = v.fuel, s.memory = v.memory,
         s.output = v.output, s.fail_code = v.fail_code
  PROVE  s = v
BY DEF Running

\* A view shows all of the store but its fuel.
LEMMA ViewFields ==
  ASSUME NEW r \in Run, NEW s \in Running, ceiling(r) \in Nat
  PROVE  /\ view(r, s) \in Running
         /\ view(r, s).fuel = ceiling(r) - s.fuel
         /\ view(r, s).pc = s.pc /\ view(r, s).pos = s.pos
         /\ view(r, s).memory = s.memory /\ view(r, s).output = s.output
         /\ view(r, s).fail_code = s.fail_code
BY DEF view, Running

\* The run reads the same off its store as the trace does off the view.
LEMMA Reads ==
  ASSUME IInv, NEW r \in Run, NEW v \in Running, runs[r] = view(r, v)
  PROVE  /\ inside(r) <=> at_step(v)
         /\ returns(r) <=> v.pc \in {"start", "run"} /\ ~ at_step(v)
         /\ steps(r) = program(v) /\ next_step(r) = program(v)[v.pos]
         /\ denied(r) <=> refused(r, v)
<1>1. task.guest \in GuestType /\ ceiling(r) \in Nat
  BY GuestAssumption, CeilingNat DEF IInv
<1>2. program(v) \in Seq(Step) /\ Len(program(v)) \in Nat /\ v.pos \in Int
  <2>1. task.guest.start \in Seq(Step) /\ task.guest.run \in Seq(Step)
    BY <1>1 DEF GuestType
  <2>2. program(v) \in Seq(Step)
    BY <2>1 DEF program
  <2> QED BY <2>2 DEF Running
<1>3. /\ runs[r].pc = v.pc /\ runs[r].pos = v.pos
      /\ runs[r].memory = v.memory
  BY <1>1, ViewFields
<1>4. steps(r) = program(v)
  BY <1>3 DEF steps, program
<1>5. next_step(r) = program(v)[v.pos]
  BY <1>3, <1>4 DEF next_step
<1>6. inside(r) <=> at_step(v)
  BY <1>3, <1>4 DEF inside, at_step
<1>7. returns(r) <=> v.pc \in {"start", "run"} /\ ~ at_step(v)
  BY <1>2, <1>3, <1>4 DEF returns, at_step
<1>8. denied(r) <=> refused(r, v)
  BY <1>3, <1>5 DEF denied, refused
<1> QED BY <1>4, <1>5, <1>6, <1>7, <1>8

\* What follows on the trace is a view again.
LEMMA FollowType ==
  ASSUME task \in [guest : Guest, limits : Limits], NEW v \in Running
  PROVE  /\ follow(v) \in Running
         /\ follow(v).fuel = IF v.pc # "instantiate" /\ at_step(v) THEN v.fuel + 1 ELSE v.fuel
<1>1. task.guest.pages \in Int
  <2>1. task.guest \in GuestType
    BY GuestAssumption
  <2> QED BY <2>1 DEF GuestType
<1>2. CASE v.pc = "instantiate"
  <2> DEFINE pages == task.guest.pages
  <2>1. follow(v) = [v EXCEPT !.pc = "start", !.memory = pages]
    BY <1>2 DEF follow
  <2>2. pages \in Int
    BY <1>1
  <2> HIDE DEF pages
  <2>3. [v EXCEPT !.pc = "start", !.memory = pages] \in Running
    BY <2>2 DEF Running
  <2>4. follow(v).fuel = v.fuel
    BY <2>1 DEF Running
  <2> QED BY <1>2, <2>1, <2>3, <2>4
<1>3. CASE v.pc # "instantiate" /\ ~ at_step(v)
  <2> DEFINE first == 1
  <2>1. follow(v) = [v EXCEPT !.pc = "run", !.pos = first]
    BY <1>3 DEF follow
  <2>2. first \in Int
    OBVIOUS
  <2> HIDE DEF first
  <2>4. [v EXCEPT !.pc = "run", !.pos = first] \in Running
    BY <2>2 DEF Running
  <2>3. follow(v).fuel = v.fuel
    BY <2>1 DEF Running
  <2> QED BY <1>3, <2>1, <2>3, <2>4
<1>4. CASE v.pc # "instantiate" /\ at_step(v)
  <2> DEFINE step == program(v)[v.pos]
             pos == IF step = "spin" THEN v.pos ELSE v.pos + 1
             memory == IF step = "grow" THEN v.memory + 1 ELSE v.memory
             output == IF step = "write" THEN Append(v.output, v.pc) ELSE v.output
  <2>1. pos \in Int /\ memory \in Int /\ v.fuel + 1 \in Int
    BY DEF Running
  <2>2. output \in Seq({"start", "run"})
    BY <1>4 DEF Running
  <2>3. follow(v) = [v EXCEPT !.fuel = v.fuel + 1, !.pos = pos, !.memory = memory,
                              !.output = output]
    BY <1>4 DEF follow
  <2> HIDE DEF pos, memory, output
  <2>4. [v EXCEPT !.fuel = v.fuel + 1, !.pos = pos, !.memory = memory, !.output = output]
          \in Running
    BY <2>1, <2>2 DEF Running
  <2>5. follow(v).fuel = v.fuel + 1
    BY <2>3 DEF Running
  <2> QED BY <1>4, <2>3, <2>4, <2>5
<1> QED BY <1>2, <1>3, <1>4

\* What a store looks like decides what it is.
LEMMA SameView ==
  ASSUME NEW r \in Run, NEW s \in Running, NEW v \in Running, ceiling(r) \in Nat,
         s.fuel = ceiling(r) - v.fuel, s.pc = v.pc, s.pos = v.pos,
         s.memory = v.memory, s.output = v.output, s.fail_code = v.fail_code
  PROVE  s = view(r, v)
<1> DEFINE w == view(r, v)
<1>1. /\ w \in Running /\ w.fuel = ceiling(r) - v.fuel
      /\ w.pc = v.pc /\ w.pos = v.pos /\ w.memory = v.memory
      /\ w.output = v.output /\ w.fail_code = v.fail_code
  BY ViewFields
<1> HIDE DEF w
<1>2. s = w
  BY <1>1, SameStore
<1> QED BY <1>2 DEF w

\* A step of a run either goes on along the trace or ends where the run stops.
LEMMA Guides ==
  ASSUME IInv, NEW r \in Run, Advance(r), task.guest.valid,
         NEW v \in Running, v.fuel \in 0..ceiling(r), runs[r] = view(r, v)
  PROVE  \E state :
           /\ becomes(r, state)
           /\ \/ state \in Panicked
              \/ stops(r, v) /\ state = end(r, v)
              \/ ~ stops(r, v) /\ state = view(r, follow(v)) /\ follow(v).fuel <= ceiling(r)
<1> DEFINE store == runs[r]
<1>1. /\ task \in [guest : Guest, limits : Limits]
      /\ ceiling(r) \in Nat /\ v.fuel \in Int /\ store \in Running
  BY CeilingNat, ViewFields DEF IInv
<1>2. /\ store.fuel = ceiling(r) - v.fuel /\ store.pc = v.pc /\ store.pos = v.pos
      /\ store.memory = v.memory /\ store.output = v.output
      /\ store.fail_code = v.fail_code
  BY <1>1, ViewFields
<1>3. /\ inside(r) <=> at_step(v)
      /\ returns(r) <=> v.pc \in {"start", "run"} /\ ~ at_step(v)
      /\ next_step(r) = program(v)[v.pos]
      /\ denied(r) <=> refused(r, v)
  BY Reads
<1>4. inside(r) => v.pc \in {"start", "run"}
  BY <1>3 DEF at_step
<1>5. /\ follow(v) \in Running
      /\ follow(v).fuel = IF v.pc # "instantiate" /\ at_step(v) THEN v.fuel + 1 ELSE v.fuel
  BY <1>1, FollowType
<1>6. /\ view(r, follow(v)) \in Running
      /\ view(r, follow(v)).fuel = ceiling(r) - follow(v).fuel
      /\ view(r, follow(v)).pc = follow(v).pc
      /\ view(r, follow(v)).pos = follow(v).pos
      /\ view(r, follow(v)).memory = follow(v).memory
      /\ view(r, follow(v)).output = follow(v).output
      /\ view(r, follow(v)).fail_code = follow(v).fail_code
  BY <1>1, <1>5, ViewFields
<1>7. CASE Instantiate(r)
  <2>1. v.pc = "instantiate" /\ ~ at_step(v)
    BY <1>2, <1>7 DEF Instantiate, at_step
  <2>2. stops(r, v) <=> ~ (task.guest.links /\ task.guest.pages <= memory_limit(r))
    BY <2>1 DEF stops
  <2>3. CASE stops(r, v)
    <3>1. becomes(r, outcome(r, store, "Instantiation"))
      BY <1>7, <2>2, <2>3 DEF Instantiate
    <3>2. end(r, v) = outcome(r, store, "Instantiation")
      BY <2>1 DEF end
    <3> QED BY <2>3, <3>1, <3>2
  <2>4. CASE ~ stops(r, v)
    <3> DEFINE next == [store EXCEPT !.pc = "start", !.memory = task.guest.pages]
    <3>1. becomes(r, next)
      BY <1>7, <2>2, <2>4 DEF Instantiate
    <3> DEFINE pages == task.guest.pages
               moved == follow(v)
    <3>2. moved = [v EXCEPT !.pc = "start", !.memory = pages]
      BY <2>1 DEF follow
    <3>3. pages \in Int
      <4>1. task.guest \in GuestType
        BY <1>1, GuestAssumption
      <4> QED BY <4>1 DEF GuestType
    <3>4. /\ next = [store EXCEPT !.pc = "start", !.memory = pages]
          /\ moved \in Running
      BY <1>5
    <3> HIDE DEF pages, next, moved, store
    <3>5. /\ next \in Running /\ next.pc = "start" /\ next.pos = v.pos
          /\ next.fuel = ceiling(r) - v.fuel /\ next.memory = pages
          /\ next.output = v.output /\ next.fail_code = v.fail_code
      BY <1>1, <1>2, <3>3, <3>4 DEF Running
    <3>6. /\ moved.pc = "start" /\ moved.pos = v.pos /\ moved.fuel = v.fuel
          /\ moved.memory = pages /\ moved.output = v.output
          /\ moved.fail_code = v.fail_code
      BY <3>2 DEF Running
    <3>7. next = view(r, moved)
      <4>1. /\ next.pc = moved.pc /\ next.pos = moved.pos
            /\ next.fuel = ceiling(r) - moved.fuel /\ next.memory = moved.memory
            /\ next.output = moved.output /\ next.fail_code = moved.fail_code
        BY <3>5, <3>6
      <4>2. next \in Running /\ moved \in Running /\ ceiling(r) \in Nat
        BY <1>1, <3>4, <3>5
      <4> QED BY <4>1, <4>2, SameView, Zenon
    <3>8. next = view(r, follow(v))
      BY <3>7 DEF moved
    <3>9. follow(v).fuel <= ceiling(r)
      BY <1>1, <1>5, <2>1
    <3> QED BY <2>4, <3>1, <3>8, <3>9
  <2> QED BY <2>3, <2>4
<1>8. CASE GuestStep(r)
  <2> DEFINE step == program(v)[v.pos]
             pos == IF step = "spin" THEN v.pos ELSE v.pos + 1
             memory == IF step = "grow" THEN v.memory + 1 ELSE v.memory
             output == IF step = "write" THEN Append(v.output, v.pc) ELSE v.output
             next == [store EXCEPT !.fuel = @ - 1, !.pos = pos, !.memory = memory,
                                   !.output = output]
  <2>1. /\ at_step(v) /\ v.pc # "instantiate" /\ v.fuel < ceiling(r)
        /\ step \notin {"fail", "trap"} /\ ~ refused(r, v)
    BY <1>1, <1>2, <1>3, <1>4, <1>8 DEF GuestStep
  <2>2. ~ stops(r, v)
    BY <1>1, <2>1 DEF stops
  <2>3. becomes(r, next)
    BY <1>2, <1>3, <1>8 DEF GuestStep, burn
  <2>4. follow(v) = [v EXCEPT !.fuel = v.fuel + 1, !.pos = pos, !.memory = memory,
                              !.output = output]
    BY <2>1 DEF follow
  <2>5. /\ pos \in Int /\ memory \in Int /\ output \in Seq({"start", "run"})
    BY <1>1, <1>4, <2>1, <1>3 DEF Running
  <2> DEFINE left == store.fuel - 1
             gone == v.fuel + 1
             moved == follow(v)
  <2>6. left = ceiling(r) - gone /\ left \in Int /\ gone \in Int
    BY <1>1, <1>2
  <2>7. /\ next = [store EXCEPT !.fuel = left, !.pos = pos, !.memory = memory,
                               !.output = output]
        /\ moved = [v EXCEPT !.fuel = gone, !.pos = pos, !.memory = memory,
                            !.output = output]
        /\ moved \in Running
    BY <1>5, <2>4
  <2> HIDE DEF left, gone, pos, memory, output, next, moved, store
  <2>8. /\ next \in Running /\ next.pc = v.pc /\ next.pos = pos /\ next.fuel = left
        /\ next.memory = memory /\ next.output = output /\ next.fail_code = v.fail_code
    BY <1>1, <1>2, <2>5, <2>6, <2>7 DEF Running
  <2>9. /\ moved.pc = v.pc /\ moved.pos = pos /\ moved.fuel = gone
        /\ moved.memory = memory /\ moved.output = output
        /\ moved.fail_code = v.fail_code
    BY <2>7 DEF Running
  <2>10. next = view(r, moved)
    <3>1. /\ next.pc = moved.pc /\ next.pos = moved.pos
          /\ next.fuel = ceiling(r) - moved.fuel /\ next.memory = moved.memory
          /\ next.output = moved.output /\ next.fail_code = moved.fail_code
      BY <2>6, <2>8, <2>9
    <3>2. next \in Running /\ moved \in Running /\ ceiling(r) \in Nat
      BY <1>1, <2>7, <2>8
    <3> QED BY <3>1, <3>2, SameView, Zenon
  <2>11. next = view(r, follow(v))
    BY <2>10 DEF moved
  <2>12. follow(v).fuel <= ceiling(r)
    BY <1>1, <1>5, <2>1
  <2> QED BY <2>2, <2>3, <2>11, <2>12
<1>9. CASE OutOfFuel(r)
  <2>1. at_step(v) /\ v.pc \in {"start", "run"} /\ v.fuel = ceiling(r)
    BY <1>1, <1>2, <1>3, <1>4, <1>9 DEF OutOfFuel
  <2>2. stops(r, v)
    BY <2>1 DEF stops
  <2>3. becomes(r, end(r, v))
    BY <1>2, <1>9, <2>1 DEF OutOfFuel, unwind, end
  <2> QED BY <2>2, <2>3
<1>10. CASE UserAbort(r)
  <2>1. /\ at_step(v) /\ v.pc \in {"start", "run"} /\ v.fuel # ceiling(r)
        /\ program(v)[v.pos] = "fail"
    BY <1>1, <1>2, <1>3, <1>4, <1>10 DEF UserAbort
  <2>2. stops(r, v)
    BY <2>1 DEF stops
  <2>3. becomes(r, end(r, v))
    BY <1>2, <1>10, <2>1 DEF UserAbort, unwind, end, burn
  <2> QED BY <2>2, <2>3
<1>11. CASE Trap(r)
  <2>1. /\ at_step(v) /\ v.pc \in {"start", "run"} /\ v.fuel # ceiling(r)
        /\ program(v)[v.pos] # "fail"
        /\ program(v)[v.pos] = "trap" \/ refused(r, v)
    BY <1>1, <1>2, <1>3, <1>4, <1>11 DEF Trap, denied
  <2>2. stops(r, v)
    BY <2>1 DEF stops
  <2>3. becomes(r, end(r, v))
    BY <1>2, <1>11, <2>1 DEF Trap, unwind, end, burn
  <2> QED BY <2>2, <2>3
<1>12. CASE Panic(r)
  BY <1>12 DEF Panic, Panicked
<1>13. CASE CallEntry(r)
  <2>1. v.pc = "start" /\ ~ at_step(v)
    BY <1>2, <1>3, <1>13 DEF CallEntry
  <2>2. stops(r, v) <=> ~ task.guest.entry
    BY <2>1 DEF stops
  <2>3. CASE stops(r, v)
    <3>1. becomes(r, end(r, v))
      BY <1>13, <2>1, <2>2, <2>3 DEF CallEntry, end
    <3> QED BY <2>3, <3>1
  <2>4. CASE ~ stops(r, v)
    <3> DEFINE next == [store EXCEPT !.pc = "run", !.pos = 1]
    <3>1. becomes(r, next)
      BY <1>13, <2>2, <2>4 DEF CallEntry
    <3> DEFINE first == 1
               moved == follow(v)
    <3>2. moved = [v EXCEPT !.pc = "run", !.pos = first]
      BY <2>1 DEF follow
    <3>3. first \in Int
      OBVIOUS
    <3>4. /\ next = [store EXCEPT !.pc = "run", !.pos = first]
          /\ moved \in Running
      BY <1>5
    <3> HIDE DEF first, next, moved, store
    <3>5. /\ next \in Running /\ next.pc = "run" /\ next.pos = first
          /\ next.fuel = ceiling(r) - v.fuel /\ next.memory = v.memory
          /\ next.output = v.output /\ next.fail_code = v.fail_code
      BY <1>1, <1>2, <3>3, <3>4 DEF Running
    <3>6. /\ moved.pc = "run" /\ moved.pos = first /\ moved.fuel = v.fuel
          /\ moved.memory = v.memory /\ moved.output = v.output
          /\ moved.fail_code = v.fail_code
      BY <3>2 DEF Running
    <3>7. next = view(r, moved)
      <4>1. /\ next.pc = moved.pc /\ next.pos = moved.pos
            /\ next.fuel = ceiling(r) - moved.fuel /\ next.memory = moved.memory
            /\ next.output = moved.output /\ next.fail_code = moved.fail_code
        BY <3>5, <3>6
      <4>2. next \in Running /\ moved \in Running /\ ceiling(r) \in Nat
        BY <1>1, <3>4, <3>5
      <4> QED BY <4>1, <4>2, SameView, Zenon
    <3>8. next = view(r, follow(v))
      BY <3>7 DEF moved
    <3>9. follow(v).fuel <= ceiling(r)
      BY <1>1, <1>5, <2>1
    <3> QED BY <2>4, <3>1, <3>8, <3>9
  <2> QED BY <2>3, <2>4
<1>14. CASE Return(r)
  <2>1. v.pc = "run" /\ ~ at_step(v)
    BY <1>2, <1>3, <1>14 DEF Return
  <2>2. stops(r, v)
    BY <2>1 DEF stops
  <2>3. becomes(r, end(r, v))
    BY <1>14, <2>1 DEF Return, end
  <2> QED BY <2>2, <2>3
<1> QED BY <1>7, <1>8, <1>9, <1>10, <1>11, <1>12, <1>13, <1>14 DEF Advance

\* The task never changes, so what is on the trace does not either.
LEMMA TaskFixed ==
  ASSUME task' = task
  PROVE  /\ \A r : ceiling(r)' = ceiling(r) /\ memory_limit(r)' = memory_limit(r)
         /\ \A v : follow(v)' = follow(v) /\ at_step(v)' <=> at_step(v)
         /\ \A v : program(v)' = program(v)
         /\ \A r, v : view(r, v)' = view(r, v)
         /\ \A r, v : stops(r, v)' <=> stops(r, v)
         /\ \A r, v : end(r, v)' = end(r, v)
<1>1. \A r : ceiling(r)' = ceiling(r) /\ memory_limit(r)' = memory_limit(r)
  BY DEF ceiling, memory_limit, ucu_to_fuel_ceiling
<1>2. \A v : program(v)' = program(v)
  BY DEF program
<1>3. \A v : at_step(v)' <=> at_step(v)
  BY <1>2 DEF at_step
<1>4. \A v : follow(v)' = follow(v)
  BY <1>2, <1>3 DEF follow
<1>5. \A r, v : view(r, v)' = view(r, v)
  BY <1>1 DEF view
<1>6. \A r, v : refused(r, v)' <=> refused(r, v)
  BY <1>1, <1>2 DEF refused
<1>7. \A r, v : stops(r, v)' <=> stops(r, v)
  BY <1>1, <1>2, <1>3, <1>6 DEF stops
<1>8. \A r, v : end(r, v)' = end(r, v)
  BY DEF end, outcome, consumed, view, ceiling, ucu_to_fuel_ceiling, at_step, program
<1> QED BY <1>1, <1>2, <1>3, <1>4, <1>5, <1>7, <1>8

\* A run that does nothing stays where it is.
LEMMA ReachedStays ==
  ASSUME task' = task, NEW r \in Run, NEW tr, NEW i, Reached(r, tr, i),
         runs'[r] = runs[r]
  PROVE  Reached(r, tr, i)'
<1>1. /\ ceiling(r)' = ceiling(r)
      /\ view(r, tr[i])' = view(r, tr[i]) /\ end(r, tr[i])' = end(r, tr[i])
      /\ \A k : stops(r, tr[k])' <=> stops(r, tr[k])
  BY TaskFixed
<1> QED BY <1>1 DEF Reached

\* How far a run came depends on the trace only so far.
LEMMA ReachedPrefix ==
  ASSUME NEW r \in Run, NEW tr, NEW i \in Nat, Reached(r, tr, i),
         NEW longer, \A k \in 0..i : longer[k] = tr[k]
  PROVE  Reached(r, longer, i)
<1>1. longer[i] = tr[i] /\ \A k \in 0..(i - 1) : longer[k] = tr[k]
  OBVIOUS
<1> QED BY <1>1 DEF Reached

LEMMA TraceStays ==
  ASSUME task' = task, NEW tr, NEW n, IsTrace(tr, n)
  PROVE  IsTrace(tr, n)'
BY DEF IsTrace, follow, at_step, program

\* A trace goes on.
LEMMA Longer ==
  ASSUME task \in [guest : Guest, limits : Limits], NEW tr, NEW n, IsTrace(tr, n)
  PROVE  \E longer : /\ IsTrace(longer, n + 1)
                     /\ \A k \in 0..n : longer[k] = tr[k]
                     /\ longer[n + 1] = follow(tr[n])
<1> DEFINE next == follow(tr[n])
           longer == [k \in 0..(n + 1) |-> IF k <= n THEN tr[k] ELSE next]
<1>1. n \in Nat /\ tr \in [0..n -> Running] /\ tr[n] \in Running
  BY DEF IsTrace
<1>2. next \in Running /\ tr[n].fuel <= next.fuel
  <2>1. tr[n].fuel \in Int
    BY <1>1 DEF Running
  <2>2. /\ next \in Running
        /\ next.fuel = IF tr[n].pc # "instantiate" /\ at_step(tr[n]) THEN tr[n].fuel + 1
                       ELSE tr[n].fuel
    BY <1>1, FollowType
  <2> HIDE DEF next
  <2> QED BY <2>1, <2>2
<1> HIDE DEF next
<1>3. /\ \A k \in 0..n : longer[k] = tr[k]
      /\ longer[n + 1] = next
  BY <1>1
<1>4. longer \in [0..(n + 1) -> Running]
  BY <1>1, <1>2
<1> HIDE DEF longer
<1>5. longer[0] = first_view
  BY <1>1, <1>3 DEF IsTrace
<1>6. ASSUME NEW k \in 0..n PROVE longer[k + 1] = follow(longer[k])
  <2>1. CASE k = n
    BY <1>3, <2>1 DEF next
  <2>2. CASE k < n
    <3>1. k \in 0..(n - 1) /\ k + 1 \in 0..n
      BY <1>1, <2>2
    <3> QED BY <1>3, <3>1 DEF IsTrace
  <2> QED BY <1>1, <2>1, <2>2
<1>7. ASSUME NEW k \in 0..(n + 1), NEW l \in k..(n + 1)
      PROVE  longer[k].fuel <= longer[l].fuel
  <2>1. CASE l <= n
    <3>1. k \in 0..n /\ l \in k..n /\ l \in 0..n
      BY <1>1, <2>1
    <3> QED BY <1>3, <3>1 DEF IsTrace
  <2>2. CASE l = n + 1 /\ k <= n
    <3>1. k \in 0..n /\ n \in k..n /\ tr[k] \in Running
      BY <1>1, <2>2
    <3>2. tr[k].fuel <= tr[n].fuel
      BY <3>1 DEF IsTrace
    <3>3. tr[k].fuel \in Int /\ tr[n].fuel \in Int /\ next.fuel \in Int
      BY <1>1, <1>2, <3>1 DEF Running
    <3>4. tr[k].fuel <= next.fuel
      BY <1>2, <3>2, <3>3
    <3> QED BY <1>3, <2>2, <3>1, <3>4
  <2>3. CASE l = n + 1 /\ k = n + 1
    <3>1. next.fuel \in Int
      BY <1>2 DEF Running
    <3> QED BY <1>3, <2>3, <3>1
  <2> QED BY <1>1, <2>1, <2>2, <2>3
<1>8. IsTrace(longer, n + 1)
  <2>1. (n + 1) - 1 = n /\ n + 1 \in Nat
    BY <1>1
  <2> QED BY <1>4, <1>5, <1>6, <1>7, <2>1 DEF IsTrace
<1> QED BY <1>3, <1>8 DEF next

\* Wherever the moving run is, the others are found where they were.
LEMMA OthersOnTrace ==
  ASSUME NEW tr, NEW n \in Nat, OnTrace(tr, n), NEW r \in Run, NEW state,
         runs \in [Run -> Waiting \cup Panicked \cup Running \cup Finished],
         becomes(r, state),
         NEW longer, NEW m \in Nat, n <= m, \A k \in 0..n : longer[k] = tr[k],
         \/ state \in Waiting \cup Panicked
         \/ \E i \in 0..m : Reached(r, longer, i)'
  PROVE  OnTrace(longer, m)'
<1>1. /\ task' = task /\ runs'[r] = state
      /\ \A q \in Run : q # r => runs'[q] = runs[q]
  BY DEF becomes
<1>2. ASSUME NEW q \in Run, q # r, runs[q] \notin Waiting \cup Panicked
      PROVE  \E i \in 0..m : Reached(q, longer, i)'
  <2>1. PICK i \in 0..n : Reached(q, tr, i)
    BY <1>2 DEF OnTrace
  <2>2. i \in Nat /\ i \in 0..m /\ \A k \in 0..i : longer[k] = tr[k]
    BY <2>1
  <2>3. Reached(q, longer, i)
    BY <2>1, <2>2, ReachedPrefix
  <2> QED BY <1>1, <1>2, <2>2, <2>3, ReachedStays
<1>3. ASSUME NEW q \in Run
      PROVE  \/ runs'[q] \in Waiting \cup Panicked
             \/ \E i \in 0..m : Reached(q, longer, i)'
  BY <1>1, <1>2
<1> QED BY <1>3 DEF OnTrace, Waiting, Panicked

LEMMA InitTrace == Init => TraceInv
<1> SUFFICES ASSUME Init PROVE TraceInv
  OBVIOUS
<1> DEFINE tr == [k \in 0..0 |-> first_view]
<1>1. first_view \in Running /\ first_view.fuel <= first_view.fuel
  BY DEF first_view, Running
<1>2. IsTrace(tr, 0)
  BY <1>1 DEF IsTrace
<1>3. OnTrace(tr, 0)
  BY DEF Init, OnTrace, waiting, Waiting
<1> QED BY <1>2, <1>3 DEF TraceInv

LEMMA StepTrace == IInv /\ TraceInv /\ [Next]_vars => TraceInv'
<1> SUFFICES ASSUME IInv, TraceInv, [Next]_vars PROVE TraceInv'
  OBVIOUS
<1>1. PICK n, tr : IsTrace(tr, n) /\ OnTrace(tr, n)
  BY DEF TraceInv
<1>2. /\ n \in Nat /\ tr \in [0..n -> Running]
      /\ task \in [guest : Guest, limits : Limits]
      /\ runs \in [Run -> Waiting \cup Panicked \cup Running \cup Finished]
  BY <1>1 DEF IsTrace, IInv
<1>3. CASE UNCHANGED vars
  <2>1. task' = task /\ runs' = runs
    BY <1>3 DEF vars
  <2>2. IsTrace(tr, n)'
    BY <1>1, <2>1, TraceStays
  <2>3. OnTrace(tr, n)'
    <3>1. ASSUME NEW q \in Run
          PROVE  \/ runs'[q] \in Waiting \cup Panicked
                 \/ \E i \in 0..n : Reached(q, tr, i)'
      <4>1. CASE runs[q] \in Waiting \cup Panicked
        BY <2>1, <4>1
      <4>2. CASE \E i \in 0..n : Reached(q, tr, i)
        BY <2>1, <4>2, ReachedStays
      <4> QED BY <1>1, <4>1, <4>2 DEF OnTrace
    <3> QED BY <3>1 DEF OnTrace, Waiting, Panicked
  <2> QED BY <2>2, <2>3 DEF TraceInv
<1>4. ASSUME NEW r \in Run, Compile(r) PROVE TraceInv'
  <2> DEFINE state == IF task.guest.valid THEN new_store(r)
                      ELSE outcome(r, new_store(r), "InvalidModule")
  <2>1. becomes(r, state)
    BY <1>4 DEF Compile
  <2>2. task' = task /\ runs'[r] = state
    BY <1>2, <2>1 DEF becomes
  <2>3. tr[0] = first_view /\ 0 \in 0..n
    BY <1>1, <1>2 DEF IsTrace
  <2>4. ceiling(r) \in Nat
    BY <1>2, CeilingNat
  <2>5. view(r, first_view) = new_store(r)
    <3>1. view(r, first_view) = [first_view EXCEPT !.fuel = ceiling(r) - 0]
      BY DEF view, first_view
    <3>2. ceiling(r) - 0 = ceiling(r)
      BY <2>4
    <3> QED BY <3>1, <3>2 DEF first_view, new_store, new_output
  <2>6. \/ state = view(r, tr[0]) /\ task.guest.valid
        \/ state = end(r, tr[0]) /\ stops(r, tr[0])
    BY <2>3, <2>5 DEF end, stops
  <2>7. /\ ceiling(r)' = ceiling(r) /\ view(r, tr[0])' = view(r, tr[0])
        /\ end(r, tr[0])' = end(r, tr[0]) /\ stops(r, tr[0])' <=> stops(r, tr[0])
    BY <2>2, TaskFixed
  <2>8. tr[0].fuel \in 0..ceiling(r)
    BY <2>3, <2>4 DEF first_view
  <2> HIDE DEF state
  <2>9. Reached(r, tr, 0)'
    BY <2>2, <2>6, <2>7, <2>8 DEF Reached
  <2>10. OnTrace(tr, n)'
    BY <1>1, <1>2, <2>1, <2>3, <2>9, OthersOnTrace
  <2> QED BY <1>1, <2>2, <2>10, TraceStays DEF TraceInv
<1>5. ASSUME NEW r \in Run, Advance(r) PROVE TraceInv'
  <2>1. runs[r].pc \in {"instantiate", "start", "run"}
    BY <1>5 DEF Advance, Instantiate, GuestStep, OutOfFuel, UserAbort, Trap, Panic,
                CallEntry, Return, inside, returns
  <2>2. PICK i \in 0..n : Reached(r, tr, i)
    BY <1>1, <2>1 DEF OnTrace, Waiting, Panicked
  <2>3. /\ i \in Nat /\ tr[i] \in Running /\ tr[i].fuel \in 0..ceiling(r)
        /\ \A k \in 0..(i - 1) : ~ stops(r, tr[k])
    BY <1>2, <2>2 DEF Reached
  <2>4. runs[r] = view(r, tr[i]) /\ task.guest.valid
    <3>1. end(r, tr[i]).pc = "done"
      BY DEF end, outcome
    <3> QED BY <2>1, <2>2, <3>1 DEF Reached
  <2>5. PICK state :
          /\ becomes(r, state)
          /\ \/ state \in Panicked
             \/ stops(r, tr[i]) /\ state = end(r, tr[i])
             \/ /\ ~ stops(r, tr[i]) /\ state = view(r, follow(tr[i]))
                /\ follow(tr[i]).fuel <= ceiling(r)
    BY <1>5, <2>3, <2>4, Guides
  <2>6. task' = task /\ runs'[r] = state
    BY <1>2, <2>5 DEF becomes
  <2>7. /\ ceiling(r)' = ceiling(r)
        /\ \A v : view(r, v)' = view(r, v) /\ end(r, v)' = end(r, v)
        /\ \A v : stops(r, v)' <=> stops(r, v)
    BY <2>6, TaskFixed
  <2>8. CASE state \in Panicked
    <3>1. OnTrace(tr, n)'
      BY <1>1, <1>2, <2>5, <2>8, OthersOnTrace
    <3> QED BY <1>1, <2>6, <3>1, TraceStays DEF TraceInv
  <2>9. CASE stops(r, tr[i]) /\ state = end(r, tr[i])
    <3>1. Reached(r, tr, i)'
      BY <2>3, <2>6, <2>7, <2>9 DEF Reached
    <3>2. OnTrace(tr, n)'
      BY <1>1, <1>2, <2>5, <3>1, OthersOnTrace
    <3> QED BY <1>1, <2>6, <3>2, TraceStays DEF TraceInv
  <2>10. CASE /\ ~ stops(r, tr[i]) /\ state = view(r, follow(tr[i]))
              /\ follow(tr[i]).fuel <= ceiling(r)
    <3>1. \E m, longer : /\ IsTrace(longer, m) /\ n <= m /\ i + 1 \in 0..m
                         /\ \A k \in 0..n : longer[k] = tr[k]
                         /\ longer[i + 1] = follow(tr[i])
      <4>1. CASE i = n
        <5>1. PICK longer : /\ IsTrace(longer, n + 1)
                            /\ \A k \in 0..n : longer[k] = tr[k]
                            /\ longer[n + 1] = follow(tr[n])
          BY <1>1, <1>2, Longer
        <5>2. n <= n + 1 /\ n + 1 \in 0..(n + 1)
          BY <1>2
        <5> QED BY <4>1, <5>1, <5>2
      <4>2. CASE i # n
        <5>1. i \in 0..(n - 1) /\ i + 1 \in 0..n /\ n <= n
          BY <1>2, <2>3, <4>2
        <5>2. tr[i + 1] = follow(tr[i])
          BY <1>1, <5>1 DEF IsTrace
        <5> QED BY <1>1, <5>1, <5>2
      <4> QED BY <4>1, <4>2
    <3>2. PICK m, longer : /\ IsTrace(longer, m) /\ n <= m /\ i + 1 \in 0..m
                           /\ \A k \in 0..n : longer[k] = tr[k]
                           /\ longer[i + 1] = follow(tr[i])
      BY <3>1
    <3>3. m \in Nat
      BY <3>2 DEF IsTrace
    <3>4. ASSUME NEW k \in 0..((i + 1) - 1) PROVE ~ stops(r, longer[k])
      <4>1. k \in 0..n /\ (k = i \/ k \in 0..(i - 1))
        BY <1>2, <2>3, <3>4
      <4>2. longer[k] = tr[k]
        BY <3>2, <4>1
      <4> QED BY <2>3, <2>10, <4>1, <4>2
    <3>5. longer[i + 1].fuel \in 0..ceiling(r)
      <4>1. follow(tr[i]) \in Running /\ follow(tr[i]).fuel \in {tr[i].fuel, tr[i].fuel + 1}
        BY <1>2, <2>3, FollowType
      <4>2. follow(tr[i]).fuel \in Nat
        BY <2>3, <4>1
      <4>3. ceiling(r) \in Nat
        BY <1>2, CeilingNat
      <4> QED BY <2>10, <3>2, <4>2, <4>3
    <3>6. Reached(r, longer, i + 1)'
      <4>1. state = view(r, longer[i + 1])
        BY <2>10, <3>2
      <4> QED BY <2>4, <2>6, <2>7, <3>4, <3>5, <4>1 DEF Reached
    <3>7. OnTrace(longer, m)'
      BY <1>1, <1>2, <2>5, <3>2, <3>3, <3>6, OthersOnTrace
    <3> QED BY <2>6, <3>2, <3>7, TraceStays DEF TraceInv
  <2> QED BY <2>5, <2>8, <2>9, <2>10
<1> QED BY <1>3, <1>4, <1>5 DEF Next

\* A run that is done stopped at the first point of the trace where it had to.
LEMMA DoneOnTrace ==
  ASSUME NEW tr, NEW n, IsTrace(tr, n), OnTrace(tr, n), NEW r \in Run, done(r),
         task \in [guest : Guest, limits : Limits]
  PROVE  \E i \in 0..n :
           /\ runs[r] = end(r, tr[i]) /\ stops(r, tr[i])
           /\ tr[i].fuel \in 0..ceiling(r)
           /\ \A k \in 0..(i - 1) : ~ stops(r, tr[k])
<1>1. PICK i \in 0..n : Reached(r, tr, i)
  BY DEF OnTrace, done, Waiting, Panicked
<1>2. tr[i] \in Running /\ ceiling(r) \in Nat
  BY <1>1, CeilingNat DEF IsTrace
<1>3. view(r, tr[i]).pc # "done"
  <2>1. view(r, tr[i]).pc = tr[i].pc
    BY <1>2, ViewFields
  <2> QED BY <1>2, <2>1 DEF Running
<1> QED BY <1>1, <1>3 DEF Reached, done

LEMMA TraceSound == Spec => [](IInv /\ TraceInv)
BY InitSound, StepSound, InitTrace, StepTrace, PTL DEF Spec

(***************************************************************************)
(* Re-execution accepts what an honest provider reports, whatever the      *)
(* guest does: the provider and the re-executor have the same limits, so   *)
(* they stop at the same point of the trace.                               *)
(***************************************************************************)
THEOREM HonestProofPasses == Spec => []HonestProofAccepted
<1>1. IInv /\ TraceInv => HonestProofAccepted
  <2> SUFFICES ASSUME IInv, TraceInv, done(Provider), done(Reexecutor)
               PROVE  runs[Provider] = runs[Reexecutor]
    BY DEF HonestProofAccepted
  <2>1. PICK n, tr : IsTrace(tr, n) /\ OnTrace(tr, n)
    BY DEF TraceInv
  <2>2. /\ Provider \in Run /\ Reexecutor \in Run
        /\ Provider # Client /\ Reexecutor # Client
        /\ n \in Nat /\ task \in [guest : Guest, limits : Limits]
    BY <2>1, RunAssumption DEF Run, IsTrace, IInv
  <2>3. PICK i \in 0..n :
          /\ runs[Provider] = end(Provider, tr[i]) /\ stops(Provider, tr[i])
          /\ \A k \in 0..(i - 1) : ~ stops(Provider, tr[k])
    BY <2>1, <2>2, DoneOnTrace
  <2>4. PICK j \in 0..n :
          /\ runs[Reexecutor] = end(Reexecutor, tr[j]) /\ stops(Reexecutor, tr[j])
          /\ \A k \in 0..(j - 1) : ~ stops(Reexecutor, tr[k])
    BY <2>1, <2>2, DoneOnTrace
  <2>5. \A v : stops(Provider, v) <=> stops(Reexecutor, v)
    BY <2>2 DEF stops, refused, ceiling, memory_limit
  <2>6. i = j
    <3>1. i < j => i \in 0..(j - 1)
      BY <2>2
    <3>2. j < i => j \in 0..(i - 1)
      BY <2>2
    <3> QED BY <2>2, <2>3, <2>4, <2>5, <3>1, <3>2
  <2>7. \A v : end(Provider, v) = end(Reexecutor, v)
    BY <2>2 DEF end, outcome, consumed, view, ceiling
  <2> QED BY <2>3, <2>4, <2>6, <2>7
<1> QED BY <1>1, TraceSound, PTL

\* Only a run that returned from its entry point ends well, and it reports what
\* it consumed.
LEMMA EndsWell ==
  ASSUME NEW r \in Run, NEW v \in Running, ceiling(r) \in Nat
  PROVE  /\ end(r, v).status = "Ok" =>
              task.guest.valid /\ v.pc = "run" /\ ~ at_step(v)
         /\ task.guest.valid /\ v.pc = "run" /\ ~ at_step(v) =>
              /\ end(r, v).status = "Ok"
              /\ end(r, v).ucu_count = fuel_to_ucu(v.fuel)
<1>1. \A store, status : /\ outcome(r, store, status).status = status
                         /\ status = "Ok" => outcome(r, store, status).ucu_count
                                               = fuel_to_ucu(consumed(r, store))
  BY DEF outcome
<1>2. consumed(r, view(r, v)) = v.fuel
  <2>1. view(r, v).fuel = ceiling(r) - v.fuel /\ v.fuel \in Int
    BY ViewFields DEF Running
  <2> QED BY <2>1 DEF consumed
<1>3. v.pc \in {"instantiate", "start", "run"}
  BY DEF Running
<1>4. ASSUME end(r, v).status = "Ok"
      PROVE  task.guest.valid /\ v.pc = "run" /\ ~ at_step(v)
  <2>1. task.guest.valid /\ v.pc # "instantiate"
    BY <1>1, <1>4 DEF end
  <2>2. ~ at_step(v)
    BY <1>1, <1>4, <2>1 DEF end
  <2>3. v.pc # "start"
    BY <1>1, <1>4, <2>1, <2>2 DEF end
  <2> QED BY <1>3, <2>1, <2>2, <2>3
<1>5. ASSUME task.guest.valid, v.pc = "run", ~ at_step(v)
      PROVE  end(r, v) = outcome(r, view(r, v), "Ok")
  BY <1>5 DEF end
<1> QED BY <1>1, <1>2, <1>4, <1>5

\* A ceiling above what an amount of fuel is worth allows that fuel.
LEMMA EstimateCovers ==
  ASSUME NEW c \in Nat, NEW m \in Nat, fuel_to_ucu(c) < m,
         c <= METER_FUEL_CEILING, METER_FUEL_CEILING <= MaxFuel
  PROVE  c <= ucu_to_fuel_ceiling(m)
<1> DEFINE p == fuel_per_ucu
           s == UCU_SCALE
           e == (c * s) \div p
           d == (m * p) \div s
<1>1. p \in Nat \ {0} /\ s \in Nat \ {0} /\ c * s \in Nat /\ m * p \in Nat
  BY ScaleAssumption
<1>2. e \in Nat /\ c * s < (e + 1) * p
  BY <1>1
<1>3. e + 1 <= m
  BY <1>2 DEF fuel_to_ucu
<1>4. d \in Nat /\ m * p < (d + 1) * s
  BY <1>1
<1>5. c <= d
  <2> HIDE DEF d, e, p, s
  <2>1. (e + 1) * p <= m * p
    BY <1>1, <1>2, <1>3
  <2>2. c * s < (d + 1) * s
    BY <1>1, <1>2, <1>4, <2>1
  <2> QED BY <1>1, <1>4, <2>2
<1>6. ucu_to_fuel_ceiling(m) = least(d, MaxFuel)
  BY DEF ucu_to_fuel_ceiling
<1> HIDE DEF d
<1> QED BY <1>4, <1>5, <1>6, CeilingAssumption DEF least

(***************************************************************************)
(* What the node estimates is enough: a task that declares more, by one    *)
(* base unit or by any amount, has the fuel that the estimate consumed, so *)
(* the provider comes as far on the trace as the client did, and returns   *)
(* where the client returned.                                              *)
(***************************************************************************)
THEOREM EstimateIsEnough == Spec => []EstimateSuffices
<1>1. IInv /\ TraceInv => EstimateSuffices
  <2> SUFFICES ASSUME IInv, TraceInv,
                      done(Client), runs[Client].status = "Ok", done(Provider),
                      task.limits.max_ucu > runs[Client].ucu_count,
                      task.limits.max_memory = DEFAULT_MAX_MEM,
                      METER_FUEL_CEILING <= MaxFuel
               PROVE  /\ runs[Provider].status = "Ok"
                      /\ runs[Provider].ucu_count = runs[Client].ucu_count
    BY DEF EstimateSuffices
  <2>1. PICK n, tr : IsTrace(tr, n) /\ OnTrace(tr, n)
    BY DEF TraceInv
  <2>2. /\ Provider \in Run /\ Client \in Run /\ Provider # Client
        /\ n \in Nat /\ tr \in [0..n -> Running]
        /\ task \in [guest : Guest, limits : Limits]
    BY <2>1, RunAssumption DEF Run, IsTrace, IInv
  <2>3. PICK i \in 0..n :
          /\ runs[Client] = end(Client, tr[i])
          /\ tr[i].fuel \in 0..ceiling(Client)
          /\ \A k \in 0..(i - 1) : ~ stops(Client, tr[k])
    BY <2>1, <2>2, DoneOnTrace
  <2>4. PICK j \in 0..n :
          /\ runs[Provider] = end(Provider, tr[j]) /\ stops(Provider, tr[j])
          /\ \A k \in 0..(j - 1) : ~ stops(Provider, tr[k])
    BY <2>1, <2>2, DoneOnTrace
  <2>5. ceiling(Client) = METER_FUEL_CEILING /\ ceiling(Client) \in Nat
        /\ ceiling(Provider) = ucu_to_fuel_ceiling(task.limits.max_ucu)
        /\ ceiling(Provider) \in Nat /\ task.limits.max_ucu \in Nat
    BY <2>2, CeilingNat DEF ceiling
  <2>6. /\ tr[i] \in Running /\ tr[j] \in Running
    BY <2>2
  <2>7. task.guest.valid /\ tr[i].pc = "run" /\ ~ at_step(tr[i])
    BY <2>2, <2>3, <2>5, <2>6, EndsWell
  <2>8. runs[Client].ucu_count = fuel_to_ucu(tr[i].fuel)
    BY <2>2, <2>3, <2>5, <2>6, <2>7, EndsWell
  <2>9. tr[i].fuel \in Nat /\ tr[i].fuel <= ceiling(Provider)
    <3>1. tr[i].fuel \in Nat /\ tr[i].fuel <= METER_FUEL_CEILING
      BY <2>3, <2>5, CeilingAssumption
    <3>2. fuel_to_ucu(tr[i].fuel) \in Nat
      <4> DEFINE c == tr[i].fuel
      <4>1. c \in Nat /\ c * UCU_SCALE \in Nat
        BY <3>1, ScaleAssumption
      <4> HIDE DEF c
      <4>2. (c * UCU_SCALE) \div fuel_per_ucu \in Nat
        BY <4>1, ScaleAssumption
      <4> QED BY <4>2 DEF c, fuel_to_ucu
    <3>3. fuel_to_ucu(tr[i].fuel) < task.limits.max_ucu
      BY <2>5, <2>8, <3>2
    <3> DEFINE c == tr[i].fuel
               m == task.limits.max_ucu
    <3> HIDE DEF c, m
    <3>4. c <= ucu_to_fuel_ceiling(m)
      BY <2>5, <3>1, <3>3, EstimateCovers DEF c, m
    <3> QED BY <2>5, <3>1, <3>4 DEF c, m
  <2>10. ~ (i < j)
    <3> SUFFICES ASSUME i < j PROVE FALSE
      OBVIOUS
    <3>1. i \in 0..(j - 1)
      BY <2>2
    <3>2. stops(Provider, tr[i])
      BY <2>7 DEF stops
    <3> QED BY <2>4, <3>1, <3>2
  <2>11. ~ (j < i)
    <3> SUFFICES ASSUME j < i PROVE FALSE
      OBVIOUS
    <3>1. j \in 0..(i - 1) /\ j \in 0..(n - 1) /\ j + 1 \in 0..n /\ i \in (j + 1)..n
      BY <2>2
    <3>2. ~ stops(Client, tr[j])
      BY <2>3, <3>1
    <3>3. \A v : refused(Client, v) <=> refused(Provider, v)
      BY <2>2 DEF refused, memory_limit
    <3>4. memory_limit(Client) = memory_limit(Provider)
      BY <2>2 DEF memory_limit
    <3>5. at_step(tr[j]) /\ tr[j].fuel = ceiling(Provider)
      BY <2>4, <3>2, <3>3, <3>4 DEF stops
    <3>6. tr[j + 1].fuel = ceiling(Provider) + 1
      <4>1. tr[j + 1] = follow(tr[j])
        BY <2>1, <3>1 DEF IsTrace
      <4>2. tr[j].pc # "instantiate"
        BY <3>5 DEF at_step
      <4> QED BY <2>2, <2>6, <3>5, <4>1, <4>2, FollowType
    <3>7. tr[j + 1].fuel <= tr[i].fuel
      BY <2>1, <3>1 DEF IsTrace
    <3> QED BY <2>5, <2>9, <3>6, <3>7
  <2>12. i = j
    BY <2>2, <2>10, <2>11
  <2>13. /\ end(Provider, tr[i]).status = "Ok"
         /\ end(Provider, tr[i]).ucu_count = fuel_to_ucu(tr[i].fuel)
    BY <2>2, <2>5, <2>6, <2>7, EndsWell
  <2> QED BY <2>4, <2>8, <2>12, <2>13
<1> QED BY <1>1, TraceSound, PTL
=============================================================================
