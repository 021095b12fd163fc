--------------------------------- MODULE Dvm ---------------------------------
(***************************************************************************)
(* The execution of a task by crates/dvm: fuel, its conversion from and to *)
(* the unit of account, and what a run reports however it ends.            *)
(*                                                                         *)
(* Three parties run the same program on the same input, each in a store   *)
(* of its own: the provider executes the task, the re-executor executes it *)
(* again once there is a proof, and a client asks for an estimate, which   *)
(* knows no limits of a task.                                              *)
(*                                                                         *)
(* The WebAssembly engine is external.  A guest is what it does to the     *)
(* engine: the steps of its start function and of its entry point, each of *)
(* which costs one unit of fuel and is not taken without.                  *)
(***************************************************************************)
EXTENDS Integers, Sequences

CONSTANTS
  Provider, Reexecutor, Client,  \* the three runs
  Guest,               \* the programs, each with its input
  Limits,              \* what a task may declare
  UCU_SCALE,           \* base units per unit of account
  fuel_per_ucu,        \* the benchmark: fuel per unit of account
  METER_FUEL_CEILING,  \* the fuel of an estimate
  DEFAULT_MAX_MEM,     \* the memory of an estimate
  MaxFuel              \* the largest word of the fuel counter

Run == {Provider, Reexecutor, Client}

Step == {"compute",  \* anything inside the sandbox
         "spin",     \* an iteration of a loop that never ends
         "write",    \* output_write of memory it has
         "stray",    \* output_write outside its memory, which does nothing
         "overread", \* input_read from beyond the end of the input
         "grow",     \* a page more, or trap
         "fail",     \* ducp.fail
         "trap"}

GuestType == [ valid : BOOLEAN,    \* Module::new accepts it
               links : BOOLEAN,    \* it imports nothing but the host functions
               pages : Nat,        \* the memory it starts with
               start : Seq(Step),  \* its start function
               entry : BOOLEAN,    \* it exports run or _start
               run   : Seq(Step) ]

LimitsType == [max_ucu : Nat, max_memory : Nat]

ASSUME RunAssumption ==
  Provider # Reexecutor /\ Provider # Client /\ Reexecutor # Client
ASSUME GuestAssumption == Guest \subseteq GuestType
ASSUME LimitsAssumption == Limits \subseteq LimitsType
ASSUME ScaleAssumption ==
  UCU_SCALE \in Nat \ {0} /\ fuel_per_ucu \in Nat \ {0}
ASSUME CeilingAssumption ==
  METER_FUEL_CEILING \in Nat /\ DEFAULT_MAX_MEM \in Nat /\ MaxFuel \in Nat

VARIABLES
  task,   \* the task: a guest and its limits
  runs    \* how far each run is

vars == <<task, runs>>

-----------------------------------------------------------------------------
(***************************************************************************)
(* The benchmark.  Both conversions round down.                            *)
(***************************************************************************)
\* Slip: divided before it is multiplied.
fuel_to_ucu_whole(fuel) == (fuel \div fuel_per_ucu) * UCU_SCALE

fuel_to_ucu(fuel) == (fuel * UCU_SCALE) \div fuel_per_ucu

least(a, b) == IF a <= b THEN a ELSE b

\* Slip: rounded up.
ucu_to_fuel_ceiling_up(max_ucu) ==
  least((max_ucu * fuel_per_ucu + UCU_SCALE - 1) \div UCU_SCALE, MaxFuel)

ucu_to_fuel_ceiling(max_ucu) ==
  least((max_ucu * fuel_per_ucu) \div UCU_SCALE, MaxFuel)

\* execute runs under the limits of the task, meter under limits of its own.
ceiling(r) ==
  IF r = Client THEN METER_FUEL_CEILING ELSE ucu_to_fuel_ceiling(task.limits.max_ucu)

memory_limit(r) ==
  IF r = Client THEN DEFAULT_MAX_MEM ELSE task.limits.max_memory

-----------------------------------------------------------------------------
waiting == [pc |-> "waiting"]

\* Slip: the output of the run before is still in the host state.
new_output_kept(r) ==
  IF r = Reexecutor THEN runs[Provider].output ELSE << >>

new_output(r) == << >>

\* A new store with its host state and all of its fuel.
new_store(r) ==
  [ pc |-> "instantiate", pos |-> 1, fuel |-> ceiling(r), memory |-> 0,
    output |-> new_output(r), fail_code |-> FALSE ]

consumed(r, store) == ceiling(r) - store.fuel

\* What execute or meter reports of a run that ended with this status.  Only a
\* run that succeeded has an output; out of fuel costs the declared ceiling.
outcome(r, store, status) ==
  [ pc        |-> "done",
    status    |-> status,
    output    |-> IF status = "Ok" THEN store.output ELSE << >>,
    ucu_count |-> IF status = "OutOfFuel" /\ r # Client
                  THEN task.limits.max_ucu
                  ELSE fuel_to_ucu(consumed(r, store)),
    fail_code |-> store.fail_code ]

becomes(r, state) == runs' = [runs EXCEPT ![r] = state] /\ UNCHANGED task

\* The call arrives, the module is compiled.  There is something to re-execute
\* once the provider has its outcome.
Compile(r) ==
  /\ runs[r].pc = "waiting"
  /\ r = Reexecutor => runs[Provider].pc = "done"
  /\ becomes(r, IF task.guest.valid THEN new_store(r)
                ELSE outcome(r, new_store(r), "InvalidModule"))

Instantiate(r) ==
  /\ runs[r].pc = "instantiate"
  /\ becomes(r, IF task.guest.links /\ task.guest.pages <= memory_limit(r)
                THEN [runs[r] EXCEPT !.pc = "start", !.memory = task.guest.pages]
                ELSE outcome(r, runs[r], "Instantiation"))

-----------------------------------------------------------------------------
(***************************************************************************)
(* The guest runs: its start function while it is instantiated, its entry  *)
(* point when that is called.                                              *)
(***************************************************************************)
steps(r) == IF runs[r].pc = "start" THEN task.guest.start ELSE task.guest.run

inside(r) == runs[r].pc \in {"start", "run"} /\ runs[r].pos <= Len(steps(r))

returns(r) == runs[r].pc \in {"start", "run"} /\ runs[r].pos > Len(steps(r))

\* The next step of a guest that has the fuel for it.
next_step(r) == steps(r)[runs[r].pos]

denied(r) == next_step(r) = "grow" /\ runs[r].memory = memory_limit(r)

\* Slip: the engine does not consume fuel.
burn_nothing(fuel) == fuel

burn(fuel) == fuel - 1

GuestStep(r) ==
  /\ inside(r) /\ runs[r].fuel > 0
  /\ next_step(r) \notin {"fail", "trap", "overread"} /\ ~ denied(r)
  /\ becomes(r, [runs[r] EXCEPT
       !.fuel   = burn(@),
       !.pos    = IF next_step(r) = "spin" THEN @ ELSE @ + 1,
       !.memory = IF next_step(r) = "grow" THEN @ + 1 ELSE @,
       !.output = IF next_step(r) = "write" THEN Append(@, runs[r].pc) ELSE @])

\* An error unwinds the guest.  While the module is being instantiated it is
\* an instantiation error, whatever it was.
unwind(r, store, kind) ==
  becomes(r, outcome(r, store, IF runs[r].pc = "start" THEN "Instantiation" ELSE kind))

OutOfFuel(r) ==
  inside(r) /\ runs[r].fuel = 0 /\ unwind(r, runs[r], "OutOfFuel")

UserAbort(r) ==
  /\ inside(r) /\ runs[r].fuel > 0 /\ next_step(r) = "fail"
  /\ unwind(r, [runs[r] EXCEPT !.fuel = burn(@), !.fail_code = TRUE], "UserAbort")

Trap(r) ==
  /\ inside(r) /\ runs[r].fuel > 0 /\ (next_step(r) = "trap" \/ denied(r))
  /\ unwind(r, [runs[r] EXCEPT !.fuel = burn(@)], "Trap")

\* The slice of the input is taken although its start is past the end: the host
\* function panics, and with it the call of execute or meter.
Panic(r) ==
  /\ inside(r) /\ runs[r].fuel > 0 /\ next_step(r) = "overread"
  /\ becomes(r, [pc |-> "panicked"])

\* The module is instantiated: look for its entry point and call it.
CallEntry(r) ==
  /\ returns(r) /\ runs[r].pc = "start"
  /\ becomes(r, IF task.guest.entry THEN [runs[r] EXCEPT !.pc = "run", !.pos = 1]
                ELSE outcome(r, runs[r], "NoEntryPoint"))

Return(r) ==
  /\ returns(r) /\ runs[r].pc = "run"
  /\ becomes(r, outcome(r, runs[r], "Ok"))

-----------------------------------------------------------------------------
Init ==
  /\ task \in [guest : Guest, limits : Limits]
  /\ runs = [r \in Run |-> waiting]

Advance(r) ==
  \/ Instantiate(r) \/ GuestStep(r) \/ OutOfFuel(r) \/ UserAbort(r) \/ Trap(r)
  \/ Panic(r) \/ CallEntry(r) \/ Return(r)

Next == \E r \in Run : Compile(r) \/ Advance(r)

\* A run that has begun goes on: the call is synchronous.
Spec == Init /\ [][Next]_vars /\ \A r \in Run : WF_vars(Advance(r))

-----------------------------------------------------------------------------
(***************************************************************************)
(* Properties.                                                             *)
(***************************************************************************)
done(r) == runs[r].pc = "done"

\* However a run ends, execute meters it to no more than the ceiling of the
\* task, although the ceiling is rounded once on the way to fuel and the fuel
\* once on the way back: submit_proof takes the proof of an honest provider.
WithinCeiling ==
  \A r \in {Provider, Reexecutor} : done(r) => runs[r].ucu_count <= task.limits.max_ucu

\* SampledReexecVerifier::check accepts the proof that a provider made of its
\* outcome, failures included.
HonestProofAccepted ==
  (done(Provider) /\ done(Reexecutor)) =>
    /\ runs[Provider].status = runs[Reexecutor].status
    /\ runs[Provider].output = runs[Reexecutor].output
    /\ runs[Provider].ucu_count = runs[Reexecutor].ucu_count

\* A task that declares a ceiling above what the node estimated for it, and the
\* memory that the node estimates with, succeeds at exactly the estimate.  A
\* ceiling of exactly the estimate is not enough: both conversions round down.
EstimateSuffices ==
  (/\ done(Client) /\ runs[Client].status = "Ok"
   /\ done(Provider)
   /\ task.limits.max_ucu > runs[Client].ucu_count
   /\ task.limits.max_memory = DEFAULT_MAX_MEM
   /\ METER_FUEL_CEILING <= MaxFuel)
  => /\ runs[Provider].status = "Ok"
     /\ runs[Provider].ucu_count = runs[Client].ucu_count

\* Every run ends, also that of a guest that loops for ever: nothing but the
\* fuel stops it.
EveryRunEnds ==
  \A r \in Run : (runs[r].pc # "waiting") ~> (runs[r].pc \in {"done", "panicked"})

\* "identical (module, input, benchmark) -> identical ExecOutcome on any host"
\* (Dvm::execute): whatever the guest does there is an outcome, a failure too.
OutcomeReported == \A r \in Run : runs[r].pc # "panicked"
=============================================================================
