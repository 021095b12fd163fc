# A TLA+ model of the DUCP node

TLA+ modules, TLC instances and TLAPS proofs for the Rust reference implementation
of the Decentralized Universal Compute Protocol (ducp-node-rs). The modules are
translated from the code under `crates/` and `ducp-node/`; `PROJECT.json` gives, for
every definition that models code, the file, the lines and the function.

Contents: [the system](#the-system), [the plan](#the-plan),
[the modules](#the-modules), [the runs](#the-runs), [fairness](#fairness),
[findings](#findings), [the proofs](#the-proofs),
[what is not modelled](#what-is-not-modelled).

## The system

A client submits a task and locks a ceiling and a fee in 𝕌; a provider claims the
task and locks a stake; it executes the task and submits a proof; the ledger settles:
it pays, refunds, mints the work issuance and accrues Standing. For some epochs after
that anybody may challenge the proof; the node re-executes the task and the ledger
either slashes the provider or burns the challenger's bond. The epoch boundary decays
Standing and releases stakes whose window is over.

| Component | State | Operations | Interacts with | What makes it correct |
|---|---|---|---|---|
| governance (`crates/governance`) | a static parameter set | amounts in parts per million, rounded down | read by every ledger operation | amounts are natural numbers; discount and decay never exceed the whole |
| ledger (`crates/ledger`) | accounts (balance, escrowed, bonded), Standing, tasks, proofs, receipts, Q entries, challenges, slashed and released sets, nonces, supply counters, epoch | `apply` (five transactions), `advance_epoch`, `resolve_challenge`, `resolve_fraud` | pure functions called by consensus and by the node | 𝕌 is conserved, escrow and bonds back what is open, the maps agree, each task settles, mints and is slashed at most once |
| consensus (`crates/consensus`) | head of the chain, epoch | `produce`, `commit`, `adopt`, `seal_block`, `advance_epoch` | applies the ledger; called by node and replicas | a block holds exactly what was applied; a replica reaches the same state |
| node (`ducp-node/src/lib.rs`) | ledger state, sequencer, mempool, blobs, blocks, block transactions behind one mutex; a `Storage` | RPC calls from server threads, `resolve_pending_challenge`, `advance_epoch`, `put_blob` | all of the above | the chain stays linked and in step with the state under any interleaving of calls; a verdict is right when it is applied |
| replica (driven by `ducp-node/tests/e2e.rs`) | a state and a sequencer | fetch block, fetch transactions, `commit`, `adopt` | node over RPC | agrees with the node at every height it reached |
| verification (`crates/verification`) | none | `SampledReexecVerifier::check`, `is_sampled`, `select_reexecutor`, `sealed_q_floor` | `check` is called by the node; the others by tests only | accepts exactly what re-execution yields; audits come at their rate and are done by others; a sealed floor is a lower bound as long as what it declares can be multiplied |
| dvm (`crates/dvm`) | a store per call: fuel, memory, host state | `execute`, `meter`, fuel and 𝕌 conversions | called by verification, the node's estimate and the worker | deterministic, metered within the ceiling, ends whatever the guest does |
| types (`crates/ducp-types`) | none | records, codec, hashes, signatures | everywhere | hashes identify what they hash; a transaction counts only with its author's signature |
| storage (trait in the node) | the last state saved | `save`, `load` | the node saves at the start and after each block; nothing loads, so a restart saves the genesis state over the last one | holds the node's state after every block |
| worker (`ducp-worker`) | nonces and totals counted locally | put, submit, claim, execute, prove, query in a loop | RPC client | counts what was settled; its nonces stay in step with the ledger |
| node binary (`ducp-node/src/main.rs`) | none | builds a node from genesis and serves until interrupted; never ends an epoch | node | each start is a new chain |
| conformance (`crates/conformance`) | per scenario a ledger, or two sequencers | runs fixed scenarios step by step and compares with golden vectors | ledger, consensus | the outcomes are the published ones |

The README of the repository also names a scheduler and a keystore in the node. The
source has neither.

**Hard behaviours.** Calls run on several threads and take the mutex per step, not per
call: `claim` reads the stake for its answer under a second lock; `challenge` commits
the challenge under one lock, gathers the inputs under a second, re-executes under
none, and applies the verdict under a third. Clients may repeat and reorder signed
transactions. One account may be requester, provider and challenger of the same task,
and one bonded amount per account backs all its stakes and bonds, so most amounts
taken at a release or a slash are clamped to what is there. System transitions
(epochs, verdicts) are sealed in blocks without transactions. The node recovers nothing
after a crash: a restart begins another chain from the same genesis, without blobs, and
the calls in progress are lost; workers and replicas may have counted on the old chain.
The worker restarts from zero, and nothing times out. Amounts pass through fuel and back
with a rounding each way, and through machine words that wrap around. `PROJECT.json` lists
each hazard at its line.

## The plan

Written so far, in this order; each module uses only those before it.

1. `Governance`, `Ledger`, `LedgerProperties`: the state machine that everything else
   calls, with `MCLedger`.
2. `Consensus`, `Node`, `NodeProperties`: signed transactions as data, blocks, the node,
   its calls and its restart, with `MCNode`. `Node` is shown to implement `Ledger!Spec`,
   the abstract specification of what the node's state may do.
3. `Replica` with `MCReplica`.
4. `LedgerRecords`, `LedgerTheorems`: the inductive invariant of the ledger.
5. `Worker` on top of `Node`, with `MCWorker`.
6. `Dvm` with `MCDvm` and the proofs of `DvmTheorems`; `Verification` with
   `MCVerification`. These stand alone: their callers see one result of a call, or a panic:
   `Outcome` in `Node`.
7. `Supply`, a specification of the 𝕌 supply alone, which the ledger implements; `Words`,
   the machine arithmetic of the one amount a client names freely. `LedgerMoney` proves
   both and the properties of the bonds, `LedgerTheorems` the others of the ledger.
8. `Conformance` on top of `Consensus`, with `MCConformance`.
9. `NodeTheorems`: that the node implements the ledger, its own invariants, and that a
   replica agrees with it.
10. `VerificationTheorems` and the rest of `DvmTheorems`: every invariant of the two
    components that stand alone.
11. `WorkerTheorems`: what the load driver counts, on top of the proofs about the node.
12. `ConformanceTheorems`: the outcome of every scenario, for any work and any scale.

## The modules

**`Governance`.** One operator per method of `Params`. Amounts are naturals, and the
denominator of the rates, one million in the code, is the constant `PPM`: the instances
with small amounts use tenths, which keeps the products small and the rates exact.

**`Ledger`.** The state is one record, `State`, with the fields of the code's `State`;
a `BTreeMap` is a total function in which a missing account reads as zeros and a
missing record as `None`, which is how the code reads them. Each operation of the code
is a pair: `CanX(s, …)` holds where the code reaches its `Ok`, `x(s, …)` is the state
it returns. A rejected transaction changes nothing in the code (the working copy is
discarded) and is no step here. The task bodies are the constant `Body`, since a `TaskId`
is the hash of its body. `advance_epoch` in the code walks over the matured tasks and
clamps each stake; here the stakes of an account are summed and clamped once, which
frees the same amount. `Init`/`Next` let any account send any transaction, end an
epoch, resolve any pending challenge either way, and let a sampling audit prove fraud
on any settled task: the callers decide, and `Node` is one of them.

The operators whose name has a suffix (`CanClaimTask_again`, `matured_early`, …) are
the same operations with a slip, each described where it stands. No action uses them;
they show that the properties notice.

**`Supply`.** What the rest of the protocol may count on, without accounts and tasks: 𝕌
is free, locked or collected as fees; it is minted only when locked 𝕌 is paid out, at most
at the issuance rate of what leaves the lock, and destroyed only by a penalty.

**`Words`.** The guard of `submit_task` and the answer of the call as a release build
computes them, in words of `Word` values that wrap around.

**`LedgerProperties`.** `TypeOK`, `Conservation`, `EscrowBacked`, `BondsBacked`,
`RecordsAgree`, `MintedByWork`, the action properties `PenalisedOnce`, `SettlementFinal`,
`HonestChallengerMadeWhole`, `ClawbackReachesRequester` (each in terms of operators over two
states, for one account or task), the refinement `SupplySpec`, and two statements of the
repository that fail (see [findings](#findings)).

**`Consensus`.** `SignedTx` as data; `CanApply` and `apply` dispatch to `Ledger`;
`produce` folds the mempool, `commit` replays a block. Hashes are injective: a state
root is the state. A signature is known by the key that made it over the author, the
transaction and the nonce it comes with; one over anything else is `None`.

**`Node`.** The variables are the fields of `NodeInner` (`ledger`, `sequencer`, `blobs`,
`blocks`, `block_txs`), the `storage`, and for each server thread what it is doing
(`rpc`). An action is what a thread does while it holds the mutex. The mempool is
always empty when the mutex is free, so it is not a variable. `HandleTx`,
`HandleClaim` and `HandleChallenge` submit a transaction of `Mail`, a set from which
clients may send anything any number of times in any order; `AnswerClaim`, `Gather`
and `Resolve` are the later locked steps; `CallResolve` is an embedder calling
`resolve_pending_challenge` on its own; `EndEpoch` and `PutBlob` happen at any time.
Execution is the constant `Outcome`: the code relies on its being deterministic. The
outcome `None` is a guest on which the host panics (`dvm_overread`): its re-execution ends the
call (`Panic`) outside the mutex, and the challenge stays pending.
`RestartNode` ends the process and starts it again with the same allocations. It is no
part of `NodeNext`, since it begins another life of which the properties of one chain do
not speak; `Replica` and `Worker` compose it with the node's steps, which they outlive.

**`NodeProperties`.** `ChainLinked`, `NoReplay`, `ClaimAnswerTrue`,
`HonestNeverSlashed`, the action property `VerdictSound`, the refinement `LedgerSpec`
(the node implements `Ledger!Spec` under the identity mapping of `ledger`), and the
liveness property `ChallengeResolved`: a challenge whose blobs are there, and whose
re-execution has an outcome, is decided.

**`Replica`.** The node together with a replica that fetches a block and its
transactions in two calls and replays them with `commit`. The node may be restarted at
any point, also between the two calls; the chains of its earlier lives are kept in
`abandoned`, a history variable.

**`Worker`.** `Node` with processes that run the loop of `ducp-worker`. Each call of
the loop is an action that also is the node's handling of it; an error of any call ends
the process, as the `?` after it does. A restart forgets both nonces. A restart of the
node ends the workers that have a call in progress, whichever those are, and the others go
on with their counts against a new chain. The node's other clients (`Mail`), threads and
epochs go on meanwhile. `TotalSettled` says that what a worker prints was settled for it,
through all of that, with one exception that a run showed: a worker that has proved its
task, and finds the node restarted when it asks for the Q entry, takes for its own what a
rival settled on the new chain by then, since the loop looks at the entry's presence only.

**`Conformance`.** The scenarios whose outcomes are published as vectors, each a script
of transactions run on the ledger (`settlement`, `finality`, `fraud`) or through a producer
and a replica (`replication`), with the devnet parameters. The harness claims one amount
of work in each; here it may be any up to the ceiling of the task. The devnet rates are
whole thousandths and the amounts hundredths of one 𝕌, so they are written relative to the
constants `PPM` and `UCU_SCALE`, and a smaller pair of scales gives the code's amounts
in proportion. `published_receipt`, `happy_path`, `finality` and
`fraud_challenge` are the vectors.

**`Dvm`.** The provider, the re-executor and an estimate run the same guest, each in a
store of its own: `Compile`, `Instantiate`, the steps of the start function and of the
entry point, and the ends (`OutOfFuel`, `UserAbort`, `Trap`, `Panic`, `CallEntry`
without an entry point, `Return`). The engine is external: a guest is a sequence of
abstract steps of one unit of fuel each, and what the steps do to the host state, the
memory limit and the fuel is what the code reacts to. `Panic` is the slice in
`input_read` past the end of the input.

**`Verification`.** An auditor that asks `is_sampled` and `select_reexecutor` about one
task after the other, and an attestor that asks `attest` about one seal after the other
for a fixed amount of work: the three gates, `sealed_q_floor`, the cast to the word. A seal
declares words of `U64` values; what it bounds is computed in words of `U64 * U64` values,
which wrap around as in a release build (a debug build panics and attests nothing). A
hash is the pair of words drawn from it; every pair may come up, in any order, so the
statistics of the draw are exact counts. A behaviour is one of the auditor or one of the
attestor, since neither sees the other.

**`MCParams`, `MCLedger`, `MCNode`, `MCReplica`, `MCWorker`, `MCConformance`, `MCDvm`,
`MCVerification`.** The values of the constants for TLC.

**`LedgerRecords`, `LedgerTheorems`, `LedgerMoney`, `NodeTheorems`, `WorkerTheorems`,
`ConformanceTheorems`, `DvmTheorems`, `VerificationTheorems`.**
See [the proofs](#the-proofs).

## The runs

All rates are large (a fee, a stake or a bond of half of the amount or more), so that
amounts of 1 to 4 exercise every rounding and every clamp. The bounds are `MaxEpoch`
(epochs), `MaxNonce` (transactions per author, or that an author has signed),
`MaxBlocks` (the chain up to which an embedder calls `CallResolve`; without it the
chain grows for ever, since the code seals a block even when nothing is pending), and
the sets `Ucu` (amounts a transaction may name) and `Mail`.

`MaxRestarts` bounds the restarts of the node in `Replica`, `MaxWorkerRestarts` the
restarts of workers and `MaxLives` the lives of the node in `Worker`. `Word` is the number
of values of a machine
word (2^64 in `Verification`, 2^128 in `Words`), `U64` that of an amount in a seal (2^64).

`CHECK_DEADLOCK FALSE` is set in every run: with nonces and epochs used up nothing is
left to do, as on a devnet that nobody uses; a worker ends, a call returns, and an
auditor runs out of hashes.

| Run | Instance | Shows |
|---|---|---|
| `ledger_tasks` | 2 tasks, 2 accounts, 4 transactions each, epochs 0 to 3, window of 2, amounts 0 to 2, two benchmark versions, words of 64 values, symmetric in accounts and tasks | the seven invariants, the four action properties and the refinement of `LedgerProperties` and `Words`: the tasks share escrow, bonds and Standing of the same accounts, in any of the roles, coinciding or not. Four transactions are enough for one account to take part in both tasks and a challenge; the window of two leaves an epoch in which a clawback is due before the stake is released. A fee wraps around from a ceiling of 13 on, well within the words. |
| `node_calls` | 2 threads, 2 tasks, one of which makes the re-execution panic, 17 transactions, two of them badly signed, epochs 0 to 2, 1 blob, `MaxBlocks` 6 | the eight properties of `NodeProperties`. Two threads are enough to put any other call between two steps of one; the mail has honest, wrong and over-metered proofs, competing claims, repeated challenges by two accounts and a transfer that spends a challenger's nonce. |
| `replica_follow` | 1 thread, the 3 transactions of one task's life, a challenge and a transfer, epochs 0 and 1, `MaxBlocks` 3, 1 restart of the node, and a replica | `ReplicaAgrees`, `ReplaysUserBlocks`. The third account may come before, between or after the others, so the chains of the two lives differ at some heights and agree at others. |
| `worker_pair` | 2 workers with the same keys, 2 tasks, 1 restart of a worker, 2 lives of the node, 1 thread, a rival that claims and proves, and a challenge in the mail, epochs 0 to 1 | `TotalSettled`, `OneDriver`, `FailsForAReason`, `SomeWorkerFinishes`. The requester has just enough for both tasks, so a worker that strays from its nonces or submits twice cannot finish; the provider can stake for the second task only after an epoch returned the first stake. |
| `conformance_vectors` | the devnet rates in thousandths (`PPM` 1000, exact), one 𝕌 of 10^5 base units, the 4 scenarios; 20 works: the two published ones, the smallest, those around the stake, and up to the ceiling of 10 𝕌 | `PublishedVectors`, `ForgeryEarnsNothing`, `ReplicaMatches`, `ScenariosEnd`. A scenario is sequential; the instance is in the amounts. |
| `dvm_runs` | every guest of up to two steps of eight kinds, start functions of one step, modules that do not compile, link, fit or export; ceilings 0 to 10 at 7 base units per 3 fuel, memory limits on both sides of the estimate's | `WithinCeiling`, `HonestProofAccepted`, `EstimateSuffices`, `EveryRunEnds`. The two scales do not divide each other, so both roundings lose something; the fuel counter is capped at 3, so the largest ceilings meet its limit. |
| `verification_calls` | words of 3 values; lists of up to 3 identities with and without the provider, rates from 0 to above one million; words of 8 values for the seals, works on both sides of one and of two units and one whose product wraps around, seals with zeros, bounds that fit the word and bounds that do not, products that fit and products that wrap around, one of them to zero | `AuditRate`, `AuditedByOther`, `AllTakePart`, `LowerBound`, `TightBound`, `TighterSealNotLess` |
| `ledger_window`, `ledger_stranded`, `node_stuck`, `replica_system`, `dvm_overread` | | one finding each |

`PROJECT.json` pairs every property of a passing run with a mutant: a slip in one
operation under which the property fails.

## Fairness

The ledger has none. In `Node` a thread that has begun a call finishes it
(`WF` of its next locked step): a server thread is scheduled and the mutex is not
withheld for ever, since every critical section is finite. Nothing obliges a client to
call, anybody to put a blob, or an epoch to end: the node binary never ends one, so no
fairness on `EndEpoch` would be justified. The replica polls
(`WF` of fetch and replay), as the test that drives it does. A worker runs its loop
(`WF` of its next call) and may be stopped at any time, which nothing obliges; nor is
there fairness on a restart of the node. A conformance scenario is a sequential program
(`WF` of its next step). A call of
`execute` or `meter` is synchronous and goes on once it has begun (`WF` of its next
step); that it ends although the guest may loop for ever is `EveryRunEnds`.

## Findings

Each is a statement of the repository that the code does not keep, found by a run of
its own; `PROJECT.json` quotes the lines.

- `ledger_window`: a stake is released in the epoch `clawback_until`, in which a
  challenge is still accepted. A fraud proved then finds no stake to claw back.
- `ledger_stranded`: when a task's metered work is well below its ceiling, a slash takes
  less than the stake, and the rest stays bonded without a way out; a test comment says
  the stake is consumed.
- `node_stuck`: a challenge is committed before its blobs are looked for; if one is
  missing the call fails and the bond stays locked, with no retry and no second
  challenge admitted. A re-execution that panics has the same effect (`Panic`).
- `replica_system`: a replica rejects the first block that seals an epoch or a verdict,
  because there is nothing in it to replay.
- `dvm_overread`: `input_read` with an offset past the end of the input slices from
  there and panics; `execute` has no outcome.

Smaller ones are in the modules without a run of their own: `Resolve` applies a
verdict whatever epoch it is by then, also after the clawback window; `unwind` reports a
guest whose start function calls `fail` as an instantiation failure, not as an abort by
the user; and `whole_ucu` counts less than one unit of work as one, so that the floor
recorded for it may be above the efficiency (`LowerBound` states what does hold);
`sealed_q_floor` is documented as exact integer math, and multiplies three declared words
in 128 bits without a check: a seal that declares enough is recorded with more than it proves
(`WrappedSealOverstates`, on a path that nothing live calls);
`commit` compares the transactions and the root of a block but not its parent, so that
after a restart of the node a replica may go on with a block whose parent is not its head
(`ReplicaAgrees` shows that its state is still that of one chain); and
the doc of `Storage` promises that
another implementation needs no change to the node, while `with_storage` saves the genesis
state over whatever one holds.

## The proofs

TLAPS checks these for every value of the constants: every parameter set, any finite
sets of accounts and tasks, any genesis allocation and any bounds; for the node any
number of threads, any signed transactions, blobs and outcomes; any number of workers,
tasks, restarts and lives; for the conformance scenarios every scale of one 𝕌 and of the
rates, any work up to the ceiling, and any further accounts and tasks; for the dvm every
benchmark, every set of guests and every set of limits; and for verification every width
of the words, every benchmark and seal made of such words, every rate and every list. The
assumptions are those named
in `Governance`, `Ledger`, `Words`, `Node`, `Worker`, `Conformance`, `Dvm` and
`Verification`: `PPM` and `Word` are positive, the parameters have their types, discount
and decay rates are at most the whole, accounts and tasks are finite, `None` is no
record and no state; the mail consists of transactions whose nonces are below
`MaxNonce`; needs are functions of the task and so are outcomes, which may be none (the
worker's own tasks have one); what a seal and a benchmark declare fits its words; the
scales of fuel and 𝕌 are
positive and the three runs are distinct; the two keys of a worker are distinct, nobody
else has the provider's, no task is listed twice, and the bounds on nonces and amounts
leave room for what a worker sends. The last is about the model's bounds alone; the code
has none. For the scenarios, `params` is `devnet` and the task's body the one of the
harness, the three parties are distinct, `PPM` is a multiple of 1000 and `UCU_SCALE` one
of 100 and at least 10000, so that a stake covers the 21426 base units that the fraud
vector takes: the code's scales, both of 10^6 or more, are among these, while TLC's
integers are too short for them.

| Theorem | Statement | Module |
|---|---|---|
| `TypeCorrect` | `Spec => []TypeOK` | `LedgerTheorems` |
| `RecordsAgreement` | `Spec => []RecordsAgree` | `LedgerTheorems` |
| `EscrowBacking` | `Spec => []EscrowBacked` | `LedgerTheorems` |
| `SupplyConserved` | `Spec => []Conservation` | `LedgerMoney` |
| `SupplyRefined` | `Spec => SupplySpec` | `LedgerMoney` |
| `WordsAlike` | `Spec => [](SupplyFits => WordsAdmitAlike)` | `LedgerMoney` |
| `Finality` | `Spec => SettlementFinal` | `LedgerTheorems` |
| `MintsHaveReceipts` | `Spec => []MintedByWork` | `LedgerTheorems` |
| `OnePenalty` | `Spec => PenalisedOnce` | `LedgerTheorems` |
| `BondBacking` | `Spec => []BondsBacked` | `LedgerMoney` |
| `ChallengerMadeWhole` | `Spec => HonestChallengerMadeWhole` | `LedgerMoney` |
| `RequesterClawsBack` | `Spec => ClawbackReachesRequester` | `LedgerMoney` |
| `NodeImplementsLedger` | `NodeSpec => LedgerSpec` | `NodeTheorems` |
| `NodeTypeCorrect` | `NodeSpec => []NodeTypeOK` | `NodeTheorems` |
| `ChainLinks` | `NodeSpec => []ChainLinked` | `NodeTheorems` |
| `ClaimAnswers` | `NodeSpec => []ClaimAnswerTrue` | `NodeTheorems` |
| `VerdictsSound` | `NodeSpec => VerdictSound` | `NodeTheorems` |
| `HonestSafe` | `NodeSpec => []HonestNeverSlashed` | `NodeTheorems` |
| `NothingReplayed` | `NodeSpec => []NoReplay` | `NodeTheorems` |
| `ReplicaFollows` | `ReplicaSpec => []ReplicaAgrees` | `NodeTheorems` |
| `OneDrives` | `WorkerSpec => []OneDriver` | `WorkerTheorems` |
| `CountedIsSettled` | `WorkerSpec => TotalSettled` | `WorkerTheorems` |
| `VectorsPublished` | `ScenarioSpec => []PublishedVectors` | `ConformanceTheorems` |
| `ForgeryLoses` | `ScenarioSpec => []ForgeryEarnsNothing` | `ConformanceTheorems` |
| `ReplayMatches` | `ScenarioSpec => []ReplicaMatches` | `ConformanceTheorems` |
| `ScenariosRun` | `ScenarioSpec => []NothingRefused` | `ConformanceTheorems` |
| `MeteredWithinCeiling` | `Spec => []WithinCeiling` (of `Dvm`) | `DvmTheorems` |
| `HonestProofPasses` | `Spec => []HonestProofAccepted` | `DvmTheorems` |
| `EstimateIsEnough` | `Spec => []EstimateSuffices` | `DvmTheorems` |
| `RecordedIsLowerBound` | `Spec => []LowerBound` (of `Verification`) | `VerificationTheorems` |
| `RecordedIsTight` | `Spec => []TightBound` | `VerificationTheorems` |
| `TighterSeal` | `Spec => TighterSealNotLess` | `VerificationTheorems` |
| `WrappedSealOverstates` | the largest seal is recorded with more than it proves, for work in a stated range | `VerificationTheorems` |
| `AuditsAtTheRate` | `Spec => []AuditRate` | `VerificationTheorems` |
| `NeverItself` | `Spec => []AuditedByOther` | `VerificationTheorems` |
| `NobodyLeftOut` | `Spec => []AllTakePart` | `VerificationTheorems` |

These are all the properties that `ledger_tasks` and `verification_calls` check, and those
of `node_calls`, `replica_follow`, `dvm_runs`, `worker_pair` and `conformance_vectors` but
the liveness properties and `FailsForAReason`. `NothingRefused` is no property of a run: TLC
checks what follows from it, `ScenariosEnd`. By `NodeImplementsLedger`
every theorem about the ledger holds of the node too.

**The invariant.** `TypeOK` says that no unsigned amount is debited below zero, and it is
not inductive: `settle` debits the escrow without a check. That the escrow covers the debit
follows from `EscrowBacked` (the escrow of an account is the sum over its open tasks, so it
is at least one of the terms), and that the debited amount is the one that was locked
follows from `RecordsAgree` (the fee stored with the task is the fee of its ceiling).
Every release and slash needs `RecordsAgree` too: a receipt must have a task behind
it. So the three are proved together, as the inductive invariant
`Sound(s) == s \in State /\ Agree(s) /\ Backed(s)` of `LedgerTheorems`. Its three parts
are checked by TLC as `TypeOK`, `RecordsAgree` and `EscrowBacked`. Each operation has
three lemmas: it returns a state, keeps the records in agreement (both in `LedgerRecords`)
and keeps the escrow backed (`LedgerTheorems`). All later invariants add
to `Sound`.

**Sums** (`LedgerRecords`). Sums over accounts and tasks are the community modules'
`SumFunction`, defined by a fold over a finite set; the first sections prove from that
definition how such a sum moves when the function changes at one point, is a pointwise sum
or gets one more argument. Its induction over finite sets takes the induction predicate as
a set, so that no operator has to be passed.

**The supply** (`LedgerMoney`). Each operation changes the sum of what is held by what it
mints or burns, which gives `Conservation`. That in turn determines what is free from the
four other amounts, so a step is recognised as a `Lock`, an `Unlock` or a `Penalise` of
`Supply` by what it does to the locks, the fees and the counters. The issuance bound of
`Unlock` is the rounding of `issuance` against an escrow that held the whole ceiling.

**Words** (`LedgerMoney`). An admitted ceiling is at most a balance, and a balance at most
what was minted; so if the supply times the fee rate is a word (`SupplyFits`), no product of
an admitted ceiling wraps around, and a ceiling whose product does wrap around is above
every balance by itself.

**History** (`LedgerTheorems`). `Kept` relates the two states of a step record by record;
`Minted` and `Struck` are sums and counts over the same records, so one lemma per operation
serves the three theorems. For `PenalisedOnce` the strikes of a step are the difference of two
counts (`StrikesOfStep`); a step that takes no nonce, ends no epoch and slashes nothing can only
be the end of a challenge, and that moves its bond (`VerdictTakesBond`).

**Bonds** (`LedgerMoney`). The lock of an account is the sum of its unreleased stakes and
pending bonds. The invariant says that what is bonded is at most the lock, and equal to it
for an account without strikes. The point of the proof is that a verdict takes from an
account only what that account's own claim or challenge locked, or strikes it; so the
clamps at a release and at a slash never bite an account without strikes, and the two
action properties follow.

**The node** (`NodeTheorems`). `ProduceOne` (in `LedgerRecords`) unfolds the fold of
`produce` over one transaction; after that a step of the node applies a transaction, ends
an epoch, applies a
verdict or leaves the ledger alone (`NodeStepIs`), and each of these is a step of `Ledger`
or none. `NodeInv` adds to the ledger's invariant what the calls in progress remember: the
claim that an answer is about, and the proof that a verdict is about, are still those of
the ledger. They stay so because claims and proofs are final, which is `kept` of
`LedgerTheorems`, step by step; so the verdict is about the proof the ledger holds, and
slashes exactly if that is wrong.
`ChainInv` adds that the sequencer is in the epoch of the ledger, without which a block
could be sealed in another epoch than its post-state's. `NoReplay` speaks of places in
the chain, and is inductive given `ChainInv`: a step keeps all places, and adds at most one,
after all others, whose transaction has the next nonce of its author (`NodeAppends`,
`PlacesGrow`).

**The replica** (`NodeTheorems`). `ReplicaInv` says that the block a replica has fetched,
and the block it stands at, are in the chain of some life of the node, at their height. A
step of the node only lengthens the chain, and a restart moves it among the abandoned ones
(`LivesGrow`); a fetch takes a block of the present chain, and a replay is accepted only
with that block's transactions and root, so whatever the restarts in between, the replica
moves from one block of some life to another.

**The workers** (`WorkerTheorems`). `WorkerInv` is the invariant of the node together with
what the loop counts by itself: the provider's nonce is twice the tasks done, one more
after a claim, two more after a proof (`in_step`). `SentKeeps` shows that a worker's
transaction is a step of the ledger under which the node's invariant stays; `WorkerStepIs`
sums up what a step of a worker does. For `OneDriver` the invariant `DriverInv` adds that a
driving worker has had the requester's nonce zero accepted, so that no second one gets it.
For `TotalSettled` the invariant `SettledInv` says what the provider's nonces `n` tell
about the ledger, whichever worker used them: the k-th task is claimed by the provider once
`n >= 2k - 1`, and settled at the outcome's work once `n >= 2k`, and only then. An accepted
claim or proof moves `n` by one and one task along with it (`ClaimCounts`, `ProofCounts`);
whatever others do leaves `n` alone and neither claims nor proves for the provider
(`NodeNotOurs`), which is where it matters that nobody else has the key; a restart of the
node sets `n` back to zero and all tasks to none. The worker that counts has `n >= 2i + 2`,
so all its tasks are settled, and its total is the sum.

**The scenarios** (`ConformanceTheorems`). A script is deterministic, so the proof follows it.
There is a predicate for each state it leads through, with the amounts of every party as
terms in the work `u`: `Fresh`, `Posted`, `Claimed`, `Settled`, then `Disputed` and
`Convicted`, or `Maturing` while the window is open. One lemma per transaction says that the
ledger applies it and which predicate holds then (`SubmitPosts`, `ClaimClaims`,
`ProofSettles`, `ChallengeDisputes`), and `VerdictConvicts` and `EpochMatures` do the same
for the verdict and the epochs; the rates are evaluated once, in `ThousandthsOf` and
`WorkAmounts`. The invariant `IInv` says at which predicate the ledger is after `step`
transactions, and for `replication` that block `k` of the chain holds transaction `k` and
the state it leads to (`Recorded`), with the replica at the state of its height;
`Committed` shows that the replica then accepts the next block and is in its state. The
vectors are the last predicates at `u` of four 𝕌 and of 7142 base units. That forgery does
not pay is the sum of three accounts in `Convicted`: the reward is at most the fine, so the
fee at least is gone. The same invariant shows that no call of a script is refused
(`ScenariosRun`).

**The dvm.** `WithinCeiling` speaks of finished runs only. The invariant of `DvmTheorems`
adds that a run in progress has between zero and its ceiling of fuel left; then what it
consumed is at most the ceiling, and `RoundTrip` shows that converting a ceiling to fuel
and the fuel back, rounding down both times, does not exceed it. The case that is not
arithmetic is `OutOfFuel`, which reports the ceiling itself.

The other two compare the runs of one guest under different limits, whose steps
interleave in any way. `TraceInv` says that there is one trace, a sequence of stores in
which each follows from the one before without looking at limits, such that every run is
somewhere on it, or has ended where its limits stopped it. The trace is as long as the
run that came furthest, and a step of a run either goes along it or lengthens it by one.
Two runs with the same limits stop at the same place with the same report
(`HonestProofAccepted`). An estimate that ended well reached the end of the guest; fuel
only grows along the trace, so a run whose ceiling converts to at least the fuel used there
is not stopped before (`EstimateSuffices`), and a ceiling above the estimate does
(`EstimateCovers`).

**Verification** (`VerificationTheorems`). `SealInv` and `AuditInv` say what has been
recorded in terms of the operators: the floor is the cast of the quotient, an audit exists
for exactly the pairs under the threshold and went to whom `select_reexecutor` names. What
is left is arithmetic and counting. Where the product of what a seal declares fits the wider
word, the denominator is exact and the bounds of `quotient` are those of one division; a work
that wraps around and the cast only lower it. Where it does not fit no bound holds, and
`WrappedSealOverstates` shows it on one seal: with `c` values to a word, `(c-1)^3` is
`(c-3)c^2 + 3c - 1`, so the denominator is `3c - 1` however wide the words are, and any work
whose cost for the benchmark lies between the two (and makes a bound that fits the word) is
recorded with one or more instead of zero. The sampled pairs are an interval times all
words, whose size is
counted by the community modules' theorems about finite sets and compared with the rate by
the rounding of the threshold. That the candidates are exactly the others of the list needs
an induction over its length, which is done with sets of indices (`UpToInduction`);
`candidates` is a recursive function for that reason.

**Only model-checked:** `FailsForAReason` of the worker: that an error has one of the four
reasons holds where the requester can pay for the
tasks and the works are within their ceilings, as in the instance, and is not true for every
value of the constants. Liveness under fairness is out of the prover's reach and stays so:
`ChallengeResolved`, `ReplaysUserBlocks`, `SomeWorkerFinishes`, `ScenariosEnd`,
`EveryRunEnds`.

## What is not modelled

- **Word width.** Modelled where a client names an amount before the ledger has looked at a
  balance (`Words`), and where a seal declares one (`Verification`). All other amounts are
  bounded by the supply, which on the devnet is far below `u128`, and are natural numbers.
- **Loading.** `Storage::load` has no caller and the only `Storage` is in memory: there is
  no recovery to model. The restart there is, from genesis, is modelled.
- **Expiry.** The code has no operation that returns the escrow of a task nobody
  claimed or proved; there is nothing to model, and `EscrowBacked` keeps such escrows
  accounted for.
- **Codec and hashes.** Injective. Signatures are data that only the key's holder can make.
  What the codec or the parsing of hexadecimal rejects changes nothing.
- **The WebAssembly engine.** External: that a valid module is compiled, that a step
  costs what it costs everywhere and that out of fuel stops the guest are taken as given.
  `Node` takes the result of an execution as the constant `Outcome`.
- **Callers of the audit and of the attestor.** No live path calls `is_sampled`,
  `select_reexecutor` or `SealedAttestor`; `q` is always null. `Verification`
  drives them as their documentation says.
- **Read-only calls, error codes, views.** One locked read each; the only one whose
  answer depends on a second lock (`claim`) is modelled.
- **Seams.** `TeeVerifier`, `ConsensusEngine`, `ParamSource` and the like have one
  implementation each that is used.
- **Node binary.** Its flags and logging. What it does to the node is `RestartNode`.
- **Conformance.** The codec and metering records compare bytes of borsh, BLAKE3 and the
  engine's fuel; the q-observable record is a calculation at magnitudes beyond TLC's
  integers, whose operations `Verification` checks at small ones; the vector files are
  input and output.
