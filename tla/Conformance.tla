----------------------------- MODULE Conformance ------------------------------
(***************************************************************************)
(* The scenarios of crates/conformance whose outcomes are published as     *)
(* golden vectors, run on the ledger and the sequencer with the devnet     *)
(* parameters: a settlement, the finality of its stake, a forged proof     *)
(* that is challenged, and a chain that is produced and then replayed.     *)
(* The harness runs each with one amount of work; here it may be any up to *)
(* the ceiling.                                                            *)
(*                                                                         *)
(* The devnet rates are whole thousandths, so any PPM that is a multiple   *)
(* of 1000 gives the amounts of the code, and so does any scale of one 𝕌   *)
(* that divides into hundredths.                                           *)
(***************************************************************************)
EXTENDS Consensus

CONSTANTS
  UCU_SCALE,                                \* base units of one 𝕌
  req, prov, chal, task,
  Work                                      \* the work a proof may claim

thousandths(n) == n * (PPM \div 1000)

devnet == [ issuance_rate_ppm     |-> thousandths(10),
            fee_ppm               |-> thousandths(1),
            sp_rate_ppm           |-> PPM,
            efficiency_mult_ppm   |-> PPM,
            decay_rate_ppm        |-> thousandths(20),
            stake_base_ppm        |-> thousandths(500),
            discount_max_ppm      |-> thousandths(800),
            sp_ref                |-> 1000 * UCU_SCALE,
            clawback_epochs       |-> 32,
            fine_mult_ppm         |-> thousandths(2000),
            challenger_reward_ppm |-> thousandths(500),
            bond_min_ppm          |-> thousandths(250) ]

task_body == [ max_ucu   |-> 10 * UCU_SCALE,
               deadline  |-> 100,
               benchmark |-> 0,
               supported |-> TRUE ]

ASSUME DevnetAssumption == params = devnet
ASSUME RateAssumption == PPM % 1000 = 0
\* One 𝕌 has hundredths, and the stake covers what the fraud vector takes.
ASSUME ScaleAssumption ==
  UCU_SCALE \in Nat /\ UCU_SCALE % 100 = 0 /\ UCU_SCALE >= 10000
ASSUME PartyAssumption ==
  {req, prov, chal} \subseteq Identity /\ req # prov /\ req # chal /\ prov # chal
ASSUME ScriptAssumption ==
  /\ task \in Task /\ Body[task] = task_body
  /\ {"honest", "forged"} \subseteq Result
  /\ Work \subseteq Ucu /\ \A u \in Work : u <= task_body.max_ucu

Record == {"settlement", "finality", "fraud", "replication"}

VARIABLES
  record,      \* the scenario
  work,        \* the work its proof claims
  step,        \* how much of its script has run
  resolved,    \* the challenge was
  sequencer, chain,                \* the producer and its blocks
  replica_sequencer, replica       \* the replica and its state

producer == <<sequencer, chain>>
follower == <<replica_sequencer, replica>>
vars == <<ledger, record, work, step, resolved, producer, follower>>

-----------------------------------------------------------------------------
allotted == 100 * UCU_SCALE

parties(r) == {req, prov} \cup IF r = "fraud" THEN {chal} ELSE {}

start(r) ==
  LET alloc == [a \in Identity |-> IF a \in parties(r) THEN allotted ELSE 0]
  IN [genesis EXCEPT !.balance = alloc, !.minted = SumFunction(alloc)]

\* Only the fraud scenario forges the result that its proof states.
proof(r, u) == [ provider  |-> prov,
                 ucu_count |-> u,
                 benchmark |-> Body[task].benchmark,
                 result    |-> IF r = "fraud" THEN "forged" ELSE "honest" ]

AtLeastOne(n) == IF n >= 1 THEN n ELSE 1

script(r, u) ==
  LET settled ==
        << sign(req, [type |-> "SubmitTask", task |-> task], 0),
           sign(prov, [type |-> "ClaimTask", task |-> task], 0),
           sign(prov, [type |-> "SubmitProof", task |-> task,
                           proof |-> proof(r, u)], 1) >>
      repaid == [type |-> "Transfer", to |-> req, amount |-> UCU_SCALE]
      challenged == [type |-> "Challenge", task |-> task,
                     bond |-> AtLeastOne(bond_min(u))]
  IN CASE r = "fraud"       -> Append(settled, sign(chal, challenged, 0))
       [] r = "replication" -> Append(settled, sign(prov, repaid, 2))
       [] OTHER             -> settled

next_tx == script(record, work)[step + 1]
ran == step = Len(script(record, work))

ScenarioInit ==
  /\ record \in Record /\ work \in Work
  /\ ledger = start(record) /\ replica = start(record)
  /\ sequencer = new_sequencer /\ replica_sequencer = new_sequencer
  /\ chain = << >> /\ step = 0 /\ resolved = FALSE

\* A rejected transaction would make the harness panic.
RunScript ==
  /\ record # "replication" /\ ~ ran
  /\ CanApply(ledger, next_tx)
  /\ ledger' = apply(ledger, next_tx)
  /\ step' = step + 1
  /\ UNCHANGED <<record, work, resolved, producer, follower>>

\* One block for each transaction; an empty one is dropped.
Produce ==
  /\ record = "replication" /\ ~ ran
  /\ LET proposal == produce(sequencer, <<next_tx>>, ledger)
     IN IF proposal.txs # << >>
        THEN /\ sequencer' = adopt(sequencer, proposal.block)
             /\ ledger' = proposal.state
             /\ chain' = Append(chain, proposal)
        ELSE UNCHANGED <<ledger, producer>>
  /\ step' = step + 1
  /\ UNCHANGED <<record, work, resolved, follower>>

Replay ==
  /\ record = "replication" /\ ran /\ replica_sequencer.height < Len(chain)
  /\ LET proposal == chain[replica_sequencer.height + 1]
         s == commit(proposal.block, proposal.txs, replica)
     IN /\ s # None
        /\ replica' = s
        /\ replica_sequencer' = adopt(replica_sequencer, proposal.block)
  /\ UNCHANGED <<ledger, record, work, step, resolved, producer>>

\* One turn of the loop of advance_to_epoch.
CloseWindow ==
  /\ record = "finality" /\ ran /\ ledger.epoch < params.clawback_epochs
  /\ ledger' = advance_epoch(ledger)
  /\ UNCHANGED <<record, work, step, resolved, producer, follower>>

\* The harness executes the program again and hands the verdict to the ledger.
Judge ==
  /\ record = "fraud" /\ ran /\ ~ resolved
  /\ LET verdict_is_fraud == ledger.proofs[task].result # "honest"
     IN ledger' = resolve_challenge(ledger, task, verdict_is_fraud)
  /\ resolved' = TRUE
  /\ UNCHANGED <<record, work, step, producer, follower>>

done ==
  /\ ran
  /\ record = "finality" => ledger.epoch = params.clawback_epochs
  /\ record = "fraud" => resolved
  /\ record = "replication" => replica_sequencer.height = Len(chain)

ScenarioNext == RunScript \/ Produce \/ Replay \/ CloseWindow \/ Judge

\* A scenario is a sequential program.
ScenarioSpec ==
  ScenarioInit /\ [][ScenarioNext]_vars /\ WF_vars(ScenarioNext)

-----------------------------------------------------------------------------
(***************************************************************************)
(* The published outcomes (test-vectors/), in 𝕌 or in base units, and what *)
(* the tests of the crate ask of them.                                     *)
(***************************************************************************)
account(a) == <<ledger.balance[a], ledger.escrowed[a], ledger.bonded[a]>>

centi(n) == n * (UCU_SCALE \div 100)   \* hundredths of one 𝕌

published_receipt ==
  [ paid_to_provider |-> centi(400), work_issuance  |-> centi(4),
    validator_fee    |-> centi(1),   standing_delta |-> centi(400),
    settled_epoch    |-> 0,          clawback_until |-> 32 ]

happy_path ==
  /\ account(req) = <<centi(9599), 0, 0>>
  /\ account(prov) = <<centi(9904), 0, centi(500)>>
  /\ ledger.sp[prov] = centi(400) /\ ledger.strikes[prov] = 0
  /\ ledger.receipts[task] = published_receipt
  /\ ledger.q_ledger[task].ucu = centi(400) /\ ledger.q_ledger[task].q = None
  /\ ledger.minted = centi(20004) /\ ledger.fee_pool = centi(1)

finality ==
  /\ ledger.epoch = 32
  /\ account(prov) = <<centi(10404), 0, 0>>
  /\ ledger.receipts[task] = published_receipt
  /\ task \in ledger.released

\* The forged proof of the vector claims 7142 base units.
fraud_challenge ==
  /\ account(req) = <<allotted - centi(1), 0, 0>>
  /\ account(prov) = <<centi(9500) + 7142, 0, centi(500) - 21426>>
  /\ account(chal) = <<allotted + 7142, 0, 0>>
  /\ ledger.sp[prov] = 0 /\ ledger.strikes[prov] = 1
  /\ ledger.minted = 3 * allotted + 71
  /\ ledger.burned = 7213 /\ ledger.fee_pool = centi(1)

\* The outcomes of the scenarios are the published ones, amount by amount.
PublishedVectors ==
  done => /\ record = "settlement" /\ work = centi(400) => happy_path
          /\ record = "finality" /\ work = centi(400) => finality
          /\ record = "fraud" /\ work = 7142 => fraud_challenge

\* A forged proof that is challenged earns its circle nothing: whatever work it
\* claims, and also when the stake does not cover that, requester, provider and
\* challenger together end with less than they started with.
ForgeryEarnsNothing ==
  record = "fraud" /\ done =>
    SumFunction([a \in parties(record) |-> ledger.balance[a] + ledger.bonded[a]])
      < 3 * allotted

\* The replica replays every block of the producer and ends in its state.
ReplicaMatches ==
  record = "replication" /\ done => Len(chain) = 4 /\ replica = ledger

\* No scenario stops halfway: no call of its script is rejected, whatever work
\* the proof claims within the ceiling.
ScenariosEnd == <>done
=============================================================================
