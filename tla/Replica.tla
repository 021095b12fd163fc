------------------------------ MODULE Replica -------------------------------
(***************************************************************************)
(* A replica of the node: it starts from the same genesis, fetches the     *)
(* blocks of the chain and then their transactions in height order over    *)
(* RPC, replays each with SingleSequencer::commit and adopts it.  The node *)
(* goes on meanwhile, and may be restarted, which begins another chain     *)
(* from the same genesis.  The replica has no code of its own in the       *)
(* repository; this is how its end-to-end test drives the sequencer.       *)
(***************************************************************************)
EXTENDS NodeProperties

CONSTANT MaxRestarts   \* bound on the restarts of the node

ASSUME RestartAssumption == MaxRestarts \in Nat

VARIABLES
  replica,     \* its state, the head it reached, the block it is at
  abandoned    \* the chains of the node's earlier lives

replica_vars == <<vars, replica, abandoned>>

ReplicaInit ==
  /\ NodeInit
  /\ replica = [ state     |-> genesis,
                 sequencer |-> new_sequencer,
                 block     |-> None,
                 rejected  |-> FALSE ]
  /\ abandoned = << >>

next_height == replica.sequencer.height + 1

\* ducp_getBlock
FetchBlock ==
  /\ ~ replica.rejected /\ replica.block = None
  /\ next_height <= Len(blocks)
  /\ replica' = [replica EXCEPT !.block = blocks[next_height]]
  /\ UNCHANGED <<vars, abandoned>>

\* ducp_getBlockTxs, then commit and adopt.  A node that was restarted meanwhile
\* may have no block at this height yet, and it is asked again.
Replay ==
  /\ replica.block # None /\ ~ replica.rejected
  /\ next_height <= Len(block_txs)
  /\ LET b    == replica.block
         post == commit(b, block_txs[next_height], replica.state)
     IN replica' = IF post = None
                   THEN [replica EXCEPT !.rejected = TRUE]
                   ELSE [replica EXCEPT !.state     = post,
                                        !.sequencer = adopt(@, b),
                                        !.block     = None]
  /\ UNCHANGED <<vars, abandoned>>

Restart ==
  /\ Len(abandoned) < MaxRestarts
  /\ RestartNode
  /\ abandoned' = Append(abandoned, blocks)
  /\ UNCHANGED replica

ReplicaNext ==
  \/ NodeNext /\ UNCHANGED <<replica, abandoned>>
  \/ Restart
  \/ FetchBlock
  \/ Replay

\* A replica that has a block to fetch or to replay does so.
ReplicaSpec ==
  /\ ReplicaInit /\ [][ReplicaNext]_replica_vars
  /\ WF_replica_vars(FetchBlock \/ Replay)

-----------------------------------------------------------------------------
\* The replica is at height h of this chain.
on(chain, h) ==
  /\ h <= Len(chain)
  /\ replica.state = chain[h].state_root
  /\ replica.sequencer = adopt(new_sequencer, chain[h])

\* As far as a replica gets it agrees with the node: same state, same head,
\* same epoch, while the node has long gone on.  A restart of the node, also
\* between the two calls that fetch a block, puts it on the one chain or on the
\* other and never on a mixture of both.
ReplicaAgrees ==
  LET h == replica.sequencer.height
  IN IF h = 0 THEN replica.state = genesis
     ELSE on(blocks, h) \/ \E i \in 1..Len(abandoned) : on(abandoned[i], h)

user_block(h) == block_txs[h] # << >>

\* The blocks of user transactions can be replayed: a replica gets past all of
\* them, as long as no system block is in the way and the node is not restarted.
ReplaysUserBlocks ==
  \A h \in 1..MaxBlocks :
    (Len(blocks) >= h /\ \A i \in 1..h : user_block(i))
      ~> (replica.sequencer.height >= h \/ abandoned # << >>)

\* "Other nodes replay commit and MUST reach the identical root" (the crate
\* documentation of consensus): no block of the node is ever rejected.
EveryBlockReplays == ~ replica.rejected
=============================================================================
