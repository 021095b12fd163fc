-------------------------------- MODULE MCDvm --------------------------------
(***************************************************************************)
(* Small guests for TLC.  The benchmark has more base units than fuel to   *)
(* the unit of account, as the devnet has, and neither divides the other.  *)
(***************************************************************************)
EXTENDS Dvm, SequencesExt

SmallGuest ==
  LET plain == [ valid |-> TRUE, links |-> TRUE, pages |-> 1, start |-> << >>,
                 entry |-> TRUE, run |-> <<"write">> ]
  IN {[plain EXCEPT !.run = run] : run \in BoundedSeq(Step, 2)}
     \cup {[plain EXCEPT !.start = <<step>>, !.run = run] :
             step \in Step, run \in {<<"write">>, <<"spin">>}}
     \cup {[plain EXCEPT !.valid = FALSE], [plain EXCEPT !.links = FALSE],
           [plain EXCEPT !.pages = 2], [plain EXCEPT !.entry = FALSE]}

SmallLimits == [max_ucu : {0, 2, 3, 5, 7, 10}, max_memory : {1, 2}]
=============================================================================
