---------------------------- MODULE MCRaftRepair ----------------------------
(* Raft from the persisted states of three peers whose logs have diverged,  *)
(* as if all of them had just restarted.                                    *)
EXTENDS MCRaft

CONSTANTS s1, s2, s3, c1

saved(term, voted, terms) ==
    [currentTerm |-> term, votedFor |-> voted,
     log |-> <<zeroEntry>> \o
        [n \in 1..Len(terms) |-> [Term |-> terms[n], Index |-> n, Command |-> c1]]]

(* s3 led term 1 and replicated the first of its two entries to s1; s1 led  *)
(* term 2 with the vote of s2.                                              *)
DivergedAtEnd ==
    (s1 :> saved(2, s1, <<1, 2>>)) @@ (s2 :> saved(2, s1, <<>>))
        @@ (s3 :> saved(1, s3, <<1, 1>>))

(* s1 led term 1 and s2 term 2, both with the vote of s3, which never       *)
(* received an entry.                                                       *)
DivergedFromStart ==
    (s1 :> saved(1, s1, <<1, 1>>)) @@ (s2 :> saved(2, s2, <<2>>))
        @@ (s3 :> saved(2, s2, <<>>))

RepairInit ==
    /\ \E logs \in {DivergedAtEnd, DivergedFromStart} :
          rf = [i \in Server |-> readPersist(logs[i])]
    /\ msgs = {}
    /\ restarts = 0
    /\ votes = {}
    /\ elected = {}
    /\ applied = {}

RepairSpec == RepairInit /\ [][PromptNext]_vars

FairRepairSpec == RepairSpec /\ Fairness

=============================================================================
