------------------------------ MODULE MCRaftKV ------------------------------
(* RaftKV on small instances.                                               *)
EXTENDS RaftKV

Symmetry == Permutations(Server) \cup Permutations(Client)

(* Bounds: calls and crashes together; at most one Get; and when both       *)
(* Clerks are at work, one of them reads and no server crashes.             *)
CallsAndCrashes ==
    LET calls == UNION {{<<c, k>> : k \in DOMAIN call[c]} : c \in Client}
        ops   == {call[x[1]][x[2]].op : x \in calls}
        gets  == {op \in ops : op.Op = "Get"}
    IN  /\ Cardinality(calls) + restarts <= 3
        /\ Cardinality(gets) <= 1
        /\ \/ Cardinality({op.ClientId : op \in ops}) <= 1
           \/ gets # {} /\ restarts = 0

=============================================================================
