--------------------------- MODULE MCRaftSnapshot ---------------------------
(* RaftSnapshot on small instances.                                         *)
EXTENDS RaftSnapshot

SnapshotSymmetry == Permutations(Server)

NeverOrTwo == {-1, 2}

(* The steps of the service goroutine, of runServer and of Compaction touch *)
(* only their own peer.                                                     *)
Urgent(i) ==
    \/ rf[i].convertState # Nil \/ rf[i].service = "asFollower"
    \/ kv[i].busy # Nil
    \/ kv[i].compactions # {} /\ CanLock(i)

PromptSnapshotNext ==
    /\ SnapshotNext
    /\ (\E i \in Server : Urgent(i)) =>
          \E i \in Server : Urgent(i) /\ (rf'[i] # rf[i] \/ kv'[i] # kv[i])

PromptSnapshotSpec == SnapshotInit /\ [][PromptSnapshotNext]_snapshotVars

(* Bound: beside replies to heartbeats, one message in flight.              *)
LateHeartbeats ==
    Cardinality({m \in msgs : m.type # "AppendEntriesReply" \/ m.argsMatch > 0}) <= 1

(* Bounds: without compaction, one term, no crash, two entries and two      *)
(* messages in flight; with it, one message in flight, and three entries    *)
(* only if there is no crash or no second leader.                           *)
Scope ==
    LET term == Max({rf[i].currentTerm : i \in Server})
        last == Max({getLastLogIndex(rf[i]) : i \in Server})
    IN  IF maxraftstate = -1 THEN restarts = 0 /\ term <= 1 /\ last <= 2
        ELSE Cardinality(msgs) <= 1 /\ (restarts = 0 \/ term <= 1 \/ last <= 2)

(* As PromptView of MCRaft.                                                 *)
SnapshotView ==
    <<[i \in Server |->
        [rf[i] EXCEPT
            !.nextIndex  = IF rf[i].state = "leader" THEN @ ELSE <<>>,
            !.matchIndex = IF rf[i].state = "leader" THEN @ ELSE <<>>]],
      msgs, restarts, applied, maxraftstate, kv>>

=============================================================================
