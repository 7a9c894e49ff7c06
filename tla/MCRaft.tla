------------------------------- MODULE MCRaft -------------------------------
(* Raft on small instances: model values, and the symmetry of the peers.    *)
EXTENDS Raft, TLC

Symmetry == Permutations(Server)

(* The history of votes is written and never read.                          *)
View == <<rf, msgs, restarts, elected, applied>>

(* Bound: entries in the first term only, and without a crash.              *)
EntriesInFirstTerm ==
    (\E i \in Server : getLastLogIndex(rf[i]) > 0) =>
        restarts = 0 /\ \A i \in Server : rf[i].currentTerm <= 1

(* The service goroutine's steps into a role touch only its own peer.       *)
Urgent(i) == \/ rf[i].convertState # Nil
             \/ rf[i].service \in {"asFollower", "asLeader", "asCandidate",
                                   "startElection"}
PromptNext ==
    /\ Next
    /\ (\E i \in Server : Urgent(i)) => \E i \in Server : Urgent(i) /\ rf'[i] # rf[i]

PromptSpec == Init /\ [][PromptNext]_vars

(* With a prompt service, what a peer that does not lead remembers of its   *)
(* followers, and one that is no candidate of its votes, is never read      *)
(* again: states that differ only there, or in the histories of votes and   *)
(* winners, are the same state.                                             *)
PromptView ==
    <<[i \in Server |->
        [rf[i] EXCEPT
            !.nextIndex  = IF rf[i].state = "leader" THEN @ ELSE <<>>,
            !.matchIndex = IF rf[i].state = "leader" THEN @ ELSE <<>>,
            !.vote       = IF rf[i].state = "candidate" THEN @ ELSE <<>>]],
      msgs, restarts, applied>>

=============================================================================
