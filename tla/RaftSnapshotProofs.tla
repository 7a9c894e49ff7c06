------------------------- MODULE RaftSnapshotProofs -------------------------
(***************************************************************************)
(* Why what has been committed is final when nothing is ever compacted.     *)
(* With maxraftstate = -1 no goroutine of Compaction is ever started and no *)
(* snapshot is ever sent, so each step of RaftSnapshot is one of module     *)
(* Raft, which keeps the invariants of the other proof modules, or an       *)
(* election in one step, of which that is shown here.  They say that the    *)
(* committed beginning of a log is the one of every later leader's log, so  *)
(* that merging the entries of such a leader leaves it alone; that the      *)
(* commit index does not go back rests on the leader's being covered by the *)
(* entries it is sent with.                                                 *)
(***************************************************************************)
EXTENDS RaftSnapshot, RaftSafetyProofs

(* A service that has not asked for compaction.                             *)
NoCompaction(k) ==
  k = [db |-> k.db, busy |-> k.busy, lastIncludedLogEntry |-> k.lastIncludedLogEntry,
       compactions |-> {}, snapshot |-> k.snapshot]

Uncompacted == kv = [i \in Server |-> kv[i]] /\ \A i \in Server : NoCompaction(kv[i])

(* Only AppendEntries and its replies are in flight, and the commit index   *)
(* sent is that of an entry sent or of one before.                          *)
Traffic ==
  \A m \in msgs :
    /\ m.type \in {"AppendEntries", "AppendEntriesReply"}
    /\ m.type = "AppendEntries" => m.LeaderCommit <= m.PrevLogIndex + Len(m.Entries)

NobodyStands == \A i \in Server : ~Standing(rf[i])

PlainInv ==
  /\ TypeInv /\ VoteInv /\ RoleInv /\ Safe
  /\ Uncompacted /\ Traffic /\ NobodyStands

(* The invariant of every behaviour without compaction.                     *)
PlainIfNever == maxraftstate = -1 => PlainInv

-----------------------------------------------------------------------------
(* An election in one step.                                                 *)

(* The winner and a voter.                                                  *)
Winner(s, i) ==
  persist([s EXCEPT !.state = "leader", !.service = "leader",
                    !.currentTerm = s.currentTerm + 1, !.votedFor = i,
                    !.nextIndex = [p \in Server |-> getLastLogIndex(s) + 1],
                    !.matchIndex = [p \in Server |-> 0]])

Granted(j, t, i) == grantVote(checkCurrentTerm(rf[j], t), i)

(* The winner's fields.                                                     *)
LEMMA WinnerFields ==
  ASSUME NEW s, Good(s), NEW i \in Server
  PROVE  LET u == Winner(s, i)
         IN  /\ Good(u) /\ u.state = "leader" /\ u.service = "leader"
             /\ u.currentTerm = s.currentTerm + 1 /\ u.votedFor = i
             /\ u.log = s.log /\ u.commitIndex = s.commitIndex /\ u.vote = s.vote
             /\ u.convertState = s.convertState /\ u.mutex = s.mutex
             /\ \A p \in Server : u.nextIndex[p] = Len(s.log) /\ u.matchIndex[p] = 0
<1> DEFINE n == [p \in Server |-> getLastLogIndex(s) + 1]
           k == [p \in Server |-> 0]
           t == s.currentTerm + 1
           w == [s EXCEPT !.state = "leader", !.service = "leader", !.currentTerm = t,
                          !.votedFor = i, !.nextIndex = n, !.matchIndex = k]
<1>1. getLastLogIndex(s) + 1 = Len(s.log) /\ Len(s.log) \in Nat /\ t \in Nat
  BY LogShape, GoodFields
<1>2. n \in [Server -> Nat] /\ k \in [Server -> Nat]
      /\ \A p \in Server : n[p] = Len(s.log) /\ k[p] = 0
  BY <1>1
<1>3. s \in RaftObject /\ Indexed(s.log)
  BY DEF Good
<1> HIDE DEF n, k, t
<1>4. /\ w \in RaftObject /\ w.state = "leader" /\ w.service = "leader" /\ w.currentTerm = t
      /\ w.votedFor = i /\ w.log = s.log /\ w.commitIndex = s.commitIndex /\ w.vote = s.vote
      /\ w.convertState = s.convertState /\ w.mutex = s.mutex
      /\ w.nextIndex = n /\ w.matchIndex = k
  BY <1>1, <1>2, <1>3 DEF RaftObject
<1> HIDE DEF w
<1>5. Winner(s, i) = persist(w)
  BY DEF Winner, w, n, k, t
<1>6. Indexed(w.log)
  BY <1>3, <1>4
<1>7. /\ Good(persist(w)) /\ persist(w).state = w.state /\ persist(w).currentTerm = w.currentTerm
      /\ persist(w).votedFor = w.votedFor /\ persist(w).log = w.log
      /\ persist(w).commitIndex = w.commitIndex /\ persist(w).nextIndex = w.nextIndex
      /\ persist(w).matchIndex = w.matchIndex /\ persist(w).convertState = w.convertState
      /\ persist(w).service = w.service /\ persist(w).vote = w.vote /\ persist(w).mutex = w.mutex
  BY <1>4, <1>6, PersistGood
<1> QED
  BY <1>2, <1>4, <1>5, <1>7 DEF t

(* What an election leaves behind.                                          *)
LEMMA ElectEffect ==
  ASSUME TypeInv, RoleInv, PromptService, NEW i \in Server, NEW Q \in SUBSET Server, Elect(i, Q)
  PROVE  /\ NewTerm(i) \in Nat \ {0} /\ NewTerm(i) > rf[i].currentTerm /\ rf[i].currentTerm \in Nat
         /\ i \in Q /\ Majority(Q)
         /\ rf' = [j \in Server |-> IF j = i THEN Winner(rf[i], i)
                                    ELSE IF j \in Q THEN Granted(j, NewTerm(i), i) ELSE rf[j]]
         /\ rf'[i] = Winner(rf[i], i)
         /\ \A j \in Q \ {i} : rf'[j] = Granted(j, NewTerm(i), i)
         /\ \A j \in Server \ Q : rf'[j] = rf[j]
         /\ \A j \in Q : CanLock(j)
         /\ elected' = elected \cup {<<NewTerm(i), i>>}
         /\ votes' = votes \cup {<<NewTerm(i), j, i>> : j \in Q}
         /\ UNCHANGED <<msgs, restarts, applied, maxraftstate, kv>>
<1>1. Good(rf[i])
  BY DEF TypeInv, TypeRf
<1>2. rf[i].currentTerm \in Nat
  BY <1>1, GoodFields
<1>3. NewTerm(i) \in Nat \ {0} /\ NewTerm(i) > rf[i].currentTerm
  BY <1>2 DEF NewTerm
<1>4. i \in Q /\ Majority(Q) /\ \A j \in Q : CanLock(j)
  BY DEF Elect
<1>5. rf' = [j \in Server |-> IF j = i THEN Winner(rf[i], i)
                              ELSE IF j \in Q THEN Granted(j, NewTerm(i), i) ELSE rf[j]]
  BY DEF Elect, Winner, Granted, NewTerm
<1>6. /\ elected' = elected \cup {<<NewTerm(i), i>>}
      /\ votes' = votes \cup {<<NewTerm(i), j, i>> : j \in Q}
      /\ UNCHANGED <<msgs, restarts, applied, maxraftstate, kv>>
  BY DEF Elect, NewTerm
<1> QED
  BY <1>2, <1>3, <1>4, <1>5, <1>6

(* A voter moves to the term of the election, or was in it and had not      *)
(* voted for somebody else; its log, at most as up to date as the winner's, *)
(* stays as it is.                                                          *)
LEMMA ElectVoter ==
  ASSUME TypeInv, RoleInv, PromptService, NEW i \in Server, NEW Q \in SUBSET Server, Elect(i, Q),
         NEW j \in Q \ {i}
  PROVE  LET u == Granted(j, NewTerm(i), i)
         IN  /\ Good(u) /\ u.currentTerm = NewTerm(i) /\ u.votedFor = i
             /\ SameLog(rf[j], u) /\ u.vote = rf[j].vote /\ Fate(rf[j], u)
             /\ RoleOK(u) /\ Quiet(rf[j], u) /\ NoPromotion(rf[j], u)
             /\ \/ getLastLogTerm(rf[i]) > getLastLogTerm(rf[j])
                \/ /\ getLastLogTerm(rf[i]) = getLastLogTerm(rf[j])
                   /\ getLastLogIndex(rf[i]) >= getLastLogIndex(rf[j])
<1> DEFINE T == NewTerm(i)
           s == checkCurrentTerm(rf[j], T)
           u == grantVote(s, i)
           m == [Term |-> T, CandidateId |-> i, LastLogIndex |-> getLastLogIndex(rf[i]),
                 LastLogTerm |-> getLastLogTerm(rf[i])]
<1>1. T \in Nat /\ CanLock(j) /\ j \in Server
  BY ElectEffect
<1>2. mayVote(s, m)
  BY DEF Elect, NewTerm
<1>3. m.Term = T /\ m.CandidateId = i /\ m.LastLogIndex = getLastLogIndex(rf[i])
      /\ m.LastLogTerm = getLastLogTerm(rf[i])
  OBVIOUS
<1> HIDE DEF m
<1>4. /\ Good(rf[j]) /\ RoleOK(rf[j]) /\ Settled(rf[j])
  BY <1>1 DEF TypeInv, TypeRf, RoleInv, CanLock, Settled
<1>5. /\ Good(s) /\ RoleOK(s) /\ InLoop(s) /\ NoPromotion(rf[j], s)
      /\ Quiet(rf[j], s) /\ SameLog(rf[j], s)
  BY <1>1, <1>4, CheckRole, CheckQuiet
<1>6. /\ s.currentTerm = IF T <= rf[j].currentTerm THEN rf[j].currentTerm ELSE T
      /\ s.votedFor = IF T <= rf[j].currentTerm THEN rf[j].votedFor ELSE Nil
      /\ s.log = rf[j].log /\ s.vote = rf[j].vote
  BY <1>1, <1>4, CheckTerm
<1>7. rf[j].currentTerm \in Nat
  BY <1>4, GoodFields
<1>8. T >= s.currentTerm /\ s.votedFor \in {Nil, i} /\ upToDate(s, m)
  BY <1>2, <1>3 DEF mayVote
<1>9. Fate(rf[j], s)
  BY <1>1, <1>4, CheckFate
<1> HIDE DEF s
<1>10. /\ Good(u) /\ u.currentTerm = s.currentTerm /\ u.votedFor = i /\ u.state = s.state
       /\ u.log = s.log /\ u.service = s.service /\ u.vote = s.vote
  BY <1>5, Grant
<1>11. RoleOK(u) /\ NoPromotion(s, u)
  BY <1>5, GrantRole
<1>12. SameLog(s, u)
  BY <1>5, VoteKeepsLog
<1> HIDE DEF u
<1>13. u.currentTerm = T
  BY <1>1, <1>6, <1>7, <1>8, <1>10
<1>14. SameLog(rf[j], u)
  BY <1>5, <1>12 DEF SameLog
<1>15. Fate(rf[j], u)
  <2>1. Fate(s, u)
    BY <1>1, <1>8, <1>10, <1>13 DEF Fate
  <2> QED
    BY <1>4, <1>5, <1>9, <1>10, <2>1, FateTrans
<1>16. NoPromotion(rf[j], u)
  BY <1>5, <1>11 DEF NoPromotion
<1>17. Quiet(s, u)
  <2>1. u.currentTerm >= s.currentTerm
    BY <1>1, <1>10, <1>13
  <2> QED
    BY <1>10, <1>12, <2>1 DEF Quiet, SameLog, Standing, Leading
<1>18. Quiet(rf[j], u)
  BY <1>4, <1>5, <1>10, <1>17, QuietTrans
<1>19. getLastLogTerm(s) = getLastLogTerm(rf[j]) /\ getLastLogIndex(s) = getLastLogIndex(rf[j])
  BY <1>6 DEF getLastLogTerm, getLastLogIndex
<1>20. \/ getLastLogTerm(rf[i]) > getLastLogTerm(rf[j])
       \/ /\ getLastLogTerm(rf[i]) = getLastLogTerm(rf[j])
          /\ getLastLogIndex(rf[i]) >= getLastLogIndex(rf[j])
  BY <1>3, <1>8, <1>19 DEF upToDate
<1>21. u = Granted(j, NewTerm(i), i) /\ u.vote = rf[j].vote
  BY <1>6, <1>10 DEF u, s, Granted
<1> HIDE DEF T
<1>22. u.currentTerm = NewTerm(i)
  BY <1>13 DEF T
<1> QED
  BY <1>10, <1>11, <1>14, <1>15, <1>16, <1>18, <1>20, <1>21, <1>22

(* Types, and lawful fates of terms and votes.                              *)
LEMMA ElectType ==
  ASSUME TypeInv, RoleInv, PromptService, NEW i \in Server, NEW Q \in SUBSET Server, Elect(i, Q)
  PROVE  TypeInv' /\ Fates
<1>1. /\ NewTerm(i) \in Nat \ {0} /\ NewTerm(i) > rf[i].currentTerm /\ rf[i].currentTerm \in Nat
      /\ rf' = [j \in Server |-> IF j = i THEN Winner(rf[i], i)
                                 ELSE IF j \in Q THEN Granted(j, NewTerm(i), i) ELSE rf[j]]
      /\ rf'[i] = Winner(rf[i], i)
      /\ \A j \in Q \ {i} : rf'[j] = Granted(j, NewTerm(i), i)
      /\ \A j \in Server \ Q : rf'[j] = rf[j]
      /\ elected' = elected \cup {<<NewTerm(i), i>>}
      /\ votes' = votes \cup {<<NewTerm(i), j, i>> : j \in Q}
      /\ UNCHANGED <<msgs, restarts, applied>>
  BY ElectEffect
<1>2. ASSUME NEW j \in Server
      PROVE  Good(rf'[j]) /\ Fate(rf[j], rf'[j])
  <2>1. CASE j = i
    <3>1. Good(rf[i]) /\ NewTerm(i) = rf[i].currentTerm + 1
      BY DEF TypeInv, TypeRf, NewTerm
    <3>2. Good(Winner(rf[i], i)) /\ Winner(rf[i], i).currentTerm = rf[i].currentTerm + 1
      BY <3>1, WinnerFields
    <3> QED
      BY <1>1, <2>1, <3>2 DEF Fate
  <2>2. CASE j \in Q \ {i}
    BY <1>1, <2>2, ElectVoter
  <2>3. CASE j \in Server \ (Q \cup {i})
    <3>1. rf'[j] = rf[j] /\ Good(rf[j])
      BY <1>1, <2>3 DEF TypeInv, TypeRf
    <3>2. rf[j].currentTerm \in Nat
      BY <3>1, GoodFields
    <3> QED
      BY <3>1, <3>2 DEF Fate
  <2> QED
    BY <2>1, <2>2, <2>3
<1>3. rf' = [j \in Server |-> rf'[j]]
  BY <1>1
<1>4. TypeRf'
  BY <1>2, <1>3 DEF TypeRf
<1>5. TypeRest'
  <2>1. \A m \in msgs' : MsgOK(m)
    BY <1>1 DEF TypeInv, TypeRest
  <2>2. elected' \subseteq Nat \X Server
    BY <1>1 DEF TypeInv, TypeRest
  <2>3. votes' \subseteq Nat \X Server \X Server
    BY <1>1 DEF TypeInv, TypeRest
  <2> QED
    BY <1>1, <2>1, <2>2, <2>3 DEF TypeInv, TypeRest
<1> QED
  BY <1>2, <1>4, <1>5 DEF TypeInv, Fates

(* Votes: each peer of the majority votes for the first time in the term,   *)
(* or again for the same candidate.                                         *)
LEMMA ElectVotes ==
  ASSUME TypeInv, RoleInv, PromptService, VoteInv, Traffic,
         NEW i \in Server, NEW Q \in SUBSET Server, Elect(i, Q)
  PROVE  VoteInv'
<1> DEFINE T == NewTerm(i)
<1>1. /\ T \in Nat \ {0} /\ T > rf[i].currentTerm /\ rf[i].currentTerm \in Nat
      /\ i \in Q /\ Majority(Q)
      /\ rf'[i] = Winner(rf[i], i)
      /\ \A j \in Q \ {i} : rf'[j] = Granted(j, T, i)
      /\ \A j \in Server \ Q : rf'[j] = rf[j]
      /\ elected' = elected \cup {<<T, i>>}
      /\ votes' = votes \cup {<<T, j, i>> : j \in Q}
      /\ msgs' = msgs
  BY ElectEffect
<1>2. TypeInv' /\ Fates
  BY ElectType
<1>3. OneVote /\ VotesKept /\ Ballots /\ Winners
  BY DEF VoteInv
<1>4. \A v \in votes : v[1] \in Nat /\ v[2] \in Server /\ v[3] \in Server /\ Kept(v, rf'[v[2]])
  BY <1>2, <1>3, StillKept
<1>5. ASSUME NEW j \in Q
      PROVE  rf'[j].currentTerm = T /\ rf'[j].votedFor = i
  <2>1. CASE j = i
    <3>1. Good(rf[i]) /\ T = rf[i].currentTerm + 1
      BY DEF TypeInv, TypeRf, NewTerm
    <3> QED
      BY <1>1, <2>1, <3>1, WinnerFields
  <2>2. CASE j # i
    BY <1>1, <2>2, ElectVoter
  <2> QED
    BY <2>1, <2>2
<1>6. ASSUME NEW j \in Server
      PROVE  rf'[j].vote = rf[j].vote /\ rf'[j].currentTerm >= rf[j].currentTerm
  <2>1. rf'[j].currentTerm >= rf[j].currentTerm
    BY <1>2 DEF Fates, Fate
  <2>2. CASE j = i
    <3>1. Good(rf[i])
      BY DEF TypeInv, TypeRf
    <3> QED
      BY <1>1, <2>1, <2>2, <3>1, WinnerFields
  <2>3. CASE j \in Q \ {i}
    BY <1>1, <2>1, <2>3, ElectVoter
  <2>4. CASE j \notin Q
    BY <1>1, <2>1, <2>4
  <2> QED
    BY <2>2, <2>3, <2>4
<1> HIDE DEF T
<1>7. OneVote'
  <2> SUFFICES ASSUME NEW v \in votes', NEW w \in votes', v[1] = w[1], v[2] = w[2]
               PROVE  v[3] = w[3]
    BY DEF OneVote
  <2>1. \A x \in votes' \ votes : x[1] = T /\ x[2] \in Q /\ x[3] = i
    BY <1>1
  <2>2. ASSUME NEW x \in votes, x[1] = T, x[2] \in Q
        PROVE  x[3] = i
    <3>1. Kept(x, rf'[x[2]])
      BY <1>4
    <3> QED
      BY <1>1, <1>5, <2>2, <3>1 DEF Kept
  <2>3. CASE v \in votes /\ w \in votes
    BY <1>3, <2>3 DEF OneVote
  <2> QED
    BY <2>1, <2>2, <2>3
<1>8. VotesKept'
  <2> SUFFICES ASSUME NEW v \in votes'
               PROVE  Kept(v, rf'[v[2]])
    BY DEF VotesKept
  <2>1. CASE v \in votes
    BY <1>4, <2>1
  <2>2. CASE v \notin votes
    <3>1. PICK j \in Q : v = <<T, j, i>>
      BY <1>1, <2>2
    <3>2. v[1] = T /\ v[2] = j /\ v[3] = i
      BY <3>1
    <3> QED
      BY <1>5, <3>2 DEF Kept
  <2> QED
    BY <2>1, <2>2
<1>9. Requests' /\ Replies'
  BY <1>1 DEF Traffic, Requests, Replies
<1>10. Ballots'
  <2> SUFFICES ASSUME NEW j \in Server
               PROVE  /\ rf'[j].vote.term <= rf'[j].currentTerm
                      /\ rf'[j].vote.term > 0 => <<rf'[j].vote.term, j, j>> \in votes'
                      /\ \A k \in rf'[j].vote.voteRecord : <<rf'[j].vote.term, k, j>> \in votes'
    BY DEF Ballots
  <2>1. /\ rf[j].vote.term <= rf[j].currentTerm
        /\ rf[j].vote.term > 0 => <<rf[j].vote.term, j, j>> \in votes
        /\ \A k \in rf[j].vote.voteRecord : <<rf[j].vote.term, k, j>> \in votes
    BY <1>3 DEF Ballots
  <2>2. rf[j].vote.term \in Nat /\ rf[j].currentTerm \in Nat
    BY VoteTypes DEF TypeInv
  <2>3. rf'[j].currentTerm \in Nat
    BY <1>2, GoodFields DEF TypeInv, TypeRf
  <2>4. votes \subseteq votes'
    BY <1>1
  <2>5. rf[j].vote.term <= rf'[j].currentTerm
    BY <1>6, <2>1, <2>2, <2>3
  <2> QED
    BY <1>6, <2>1, <2>4, <2>5
<1>11. Winners'
  <2> SUFFICES ASSUME NEW e \in elected'
               PROVE  HasMajority(e)'
    BY DEF Winners
  <2>1. CASE e \in elected
    <3>1. HasMajority(e) /\ votes \subseteq votes'
      BY <1>1, <1>3, <2>1 DEF Winners
    <3> QED
      BY <3>1, WinnersKept
  <2>2. CASE e \notin elected
    <3>1. e = <<T, i>> /\ e[1] = T /\ e[2] = i
      BY <1>1, <2>2
    <3>2. \A j \in Q : <<e[1], j, e[2]>> \in votes'
      BY <1>1, <3>1
    <3>3. Majority(Q)'
      BY <1>1 DEF Majority
    <3> QED
      BY <3>2, <3>3 DEF HasMajority
  <2> QED
    BY <2>1, <2>2
<1> QED
  BY <1>7, <1>8, <1>9, <1>10, <1>11 DEF VoteInv

(* Roles: the winner is in its loop, a voter in the one that fits.          *)
LEMMA ElectRoles ==
  ASSUME TypeInv, RoleInv, PromptService, NEW i \in Server, NEW Q \in SUBSET Server, Elect(i, Q)
  PROVE  RoleInv'
<1>1. /\ rf'[i] = Winner(rf[i], i) /\ i \in Q /\ CanLock(i)
      /\ \A j \in Q \ {i} : rf'[j] = Granted(j, NewTerm(i), i)
      /\ \A j \in Server \ Q : rf'[j] = rf[j]
      /\ elected' = elected \cup {<<NewTerm(i), i>>}
  BY ElectEffect
<1> SUFFICES ASSUME NEW j \in Server
             PROVE  RoleOK(rf'[j]) /\ (rf'[j].state = "leader" => <<rf'[j].currentTerm, j>> \in elected')
  BY DEF RoleInv, Won
<1>2. RoleOK(rf[j]) /\ (rf[j].state = "leader" => <<rf[j].currentTerm, j>> \in elected)
  BY DEF RoleInv, Won
<1>3. CASE j = i
  <2>1. Good(rf[i]) /\ rf[i].mutex = Nil /\ rf[i].convertState = Nil
    BY <1>1 DEF TypeInv, TypeRf, CanLock
  <2>2. /\ rf'[i].mutex = Nil /\ rf'[i].convertState = Nil /\ rf'[i].state = "leader"
        /\ rf'[i].service = "leader" /\ rf'[i].currentTerm = NewTerm(i)
    BY <1>1, <2>1, WinnerFields DEF NewTerm
  <2> QED
    BY <1>1, <1>3, <2>2 DEF RoleOK
<1>4. CASE j \in Q \ {i}
  <2>1. RoleOK(rf'[j]) /\ NoPromotion(rf[j], rf'[j])
    BY <1>1, <1>4, ElectVoter
  <2> QED
    BY <1>1, <1>2, <2>1 DEF NoPromotion
<1>5. CASE j \notin Q
  BY <1>1, <1>2, <1>5
<1> QED
  BY <1>1, <1>3, <1>4, <1>5

(* Nobody has won the term of the election before.                          *)
LEMMA FirstWinner ==
  ASSUME TypeInv, RoleInv, PromptService, VoteInv, NEW L, LogInv(L),
         NEW i \in Server, NEW Q \in SUBSET Server, Elect(i, Q), NEW k \in Server
  PROVE  <<NewTerm(i), k>> \notin elected
<1> DEFINE T == NewTerm(i)
<1> SUFFICES ASSUME <<T, k>> \in elected
             PROVE  FALSE
  OBVIOUS
<1>1. /\ T \in Nat \ {0} /\ T > rf[i].currentTerm /\ rf[i].currentTerm \in Nat
      /\ Majority(Q) /\ rf'[i] = Winner(rf[i], i)
      /\ \A j \in Q \ {i} : rf'[j] = Granted(j, T, i)
  BY ElectEffect
<1>2. VotesKept /\ HasMajority(<<T, k>>)
  BY DEF VoteInv, Winners
<1>3. PICK P \in SUBSET Server : Majority(P) /\ \A j \in P : <<T, j, k>> \in votes
  BY <1>2 DEF HasMajority
<1>4. PICK j \in P \cap Q : TRUE
  BY <1>1, <1>3, MajoritiesMeet
<1>5. Kept(<<T, j, k>>, rf[j])
  BY <1>2, <1>3, <1>4 DEF VotesKept
<1>6. j # i
  <2>1. ~(rf[i].currentTerm > T) /\ rf[i].currentTerm # T
    BY <1>1
  <2> QED
    BY <1>5, <2>1 DEF Kept
<1>7. Fate(rf[j], rf'[j]) /\ rf'[j].currentTerm = T /\ rf'[j].votedFor = i
  BY <1>1, <1>4, <1>6, ElectVoter
<1>8. rf[j].currentTerm \in Nat
  BY GoodFields DEF TypeInv, TypeRf
<1>9. rf[j].votedFor = k /\ rf[j].votedFor \in {Nil, i}
  <2>1. rf[j].currentTerm <= T
    BY <1>1, <1>7, <1>8 DEF Fate
  <2>2. rf[j].currentTerm = T /\ rf[j].votedFor = k
    BY <1>1, <1>5, <1>8, <2>1 DEF Kept
  <2> QED
    BY <1>1, <1>7, <1>8, <2>2 DEF Fate
<1>10. k = i
  BY <1>9, NilAssumption
<1>11. T <= rf[i].currentTerm
  BY <1>1, <1>10 DEF LogInv, PeerLog
<1> QED
  BY <1>1, <1>11

(* The other peers take a quiet step, or none.                              *)
LEMMA ElectOthers ==
  ASSUME TypeInv, RoleInv, PromptService, NEW i \in Server, NEW Q \in SUBSET Server, Elect(i, Q),
         NEW j \in Server, j # i
  PROVE  Good(rf[j]) /\ Good(rf'[j]) /\ Quiet(rf[j], rf'[j]) /\ SameLog(rf[j], rf'[j])
<1>1. /\ \A k \in Q \ {i} : rf'[k] = Granted(k, NewTerm(i), i)
      /\ \A k \in Server \ Q : rf'[k] = rf[k]
  BY ElectEffect
<1>2. Good(rf[j])
  BY DEF TypeInv, TypeRf
<1>3. CASE j \in Q
  BY <1>1, <1>2, <1>3, ElectVoter
<1>4. CASE j \notin Q
  BY <1>1, <1>2, <1>4, QuietSame DEF SameLog
<1> QED
  BY <1>3, <1>4

(* Logs: the winner brings the history of its term.                         *)
LEMMA ElectLogs ==
  ASSUME TypeInv, RoleInv, PromptService, VoteInv, NEW L, LogInv(L),
         NEW i \in Server, NEW Q \in SUBSET Server, Elect(i, Q),
         NEW M, M = Extended(L, NewTerm(i), rf[i].log)
  PROVE  /\ L[NewTerm(i)] = <<>> /\ LogInv(M)'
         /\ M \in Histories /\ Grows(L, M) /\ M[NewTerm(i)] = rf[i].log
         /\ \A v \in Nat : v # NewTerm(i) => M[v] = L[v]
<1> DEFINE s == rf[i]
           T == NewTerm(i)
           F == elected \cup {<<T, i>>}
           u == rf'[i]
<1>0. /\ TypeRf /\ Good(s) /\ Ledger(L, elected) /\ L \in Histories
      /\ \A j \in Server : PeerLog(L, elected, j, rf[j]) /\ Good(rf[j])
      /\ \A x \in msgs : MsgLog(L, elected, x) /\ MsgOK(x)
  BY DEF TypeInv, TypeRf, TypeRest, LogInv, Ledger
<1>1. /\ T \in Nat \ {0} /\ T > s.currentTerm /\ s.currentTerm \in Nat
      /\ u = Winner(s, i) /\ elected' = F /\ msgs' = msgs
  BY ElectEffect
<1>2. s.log \in Seq(logEntry) /\ Indexed(s.log) /\ Len(s.log) \in Nat
  BY <1>0, GoodFields DEF Good
<1>3. \A j \in Server : <<T, j>> \notin elected
  BY FirstWinner
<1>4. /\ u.log = s.log /\ u.currentTerm = T /\ u.state = "leader"
      /\ u.service = "leader" /\ \A p \in Server : u.nextIndex[p] = Len(s.log)
  BY <1>0, <1>1, WinnerFields DEF NewTerm
<1> HIDE DEF T, s, u
<1>5. L[T] = <<>>
  BY <1>0, <1>1, <1>3 DEF Ledger
<1>6. Agree(L[T], s.log, Len(L[T]))
  BY <1>2, <1>5 DEF Agree
<1>7. M = Extended(L, T, s.log)
  BY DEF T, s
<1>8. /\ M \in Histories /\ Grows(L, M) /\ M[T] = s.log
      /\ \A v \in Nat : v # T => M[v] = L[v]
  BY <1>0, <1>1, <1>2, <1>6, <1>7, ExtendedGrows
<1>9. LogOK(M, s.log, T)
  <2>1. PeerLog(L, elected, i, s) /\ s.currentTerm <= T
    BY <1>0, <1>1 DEF s
  <2>2. LogOK(L, s.log, s.currentTerm)
    BY <2>1 DEF PeerLog
  <2> QED
    BY <1>0, <1>1, <1>2, <1>8, <2>1, <2>2, LogOKGrows
<1>10. Ledger(M, F)
  BY <1>0, <1>1, <1>2, <1>6, <1>7, <1>9, Extend
<1> HIDE DEF F
<1>11. PeerLog(M, F, i, u)
  <2>1. ~Standing(u)
    BY <1>4 DEF Standing
  <2>2. ASSUME NEW t \in Nat, <<t, i>> \in F
        PROVE  t <= u.currentTerm
    <3>1. CASE <<t, i>> \in elected
      <4>1. t <= s.currentTerm
        BY <1>0, <3>1 DEF PeerLog, s
      <4> QED
        BY <1>1, <1>4, <4>1
    <3>2. CASE <<t, i>> = <<T, i>>
      BY <1>1, <1>4, <3>2
    <3> QED
      BY <2>2, <3>1, <3>2 DEF F
  <2>3. \A p \in Server : u.nextIndex[p] <= Len(u.log)
    BY <1>2, <1>4
  <2> QED
    BY <1>4, <1>8, <1>9, <2>1, <2>2, <2>3 DEF PeerLog
<1>12. ASSUME NEW j \in Server, j # i
       PROVE  PeerLog(M, F, j, rf'[j])
  <2>1. Good(rf[j]) /\ Good(rf'[j]) /\ Quiet(rf[j], rf'[j])
    BY <1>12, ElectOthers
  <2>2. PeerLog(L, elected, j, rf[j]) /\ L \in Histories
    BY <1>0
  <2>3. PeerLog(L, elected, j, rf'[j])
    BY <2>1, <2>2, QuietPeer
  <2>4. rf'[j].state = "leader" => M[rf'[j].currentTerm] = L[rf'[j].currentTerm]
    <3>1. rf'[j].state = "leader" => <<rf'[j].currentTerm, j>> \in elected
      BY <2>1 DEF RoleInv, Won, Quiet
    <3>2. rf'[j].currentTerm \in Nat
      BY <2>1, GoodFields
    <3> QED
      BY <1>3, <1>8, <3>1, <3>2
  <2>5. \A t \in Nat : <<t, j>> \in F => t <= rf'[j].currentTerm
    BY <1>12, <2>3 DEF PeerLog, F
  <2>6. Standing(rf'[j]) => <<rf'[j].currentTerm, j>> \notin F
    BY <1>12, <2>3 DEF PeerLog, F
  <2> QED
    BY <1>0, <1>8, <2>1, <2>3, <2>4, <2>5, <2>6, PeerLogGrows
<1>13. \A x \in msgs' : MsgLog(M, F, x)
  <2> TAKE x \in msgs'
  <2>1. MsgOK(x) /\ MsgLog(L, elected, x)
    BY <1>0, <1>1
  <2>2. elected \subseteq F
    BY DEF F
  <2> QED
    BY <1>0, <1>8, <2>1, <2>2, MsgLogGrows
<1>14. LogInv(M)'
  BY <1>1, <1>10, <1>11, <1>12, <1>13 DEF LogInv, u
<1> QED
  BY <1>5, <1>8, <1>14 DEF T, s

(* The winner's log carries what can still matter: what somebody in the     *)
(* majority had held is in it or closed, and anything else is closed by     *)
(* this very majority.                                                      *)
LEMMA ElectCarries ==
  ASSUME TypeInv, RoleInv, PromptService, NEW L, LogInv(L), NEW A, SafeInv(L, A),
         NEW i \in Server, NEW Q \in SUBSET Server, Elect(i, Q), Later(rf, rf'),
         NEW t \in Nat, NEW n \in Nat, t < NewTerm(i)
  PROVE  Carries(L, A, rf', rf[i].log, t, n)
<1> DEFINE T == NewTerm(i)
<1>0. /\ Ledger(L, elected) /\ Elects(L, A, rf) /\ Accepts(L, A, rf) /\ A \subseteq Held
      /\ Good(rf[i]) /\ LogOK(L, rf[i].log, rf[i].currentTerm)
      /\ \A j \in Server : Good(rf[j]) /\ LogOK(L, rf[j].log, rf[j].currentTerm)
  BY DEF LogInv, PeerLog, SafeInv, TypeInv, TypeRf
<1>1. /\ T \in Nat \ {0} /\ i \in Q /\ Majority(Q)
      /\ rf'[i] = Winner(rf[i], i)
      /\ \A j \in Q \ {i} : rf'[j] = Granted(j, T, i)
  BY ElectEffect
<1>2. Fresh(rf, A, A)
  BY <1>0 DEF Fresh
<1>3. Closed(rf, A, t, n) => Closed(rf', A, t, n)
  BY <1>2, ClosedStays
<1>4. CASE \E v \in Q : <<v, t, n>> \in A
  <2>1. PICK v \in Q : <<v, t, n>> \in A
    BY <1>4
  <2>2. Carries(L, A, rf, rf[v].log, t, n) /\ v \in Server
    BY <1>0, <2>1 DEF Accepts
  <2>3. Has(rf[v].log, t, n) => Has(rf[i].log, t, n) \/ Closed(rf, A, t, n)
    <3>1. CASE v = i
      BY <3>1
    <3>2. CASE v # i
      <4>1. \/ getLastLogTerm(rf[i]) > getLastLogTerm(rf[v])
            \/ /\ getLastLogTerm(rf[i]) = getLastLogTerm(rf[v])
               /\ getLastLogIndex(rf[i]) >= getLastLogIndex(rf[v])
        BY <3>2, ElectVoter
      <4>2. /\ rf[i].log \in Seq(logEntry) /\ Len(rf[i].log) > 0
            /\ getLastLogIndex(rf[i]) = Len(rf[i].log) - 1 /\ Len(rf[i].log) \in Nat
        BY <1>0, GoodFields, LogShape
      <4>3. /\ rf[v].log \in Seq(logEntry) /\ Len(rf[v].log) > 0
            /\ getLastLogIndex(rf[v]) = Len(rf[v].log) - 1 /\ Len(rf[v].log) \in Nat
        BY <1>0, <2>2, GoodFields, LogShape
      <4>4. \/ getLastLogTerm(rf[i]) > getLastLogTerm(rf[v])
            \/ getLastLogTerm(rf[i]) = getLastLogTerm(rf[v]) /\ Len(rf[i].log) >= Len(rf[v].log)
        BY <4>1, <4>2, <4>3
      <4>5. \/ rf[i].log[Len(rf[i].log)].Term > rf[v].log[Len(rf[v].log)].Term
            \/ /\ rf[i].log[Len(rf[i].log)].Term = rf[v].log[Len(rf[v].log)].Term
               /\ Len(rf[i].log) >= Len(rf[v].log)
        BY <4>4 DEF getLastLogTerm
      <4>6. Copied(L, rf[i].log) /\ Copied(L, rf[v].log) /\ Ordered(rf[v].log)
        BY <1>0, <2>2 DEF LogOK
      <4> QED
        BY <1>0, <4>2, <4>3, <4>5, <4>6, UpToDateCarries
    <3> QED
      BY <3>1, <3>2
  <2> QED
    BY <1>3, <2>2, <2>3 DEF Carries
<1>5. CASE \A v \in Q : <<v, t, n>> \notin A
  <2>1. ASSUME NEW v \in Q
        PROVE  rf'[v].currentTerm > t
    <3>1. rf'[v].currentTerm = T
      <4>1. CASE v = i
        BY <1>0, <1>1, <4>1, WinnerFields DEF NewTerm
      <4>2. CASE v # i
        BY <1>1, <4>2, ElectVoter
      <4> QED
        BY <4>1, <4>2
    <3> QED
      BY <1>1, <3>1
  <2>2. Closed(rf', A, t, n)
    BY <1>1, <1>5, <2>1 DEF Closed
  <2> QED
    BY <2>2 DEF Carries
<1> QED
  BY <1>4, <1>5

(* Nobody is left a candidate.                                              *)
LEMMA ElectStands ==
  ASSUME TypeInv, RoleInv, PromptService, NobodyStands,
         NEW i \in Server, NEW Q \in SUBSET Server, Elect(i, Q)
  PROVE  NobodyStands'
<1> SUFFICES ASSUME NEW j \in Server PROVE ~Standing(rf'[j])
  BY DEF NobodyStands
<1>1. CASE j = i
  <2>1. rf'[i] = Winner(rf[i], i) /\ Good(rf[i])
    BY ElectEffect DEF TypeInv, TypeRf
  <2>2. rf'[i].state = "leader"
    BY <2>1, WinnerFields
  <2> QED
    BY <1>1, <2>2 DEF Standing
<1>2. CASE j # i
  BY <1>2, ElectOthers DEF Quiet, NobodyStands
<1> QED
  BY <1>1, <1>2

(* An election keeps what makes committed entries last.                     *)
LEMMA ElectSafe ==
  ASSUME TypeInv, RoleInv, PromptService, VoteInv, Traffic, NobodyStands,
         NEW L, LogInv(L), NEW A, SafeInv(L, A),
         NEW i \in Server, NEW Q \in SUBSET Server, Elect(i, Q)
  PROVE  \E M : LogInv(M)' /\ SafeInv(M, A)'
<1> DEFINE s == rf[i]
           T == NewTerm(i)
           u == rf'[i]
<1>p. PICK M : M = Extended(L, NewTerm(i), rf[i].log)
  OBVIOUS
<1>0. /\ L \in Histories /\ Ledger(L, elected) /\ Good(s) /\ SafePeer(L, A, i, s)
      /\ A \subseteq Held /\ Elects(L, A, rf) /\ Accepts(L, A, rf) /\ PeerLog(L, elected, i, s)
      /\ \A x \in msgs : SafeMsg(L, A, rf, x) /\ MsgOK(x)
      /\ \A j \in Server : SafePeer(L, A, j, rf[j]) /\ Good(rf[j])
      /\ \A a \in applied : AppliedOK(L, A, a) /\ a \in [term : Nat, entry : logEntry]
  BY DEF LogInv, Ledger, TypeInv, TypeRf, TypeRest, SafeInv
<1>1. /\ T \in Nat \ {0} /\ T > s.currentTerm /\ s.currentTerm \in Nat
      /\ u = Winner(s, i) /\ msgs' = msgs /\ applied' = applied
  BY ElectEffect
<1>2. /\ LogInv(M)' /\ M \in Histories /\ Grows(L, M) /\ M[T] = s.log
      /\ \A v \in Nat : v # T => M[v] = L[v]
  BY <1>p, ElectLogs
<1>3. /\ Good(u) /\ u.log = s.log /\ u.currentTerm = T /\ u.state = "leader"
      /\ u.commitIndex = s.commitIndex /\ \A p \in Server : u.matchIndex[p] = 0
  BY <1>0, <1>1, WinnerFields DEF NewTerm
<1>4. /\ TypeInv' /\ Fates /\ VoteInv' /\ NobodyStands'
  BY ElectType, ElectVotes, ElectStands
<1>5. Later(rf, rf') /\ Fresh(rf, A, A)
  <2>1. \A j \in Server : rf[j].currentTerm \in Nat
    BY <1>0, GoodFields
  <2>2. \A j \in Server : rf'[j].currentTerm \in Nat
    BY <1>4, GoodFields DEF TypeInv, TypeRf
  <2> QED
    BY <1>0, <1>4, <2>1, <2>2 DEF Later, Fresh, Fates, Fate
<1>6. s.log \in Seq(logEntry) /\ s.commitIndex \in Nat /\ Len(s.log) \in Nat
  BY <1>0, GoodFields
<1>7. \A n \in Nat : ~Has(s.log, T, n)
  <2> SUFFICES ASSUME NEW n \in Nat, Has(s.log, T, n)
               PROVE  FALSE
    OBVIOUS
  <2>1. n + 1 \in 1..Len(s.log) /\ s.log[n + 1].Term = T
    BY <1>6 DEF Has
  <2>2. T <= s.currentTerm
    BY <1>0, <2>1 DEF PeerLog, LogOK
  <2> QED
    BY <1>1, <2>2
<1>8. \A t \in Nat, n \in Nat : Own(M, t, n) => t # T /\ Own(L, t, n)
  BY <1>2, <1>7 DEF Own
<1>9. Accepts(M, A, rf')
  <2> SUFFICES ASSUME NEW j \in Server, NEW t \in Nat, NEW n \in Nat, <<j, t, n>> \in A
               PROVE  /\ t <= rf'[j].currentTerm /\ n < Len(M[t])
                      /\ Carries(M, A, rf', rf'[j].log, t, n)
    BY DEF Accepts
  <2>1. t <= rf[j].currentTerm /\ n < Len(L[t]) /\ Carries(L, A, rf, rf[j].log, t, n)
    BY <1>0 DEF Accepts
  <2>2. t <= rf'[j].currentTerm
    BY <1>5, <2>1 DEF Later
  <2>3. n < Len(M[t])
    <3>1. Len(L[t]) <= Len(M[t]) /\ Len(L[t]) \in Nat
      BY <1>0, <1>2, HistoryType DEF Grows, Agree
    <3>2. Len(M[t]) \in Nat
      BY <1>2, HistoryType
    <3> QED
      BY <2>1, <3>1, <3>2
  <2>4. rf'[j].log = rf[j].log
    <3>1. CASE j = i
      BY <1>3, <3>1
    <3>2. CASE j # i
      BY <3>2, ElectOthers DEF SameLog
    <3> QED
      BY <3>1, <3>2
  <2>5. Carries(M, A, rf', rf'[j].log, t, n)
    BY <1>0, <1>2, <1>5, <1>8, <2>1, <2>4, CarriesStays
  <2> QED
    BY <2>2, <2>3, <2>5
<1>10. Elects(M, A, rf')
  <2> SUFFICES ASSUME NEW w \in Nat, NEW t \in Nat, NEW n \in Nat, t < w /\ M[w] # <<>>
               PROVE  Carries(M, A, rf', M[w], t, n)
    BY DEF Elects
  <2>1. CASE w = T
    <3>1. Carries(L, A, rf', s.log, t, n)
      BY <1>5, <2>1, ElectCarries
    <3> QED
      BY <1>2, <1>8, <2>1, <3>1 DEF Carries
  <2>2. CASE w # T
    <3>1. Carries(L, A, rf, M[w], t, n)
      BY <1>0, <1>2, <2>2 DEF Elects
    <3> QED
      BY <1>0, <1>2, <1>5, <1>8, <3>1, CarriesStays
  <2> QED
    BY <2>1, <2>2
<1>11. ASSUME NEW U \in Nat, NEW v \in Server, NEW c \in Server, <<U, v, c>> \in votes'
       PROVE  Supports(M, A, rf', U, v, c)
  <2>1. U <= rf'[c].currentTerm
    <3>1. CASE <<U, v, c>> \in votes
      <4>1. U <= rf[c].currentTerm
        BY <3>1 DEF SafeInv, Supports
      <4> QED
        BY <1>5, <4>1 DEF Later
    <3>2. CASE <<U, v, c>> \notin votes
      <4>1. U = T /\ c = i
        BY <1>11, <3>2, ElectEffect
      <4> QED
        BY <1>1, <1>3, <4>1
    <3> QED
      BY <3>1, <3>2
  <2>2. ~Standing(rf'[c])
    BY <1>4 DEF NobodyStands
  <2> QED
    BY <2>1, <2>2 DEF Supports
<1>12. ASSUME NEW m \in msgs'
       PROVE  SafeMsg(M, A, rf', m)
  <2>0. m \in msgs /\ MsgOK(m) /\ SafeMsg(L, A, rf, m)
    BY <1>0, <1>1
  <2>1. m.type \in {"AppendEntries", "AppendEntriesReply"}
    BY <2>0 DEF Traffic
  <2>2. CASE m.type = "AppendEntries"
    <3>1. m.Term \in Nat /\ m.LeaderCommit \in Nat
      BY <2>0, <2>2, AppendArgsFields
    <3> DEFINE l == L[m.Term]
               k == M[m.Term]
    <3>2. l \in Seq(logEntry) /\ k \in Seq(logEntry) /\ Agree(l, k, Len(l))
      BY <1>0, <1>2, <3>1, HistoryType DEF Grows
    <3>3. CommitOK(L, A, l, m.Term, m.LeaderCommit)
      BY <2>0, <2>2 DEF SafeMsg
    <3> HIDE DEF l, k
    <3>4. \A p \in Nat : Agree(l, l, p) => Agree(k, l, p)
      BY <3>2 DEF Agree
    <3>5. CommitOK(M, A, k, m.Term, m.LeaderCommit)
      BY <1>0, <1>2, <3>1, <3>2, <3>3, <3>4, CommitStays
    <3> QED
      BY <2>2, <3>5 DEF SafeMsg, k
  <2>3. CASE m.type = "AppendEntriesReply"
    BY <2>0, <2>3 DEF SafeMsg
  <2> QED
    BY <2>1, <2>2, <2>3
<1>13. ASSUME NEW j \in Server
       PROVE  SafePeer(M, A, j, rf'[j])
  <2>1. SafePeer(M, A, j, rf[j])
    BY <1>0, <1>2, PeerStays
  <2>2. CASE j = i
    <3>1. CommitOK(M, A, s.log, s.currentTerm, s.commitIndex)
      BY <2>1, <2>2 DEF SafePeer
    <3>2. CommitOK(M, A, s.log, T, s.commitIndex)
      BY <1>1, <1>3, <3>1 DEF CommitOK
    <3>3. \A k \in Nat \ {0} : ~Has(u.log, u.currentTerm, k)
      BY <1>3, <1>7
    <3>4. \A p \in Server : u.matchIndex[p] = 0 /\ 1..0 = {}
      BY <1>3
    <3> QED
      BY <1>3, <2>2, <3>2, <3>3, <3>4 DEF SafePeer
  <2>3. CASE j # i
    <3>1. Good(rf[j]) /\ Good(rf'[j]) /\ Quiet(rf[j], rf'[j])
      BY <2>3, ElectOthers
    <3> QED
      BY <1>2, <2>1, <3>1, QuietSafePeer
  <2> QED
    BY <2>2, <2>3
<1>14. \A a \in applied' : AppliedOK(M, A, a)
  BY <1>0, <1>1, <1>2, AppliedStays
<1>15. SafeInv(M, A)'
  BY <1>0, <1>9, <1>10, <1>11, <1>12, <1>13, <1>14 DEF SafeInv
<1> QED
  BY <1>2, <1>15

-----------------------------------------------------------------------------
(* The service.                                                             *)

(* A set that holds 0 and with n also n + 1, as far as N, holds all of them. *)
LEMMA AsFarAs ==
  ASSUME NEW N \in Nat, NEW S, 0 \in S, \A n \in 0..N : n < N /\ n \in S => n + 1 \in S
  PROVE  0..N \subseteq S
<1> DEFINE D == {n \in 0..N : n \notin S}
<1>1. SUFFICES ASSUME D # {} PROVE FALSE
  OBVIOUS
<1>2. D \in SUBSET Nat
  OBVIOUS
<1>3. PICK n \in D : \A k \in D : n <= k
  BY <1>1, <1>2, MinNat
<1>4. n \in 0..N /\ n # 0
  BY <1>3
<1>5. n - 1 \in 0..N /\ n - 1 < N /\ (n - 1) + 1 = n /\ n - 1 \notin D
  BY <1>3, <1>4
<1> QED
  BY <1>3, <1>5

(* One entry leaves no compaction behind.                                   *)
LEMMA FinishPlain ==
  ASSUME maxraftstate = -1, NEW k, NoCompaction(k), NEW e, NEW size
  PROVE  NoCompaction(finish(k, e, size))
<1> DEFINE x == k.db
           y == k.lastIncludedLogEntry
           z == k.snapshot
           b == k.busy
           d == execute(k.db, e)
           w == [k EXCEPT !.db = d, !.busy = Nil]
<1>1. finish(k, e, size) = w
  BY DEF finish, NoCompaction
<1>2. k = [db |-> x, busy |-> b, lastIncludedLogEntry |-> y,
           compactions |-> {}, snapshot |-> z]
  BY DEF NoCompaction
<1> HIDE DEF x, y, z, d, b
<1> DEFINE R == [db : {x, d}, busy : {b, Nil}, lastIncludedLogEntry : {y},
                 compactions : {{}}, snapshot : {z}]
<1>r. k \in R
  BY <1>2
<1>3a. /\ w \in R /\ w.db = d /\ w.busy = Nil
  BY <1>r
<1> HIDE DEF w
<1>3. w = [db |-> d, busy |-> Nil, lastIncludedLogEntry |-> y, compactions |-> {}, snapshot |-> z]
  BY <1>3a
<1> HIDE DEF w
<1>4. w.db = d /\ w.busy = Nil /\ w.lastIncludedLogEntry = y /\ w.snapshot = z
  BY <1>3
<1> QED
  BY <1>1, <1>3, <1>4 DEF NoCompaction

(* finishAll, entry by entry.                                               *)
Executes(k, es, size, N, g) ==
  g = [n \in 0..N |-> IF n = 0 THEN k ELSE finish(g[n - 1], es[n], size)]

(* The recursion that defines finishAll has a solution.                     *)
LEMMA ExecutesExists ==
  ASSUME NEW k, NEW es, NEW size, NEW N \in Nat
  PROVE  \E g : Executes(k, es, size, N, g)
<1> DEFINE S == {n \in Nat : \E g : Executes(k, es, size, n, g)}
<1>1. 0 \in S
  <2>1. Executes(k, es, size, 0, [n \in 0..0 |-> k])
    BY DEF Executes
  <2> QED
    BY <2>1
<1>2. ASSUME NEW n \in Nat, n \in S
      PROVE  n + 1 \in S
  <2>1. PICK c : Executes(k, es, size, n, c)
    BY <1>2
  <2> DEFINE g(h, x) == IF x = 0 THEN k ELSE finish(h[x - 1], es[x], size)
             d == [x \in 0..(n + 1) |-> g(c, x)]
  <2>2. \A x \in 0..n : c[x] = g(c, x)
    BY <2>1 DEF Executes
  <2>3. \A x \in 0..n : d[x] = c[x]
    BY <2>2
  <2>4. \A x \in 0..(n + 1) : g(d, x) = g(c, x)
    <3> TAKE x \in 0..(n + 1)
    <3>1. CASE x = 0
      BY <3>1
    <3>2. CASE x # 0
      <4>1. x - 1 \in 0..n
        BY <3>2
      <4>2. d[x - 1] = c[x - 1]
        BY <2>3, <4>1
      <4> QED
        BY <3>2, <4>2
    <3> QED
      BY <3>1, <3>2
  <2>5. d = [x \in 0..(n + 1) |-> g(d, x)]
    BY <2>4
  <2>6. Executes(k, es, size, n + 1, d)
    BY <2>5 DEF Executes
  <2> HIDE DEF d
  <2> QED
    BY <2>6
<1> HIDE DEF S
<1>3. 0..N \subseteq S
  BY <1>1, <1>2, AsFarAs
<1> QED
  BY <1>3 DEF S

(* Nor do any number of entries.                                            *)
LEMMA FinishAllPlain ==
  ASSUME maxraftstate = -1, NEW k, NoCompaction(k), NEW es, Len(es) \in Nat, NEW size
  PROVE  NoCompaction(finishAll(k, es, size))
<1> DEFINE N == Len(es)
           g == CHOOSE g : Executes(k, es, size, N, g)
           S == {n \in 0..N : NoCompaction(g[n])}
<1>1. finishAll(k, es, size) = g[N]
  BY DEF finishAll, Executes
<1>2. Executes(k, es, size, N, g)
  BY ExecutesExists
<1> HIDE DEF g, N
<1>3. N \in Nat
  BY DEF N
<1>4. g[0] = k /\ \A n \in 1..N : g[n] = finish(g[n - 1], es[n], size)
  BY <1>2, <1>3 DEF Executes
<1>5. 0 \in S
  BY <1>3, <1>4
<1>6. ASSUME NEW n \in 0..N, n < N, n \in S
      PROVE  n + 1 \in S
  <2>1. n + 1 \in 1..N /\ n + 1 \in 0..N /\ (n + 1) - 1 = n
    BY <1>3, <1>6
  <2>2. g[n + 1] = finish(g[n], es[n + 1], size)
    BY <1>4, <2>1
  <2>3. NoCompaction(g[n + 1])
    BY <1>6, <2>2, FinishPlain
  <2> QED
    BY <2>1, <2>3
<1> HIDE DEF S
<1>7. 0..N \subseteq S
  BY <1>3, <1>5, <1>6, AsFarAs
<1>8. N \in S
  BY <1>3, <1>7
<1> QED
  BY <1>1, <1>8 DEF S

(* What is delivered to the service leaves no compaction behind.            *)
LEMMA DeliversPlain ==
  ASSUME maxraftstate = -1, TypeInv, TypeInv', Uncompacted, NEW i \in Server, Delivers(i)
  PROVE  Uncompacted'
<1> DEFINE numbers == {n \in (rf[i].lastApplied + 1)..rf'[i].lastApplied : hasLogEntry(rf'[i], n)}
           N == Cardinality(numbers)
           entries == [k \in 1..N |-> getLogEntry(rf'[i], Min(numbers) + k - 1)]
           size == Len(rf'[i].raftstate.log)
           f == finishAll(kv[i], Front(entries), size)
<1>1. Good(rf[i]) /\ Good(rf'[i])
  BY DEF TypeInv, TypeRf
<1>2. rf[i].lastApplied \in Nat
  BY <1>1, GoodFields
<1>3. rf'[i].lastApplied \in Nat
  BY <1>1, GoodFields
<1>4. CASE numbers = {}
  BY <1>4 DEF Delivers, Uncompacted
<1>5. CASE numbers # {}
  <2>1. numbers \in SUBSET ((rf[i].lastApplied + 1)..rf'[i].lastApplied) /\ numbers \in SUBSET Nat
    BY <1>2, <1>3
  <2>2. IsFiniteSet((rf[i].lastApplied + 1)..rf'[i].lastApplied)
    <3>1. PICK a \in Int, b \in Int : a = rf[i].lastApplied + 1 /\ b = rf'[i].lastApplied
      BY <1>2, <1>3
    <3> QED
      BY <3>1, FS_Interval
  <2>3. IsFiniteSet(numbers) /\ Min(numbers) \in Nat
    BY <1>5, <2>1, <2>2, FS_Subset, MinNat
  <2>4. N \in Nat \ {0}
    BY <1>5, <2>3, FS_CardinalityType, FS_EmptySet
  <2>5. kv' = [kv EXCEPT ![i] = [f EXCEPT !.busy = Last(entries)]]
    BY <1>5 DEF Delivers, Uncompacted
  <2> HIDE DEF numbers, N
  <2>6. \A k \in 1..N : getLogEntry(rf'[i], Min(numbers) + k - 1) \in logEntry
    <3> TAKE k \in 1..N
    <3>1. Min(numbers) + k - 1 \in Nat
      BY <2>3, <2>4
    <3> QED
      BY <1>1, <3>1, LogShape
  <2>7. entries \in Seq(logEntry) /\ Len(entries) = N
    BY <2>4, <2>6
  <2> HIDE DEF entries
  <2>8. Len(Front(entries)) \in Nat
    <3>1. SubSeq(entries, 1, N - 1) \in Seq(logEntry)
      BY <2>4, <2>7
    <3> QED
      BY <2>7, <3>1 DEF Front
  <2>9. NoCompaction(kv[i])
    BY DEF Uncompacted
  <2>10. NoCompaction(f)
    BY <2>8, <2>9, FinishAllPlain
  <2> HIDE DEF f
  <2>11. NoCompaction([f EXCEPT !.busy = Last(entries)])
    BY <2>10 DEF NoCompaction
  <2> QED
    BY <2>5, <2>11 DEF Uncompacted
<1> QED
  BY <1>4, <1>5

-----------------------------------------------------------------------------
(* What a step does to what has been committed.                             *)

(* The commit index does not go back, and the log up to it stays.           *)
Forward(s, u) == u.commitIndex >= s.commitIndex /\ Agree(s.log, u.log, s.commitIndex + 1)

(* The commit index is that of an entry of the log.                         *)
LEMMA CommitInLog ==
  ASSUME TypeInv, Safe, NEW i \in Server
  PROVE  /\ Good(rf[i]) /\ rf[i].log \in Seq(logEntry) /\ Len(rf[i].log) \in Nat
         /\ rf[i].commitIndex \in Nat /\ rf[i].commitIndex + 1 <= Len(rf[i].log)
<1>1. Good(rf[i])
  BY DEF TypeInv, TypeRf
<1>2. /\ rf[i].log \in Seq(logEntry) /\ Len(rf[i].log) \in Nat \ {0} /\ rf[i].commitIndex \in Nat
  BY <1>1, GoodFields, LogShape
<1>3. PICK L, A : SafeInv(L, A)
  BY DEF Safe
<1>4. CommitOK(L, A, rf[i].log, rf[i].currentTerm, rf[i].commitIndex)
  BY <1>3 DEF SafeInv, SafePeer
<1>5. rf[i].commitIndex + 1 <= Len(rf[i].log)
  BY <1>2, <1>4 DEF CommitOK, Agree
<1> QED
  BY <1>1, <1>2, <1>5

(* A log that stays as it is keeps what is committed.                       *)
LEMMA SameLogForward ==
  ASSUME TypeInv, Safe, NEW i \in Server, NEW u, u.log = rf[i].log,
         u.commitIndex >= rf[i].commitIndex
  PROVE  Forward(rf[i], u)
<1>1. /\ rf[i].log \in Seq(logEntry) /\ Len(rf[i].log) \in Nat
      /\ rf[i].commitIndex \in Nat /\ rf[i].commitIndex + 1 <= Len(rf[i].log)
  BY CommitInLog
<1> QED
  BY <1>1 DEF Forward, Agree

(* No peer changes.                                                         *)
LEMMA StillForward ==
  ASSUME TypeInv, Safe, NobodyStands, rf' = rf
  PROVE  NobodyStands' /\ \A j \in Server : Forward(rf[j], rf'[j])
<1>1. ASSUME NEW j \in Server
      PROVE  Forward(rf[j], rf'[j])
  <2>1. rf[j].commitIndex \in Nat
    BY CommitInLog
  <2> QED
    BY <2>1, SameLogForward
<1> QED
  BY <1>1 DEF NobodyStands

(* One peer changes.                                                        *)
LEMMA OneForward ==
  ASSUME TypeInv, Safe, NobodyStands, NEW i \in Server, NEW u, Update(i, u), ~Standing(u)
  PROVE  /\ NobodyStands'
         /\ Forward(rf[i], u) => \A j \in Server : Forward(rf[j], rf'[j])
<1>1. rf'[i] = u /\ \A j \in Server \ {i} : rf'[j] = rf[j]
  BY DEF TypeInv, TypeRf, Update
<1>2. NobodyStands'
  BY <1>1 DEF NobodyStands
<1>3. ASSUME NEW j \in Server, j # i
      PROVE  Forward(rf[j], rf'[j])
  <2>1. rf[j].commitIndex \in Nat
    BY CommitInLog
  <2> QED
    BY <1>1, <1>3, <2>1, SameLogForward
<1> QED
  BY <1>1, <1>2, <1>3

(* One peer changes, but neither its log nor its commit index.              *)
LEMMA SameForward ==
  ASSUME TypeInv, Safe, NobodyStands, NEW i \in Server, NEW u, Update(i, u),
         Quiet(rf[i], u), SameLog(rf[i], u)
  PROVE  NobodyStands' /\ \A j \in Server : Forward(rf[j], rf'[j])
<1>1. ~Standing(u)
  BY DEF Quiet, NobodyStands
<1>2. rf[i].commitIndex \in Nat
  BY CommitInLog
<1>3. Forward(rf[i], u)
  BY <1>2, SameLogForward DEF SameLog
<1> QED
  BY <1>1, <1>3, OneForward

(* Fewer messages, or replies besides.                                      *)
LEMMA LessTraffic ==
  ASSUME Traffic, \A x \in msgs' : x \in msgs \/ x.type = "AppendEntriesReply"
  PROVE  Traffic'
  BY DEF Traffic

(* The service goroutine, and what the network loses.                       *)
LEMMA ServiceForward ==
  ASSUME TypeInv, Safe, NobodyStands, Traffic, NEW i \in Server,
         \/ FollowerResetsTimer(i) \/ LeaderConverts(i) \/ runAsFollower(i)
         \/ \E m \in msgs : Lose(m)
  PROVE  Traffic' /\ NobodyStands' /\ \A j \in Server : Forward(rf[j], rf'[j])
<1>1. CASE FollowerResetsTimer(i) \/ LeaderConverts(i) \/ runAsFollower(i)
  <2>1. PICK u : /\ Good(u) /\ Update(i, u) /\ Quiet(rf[i], u) /\ SameLog(rf[i], u)
                 /\ UNCHANGED <<msgs, votes, elected, applied>>
    BY <1>1, ServiceQuiet
  <2> QED
    BY <2>1, SameForward, LessTraffic
<1>2. CASE \E m \in msgs : Lose(m)
  <2>1. rf' = rf /\ msgs' \subseteq msgs
    BY <1>2 DEF Lose
  <2> QED
    BY <2>1, StillForward, LessTraffic
<1> QED
  BY <1>1, <1>2

(* A leader appends a command.                                              *)
LEMMA StartForward ==
  ASSUME TypeInv, Safe, NobodyStands, Traffic, NEW i \in Server, NEW command \in Command,
         Start(i, command)
  PROVE  Traffic' /\ NobodyStands' /\ \A j \in Server : Forward(rf[j], rf'[j])
<1> DEFINE s == rf[i]
           e == [Term |-> s.currentTerm, Index |-> getLastLogIndex(s) + 1, Command |-> command]
<1>1. e \in logEntry /\ \E u : /\ Good(u) /\ Update(i, u) /\ SameRole(s, u)
                               /\ u.log = Started(s, command) /\ u.commitIndex = s.commitIndex
  BY StartLog
<1>2. PICK u : /\ Good(u) /\ Update(i, u) /\ SameRole(s, u)
               /\ u.log = Started(s, command) /\ u.commitIndex = s.commitIndex
  BY <1>1
<1>3. u.log = Append(s.log, e)
  BY <1>2 DEF Started
<1> HIDE DEF e
<1>4. /\ s.log \in Seq(logEntry) /\ Len(s.log) \in Nat
      /\ s.commitIndex \in Nat /\ s.commitIndex + 1 <= Len(s.log)
  BY CommitInLog
<1>5. Len(u.log) = Len(s.log) + 1 /\ \A p \in 1..Len(s.log) : u.log[p] = s.log[p]
  BY <1>1, <1>3, <1>4
<1>6. Agree(s.log, u.log, s.commitIndex + 1)
  BY <1>4, <1>5 DEF Agree
<1>7. Forward(s, u)
  BY <1>2, <1>4, <1>6 DEF Forward
<1>8. ~Standing(u)
  BY <1>2 DEF SameRole, Standing, NobodyStands
<1>9. msgs' = msgs
  BY DEF Start
<1> QED
  BY <1>2, <1>7, <1>8, <1>9, OneForward, LessTraffic

(* A leader sends its log from some entry on, to the end, and its commit    *)
(* index is that of an entry of the log.                                    *)
LEMMA SendForward ==
  ASSUME TypeInv, Safe, NobodyStands, Traffic, NEW i \in Server, NEW j \in Server,
         sendAppendEntriesTo(i, j)
  PROVE  Traffic' /\ NobodyStands' /\ \A k \in Server : Forward(rf[k], rf'[k])
<1>1. rf' = rf /\ \E a : msgs' = msgs \cup {a} /\ Piece(rf[i], i, j, a)
  BY SendEffect
<1>2. PICK a : msgs' = msgs \cup {a} /\ Piece(rf[i], i, j, a)
  BY <1>1
<1>3. /\ a.type = "AppendEntries" /\ a.LeaderCommit = rf[i].commitIndex
      /\ a.PrevLogIndex \in Nat /\ a.Entries \in Seq(logEntry)
      /\ a.PrevLogIndex + 1 + Len(a.Entries) = Len(rf[i].log)
  BY <1>2 DEF Piece
<1>4. rf[i].commitIndex \in Nat /\ rf[i].commitIndex + 1 <= Len(rf[i].log)
  BY CommitInLog
<1>5. a.LeaderCommit <= a.PrevLogIndex + Len(a.Entries)
  <2>1. Len(a.Entries) \in Nat
    BY <1>3
  <2> QED
    BY <1>3, <1>4, <2>1
<1>6. Traffic'
  BY <1>2, <1>3, <1>5 DEF Traffic
<1> QED
  BY <1>1, <1>6, StillForward

(* What is committed of the log of a peer that accepts entries is in the    *)
(* log of their sender, so that merging them leaves it alone.               *)
LEMMA AcceptedForward ==
  ASSUME TypeInv, RoleInv, OneWinnerPerTerm, Traffic, NEW L, LogInv(L), NEW A, SafeInv(L, A),
         NEW i \in Server, NEW m \in msgs, AppendEntries(i, m), NEW t, NEW u, Accepted(i, m, t, u)
  PROVE  Forward(rf[i], u)
<1> DEFINE T == m.Term
           s == rf[i]
           c == rf[i].commitIndex
           q == m.PrevLogIndex + 1 + Len(m.Entries)
<1>0. /\ Ledger(L, elected) /\ Elects(L, A, rf) /\ L \in Histories /\ Good(s)
      /\ PeerLog(L, elected, i, s) /\ CommitOK(L, A, s.log, s.currentTerm, c)
      /\ MsgOK(m) /\ m.type = "AppendEntries"
  BY DEF LogInv, Ledger, SafeInv, SafePeer, TypeInv, TypeRf, TypeRest, AppendEntries
<1>1. /\ T \in Nat /\ m.PrevLogIndex \in Nat /\ Len(m.Entries) \in Nat /\ u.log \in Seq(logEntry)
      /\ q <= Len(L[T]) /\ Agree(u.log, L[T], q)
      /\ \A n \in Nat : Agree(s.log, L[T], n) => Agree(u.log, L[T], n)
  BY AcceptCopies
<1>2. /\ s.currentTerm <= T
      /\ \/ u.commitIndex = c
         \/ u.commitIndex > c \/ m.LeaderCommit > m.PrevLogIndex + Len(m.Entries)
  BY DEF Accepted
<1>3. /\ s.log \in Seq(logEntry) /\ c \in Nat /\ s.currentTerm \in Nat /\ Len(s.log) \in Nat \ {0}
  BY <1>0, GoodFields, LogShape
<1>4. u.commitIndex >= c
  <2>1. m.LeaderCommit <= m.PrevLogIndex + Len(m.Entries) /\ m.LeaderCommit \in Nat
    BY <1>0, AppendArgsFields DEF Traffic
  <2>2. ~(m.LeaderCommit > m.PrevLogIndex + Len(m.Entries))
    BY <1>1, <2>1
  <2>3. u.commitIndex = c \/ u.commitIndex > c
    BY <1>2, <2>2
  <2>4. u.commitIndex \in Nat
    BY GoodFields DEF Accepted
  <2> QED
    BY <1>3, <2>3, <2>4
<1>5. /\ L[T] \in Seq(logEntry) /\ Len(L[T]) > 0 /\ L[T] # <<>> /\ LogOK(L, L[T], T)
  <2>1. L[T] \in Seq(logEntry) /\ Len(L[T]) \in Nat /\ LogOK(L, L[T], T)
    BY <1>0, <1>1, LedgerFacts
  <2>2. Len(L[T]) > 0
    BY <1>1, <2>1
  <2> QED
    BY <2>1, <2>2
<1>6. Agree(s.log, L[T], c + 1)
  <2>1. CASE c = 0
    <3>1. s.log[1] = zeroEntry /\ L[T][1] = zeroEntry
      BY <1>0, <1>3, <1>5 DEF PeerLog, LogOK
    <3>2. 1 <= Len(s.log) /\ 1 <= Len(L[T]) /\ \A p \in 1..1 : p = 1
      BY <1>3, <1>5
    <3>3. Agree(s.log, L[T], 1)
      BY <3>1, <3>2 DEF Agree
    <3>4. c + 1 = 1
      BY <2>1
    <3> QED
      BY <3>3, <3>4
  <2>2. CASE c # 0
    <3>1. PICK v \in Nat, n \in Nat :
             /\ v <= s.currentTerm /\ c <= n /\ Chosen(A, v, n) /\ Own(L, v, n)
             /\ Agree(s.log, L[v], c + 1)
      BY <1>0, <2>2 DEF CommitOK
    <3>2. v <= T /\ c + 1 <= n + 1 /\ c + 1 \in Nat /\ n + 1 \in Nat
      <4>1. v <= T
        <5>1. v <= s.currentTerm /\ s.currentTerm <= T
          BY <1>2, <3>1
        <5>2. s.currentTerm \in Nat /\ T \in Nat
          BY <1>1, <1>3
        <5> HIDE DEF T, s
        <5> QED
          BY <5>1, <5>2
      <4>2. c <= n /\ c \in Nat
        BY <1>3, <3>1
      <4> HIDE DEF c
      <4> QED
        BY <4>1, <4>2
    <3>3. Agree(L[T], L[v], n + 1)
      BY <1>0, <1>1, <1>5, <3>1, <3>2, ChosenCarries
    <3>4. L[v] \in Seq(logEntry)
      BY <1>0, HistoryType
    <3>5. Agree(L[T], L[v], c + 1)
      BY <1>5, <3>2, <3>3, <3>4, AgreeFacts
    <3>6. Agree(L[v], L[T], c + 1)
      BY <1>5, <3>2, <3>4, <3>5, AgreeFacts
    <3> QED
      BY <1>3, <1>5, <3>1, <3>2, <3>4, <3>6, AgreeFacts
  <2> QED
    BY <2>1, <2>2
<1>7. c + 1 \in Nat
  BY <1>3
<1>8. Agree(u.log, L[T], c + 1)
  BY <1>1, <1>6, <1>7
<1>9. Agree(L[T], u.log, c + 1)
  BY <1>1, <1>5, <1>7, <1>8, AgreeFacts
<1>10. Agree(s.log, u.log, c + 1)
  BY <1>1, <1>3, <1>5, <1>6, <1>7, <1>9, AgreeFacts
<1> QED
  BY <1>4, <1>10 DEF Forward

(* AppendEntries.                                                           *)
LEMMA AppendEntriesForward ==
  ASSUME TypeInv, RoleInv, PromptService, OneWinnerPerTerm, Safe, NobodyStands, Traffic,
         NEW i \in Server, NEW m \in msgs, AppendEntries(i, m)
  PROVE  Traffic' /\ NobodyStands' /\ \A j \in Server : Forward(rf[j], rf'[j])
<1>1. CASE Refused(i, m)
  <2>1. PICK u : Good(u) /\ Update(i, u) /\ Quiet(rf[i], u) /\ SameLog(rf[i], u)
    BY <1>1 DEF Refused
  <2>2. \A x \in msgs' : x \in msgs \/ x.type = "AppendEntriesReply"
    BY <1>1 DEF Refused, Answers
  <2> QED
    BY <2>1, <2>2, SameForward, LessTraffic
<1>2. CASE \E t, u : Accepted(i, m, t, u)
  <2>1. PICK t, u : Accepted(i, m, t, u)
    BY <1>2
  <2>2. PICK L, A : LogInv(L) /\ SafeInv(L, A)
    BY DEF Safe
  <2>3. u.state = "follower"
    BY <2>1, <2>2, AcceptCopies
  <2>4. Forward(rf[i], u)
    BY <2>1, <2>2, AcceptedForward
  <2>5. Update(i, u) /\ \A x \in msgs' : x \in msgs \/ x.type = "AppendEntriesReply"
    BY <2>1 DEF Accepted, Answers
  <2>6. ~Standing(u)
    BY <2>3 DEF Standing
  <2> QED
    BY <2>4, <2>5, <2>6, OneForward, LessTraffic
<1> QED
  BY <1>1, <1>2, AppendEntriesCases

(* A reply to AppendEntries.                                                *)
LEMMA AppendReplyForward ==
  ASSUME TypeInv, RoleInv, PromptService, Safe, NobodyStands, Traffic,
         NEW i \in Server, NEW m \in msgs, AppendReply(i, m)
  PROVE  Traffic' /\ NobodyStands' /\ \A j \in Server : Forward(rf[j], rf'[j])
<1>1. PICK L, A : LogInv(L) /\ SafeInv(L, A)
  BY DEF Safe
<1>2. /\ msgs' \subseteq msgs
      /\ \E u : /\ Good(u) /\ Update(i, u)
                /\ \/ Quiet(rf[i], u) /\ SameLog(rf[i], u)
                   \/ /\ Leading(rf[i]) /\ SameRole(rf[i], u) /\ u.log = rf[i].log
                      /\ Matched(i, m, u) \/ BackedUp(i, m, u)
  BY <1>1, AppendReplyCases
<1>3. PICK u : /\ Good(u) /\ Update(i, u)
               /\ \/ Quiet(rf[i], u) /\ SameLog(rf[i], u)
                  \/ /\ Leading(rf[i]) /\ SameRole(rf[i], u) /\ u.log = rf[i].log
                     /\ Matched(i, m, u) \/ BackedUp(i, m, u)
  BY <1>2
<1>4. CASE Quiet(rf[i], u) /\ SameLog(rf[i], u)
  BY <1>2, <1>3, <1>4, SameForward, LessTraffic
<1>5. CASE /\ Leading(rf[i]) /\ SameRole(rf[i], u) /\ u.log = rf[i].log
           /\ Matched(i, m, u) \/ BackedUp(i, m, u)
  <2>1. rf[i].commitIndex \in Nat
    BY CommitInLog
  <2>2. m.argsMatch \in Nat
    <3>1. MsgOK(m) /\ m.type = "AppendEntriesReply"
      BY DEF TypeInv, TypeRest, AppendReply
    <3> QED
      BY <3>1, AppendReplyFields
  <2>3. u.commitIndex = rf[i].commitIndex \/ (u.commitIndex = m.argsMatch /\ m.argsMatch > rf[i].commitIndex)
    BY <1>5 DEF Matched, BackedUp
  <2>4. u.commitIndex >= rf[i].commitIndex
    BY <2>1, <2>2, <2>3
  <2>5. Forward(rf[i], u)
    BY <1>5, <2>4, SameLogForward
  <2>6. ~Standing(u)
    BY <1>5 DEF SameRole, Standing, Leading
  <2> QED
    BY <1>2, <1>3, <2>5, <2>6, OneForward, LessTraffic
<1> QED
  BY <1>3, <1>4, <1>5

(* A crash and restart.                                                     *)
LEMMA RestartForward ==
  ASSUME TypeInv, Safe, NobodyStands, Traffic, NEW i \in Server, Restart(i)
  PROVE  Traffic' /\ NobodyStands' /\ restarts' # restarts
<1>1. PICK u : Good(u) /\ Update(i, u) /\ u.state = "follower"
  BY RestartQuiet
<1>2. ~Standing(u)
  BY <1>1 DEF Standing
<1>3. NobodyStands'
  BY <1>1, <1>2, OneForward
<1>4. restarts' = restarts + 1 /\ restarts \in Nat
  BY DEF Restart, TypeInv, TypeRest
<1>5. ASSUME NEW x \in msgs'
      PROVE  /\ x.type \in {"AppendEntries", "AppendEntriesReply"}
             /\ x.type = "AppendEntries" => x.LeaderCommit <= x.PrevLogIndex + Len(x.Entries)
  <2>1. CASE x \in msgs
    BY <2>1 DEF Traffic
  <2>2. CASE \E m \in msgs : isRequest(m) /\ x = Orphan(m)
    <3>1. PICK m \in msgs : isRequest(m) /\ x = Orphan(m)
      BY <2>2
    <3>2. MsgOK(m)
      BY DEF TypeInv, TypeRest
    <3>3. /\ x.type = m.type
          /\ m.type = "AppendEntries" =>
               /\ x.PrevLogIndex = m.PrevLogIndex
               /\ x.Entries = m.Entries /\ x.LeaderCommit = m.LeaderCommit
      BY <3>1, <3>2, OrphanFields
    <3> QED
      BY <3>3 DEF Traffic
  <2> QED
    BY <2>1, <2>2, RestartMsgs
<1>6. Traffic'
  BY <1>5 DEF Traffic
<1> QED
  BY <1>3, <1>4, <1>6

(* An election.                                                             *)
LEMMA ElectForward ==
  ASSUME TypeInv, RoleInv, PromptService, Safe, NobodyStands, Traffic,
         NEW i \in Server, NEW Q \in SUBSET Server, Elect(i, Q)
  PROVE  Traffic' /\ NobodyStands' /\ \A j \in Server : Forward(rf[j], rf'[j])
<1>1. rf'[i] = Winner(rf[i], i) /\ msgs' = msgs
  BY ElectEffect
<1>2. ASSUME NEW j \in Server
      PROVE  Forward(rf[j], rf'[j])
  <2>1. Good(rf[j]) /\ rf[j].commitIndex \in Nat
    BY CommitInLog
  <2>2. rf'[j].log = rf[j].log /\ rf'[j].commitIndex = rf[j].commitIndex
    <3>1. CASE j = i
      BY <1>1, <2>1, <3>1, WinnerFields
    <3>2. CASE j # i
      BY <3>2, ElectOthers DEF SameLog
    <3> QED
      BY <3>1, <3>2
  <2> QED
    BY <2>1, <2>2, SameLogForward
<1> QED
  BY <1>1, <1>2, ElectStands, LessTraffic

-----------------------------------------------------------------------------
(* The steps of a system that never compacts.                               *)

(* A step of module Raft keeps the invariants of its proofs.                *)
LEMMA RaftKeeps ==
  ASSUME PromptService, TypeInv, VoteInv, RoleInv, Safe, [Next]_vars
  PROVE  TypeInv' /\ VoteInv' /\ RoleInv' /\ Safe'
<1>1. TypeInv' /\ VoteInv' /\ RoleInv'
  BY NextType, NextVotes, NextRoles
<1>2. OneWinnerPerTerm
  BY VoteInvOneWinner
<1>3. OneWinnerPerTerm'
  BY <1>1, VoteInvOneWinner, PTL
<1> QED
  BY <1>1, <1>2, <1>3, NextSafe

(* A service that has just started asks for nothing.                        *)
LEMMA StartPlain ==
  ASSUME NEW data
  PROVE  NoCompaction(StartKVServer(data))
  BY DEF NoCompaction, StartKVServer

(* One service changes.                                                     *)
LEMMA OnePlain ==
  ASSUME Uncompacted, NEW i \in Server, NEW k, NoCompaction(k), kv' = [kv EXCEPT ![i] = k]
  PROVE  Uncompacted'
<1>1. kv'[i] = k /\ \A j \in Server \ {i} : kv'[j] = kv[j]
  BY DEF Uncompacted
<1>2. kv' = [j \in Server |-> kv'[j]]
  BY <1>1 DEF Uncompacted
<1> QED
  BY <1>1, <1>2 DEF Uncompacted

(* A leader that holds its log from entry 0 on never sends a snapshot.      *)
LEMMA NothingMissing ==
  ASSUME TypeInv, RoleInv, PromptService, Safe, NEW i \in Server, NEW j \in Server
  PROVE  ~sendInstallSnapshot(i, j)
<1> SUFFICES ASSUME sendInstallSnapshot(i, j) PROVE FALSE
  OBVIOUS
<1>1. /\ CanLock(i) /\ rf[i].state = "leader" /\ rf[i].nextIndex[j] > 0 /\ needsSnapshot(rf[i], j)
  BY DEF sendInstallSnapshot
<1>2. Good(rf[i]) /\ RoleOK(rf[i])
  BY DEF TypeInv, TypeRf, RoleInv
<1>3. Leading(rf[i])
  BY <1>1, <1>2 DEF CanLock, InLoop, RoleOK, Leading
<1>4. PICK L, A : LogInv(L)
  BY DEF Safe
<1>5. rf[i].nextIndex[j] <= Len(rf[i].log)
  BY <1>3, <1>4 DEF LogInv, PeerLog
<1>6. /\ Len(rf[i].log) \in Nat /\ getLastLogIndex(rf[i]) = Len(rf[i].log) - 1
      /\ \A n \in Nat : hasLogEntry(rf[i], n) <=> n < Len(rf[i].log)
  BY <1>2, LogShape
<1>7. rf[i].nextIndex[j] \in Nat
  BY <1>2, GoodFields
<1> DEFINE n == rf[i].nextIndex[j]
<1>8. n - 1 \in Nat /\ n - 1 < Len(rf[i].log) /\ n - 1 + 1 = n
  BY <1>1, <1>5, <1>6, <1>7
<1>9. hasLogEntry(rf[i], n - 1)
  BY <1>6, <1>8
<1>10. getLastLogIndex(rf[i]) >= n => hasLogEntry(rf[i], n - 1 + 1)
  BY <1>6, <1>7, <1>8
<1> QED
  BY <1>1, <1>9, <1>10 DEF needsSnapshot

(* A step goes forward: it keeps the invariant, does not turn compaction    *)
(* on, and, unless it is a crash, takes nothing back.                       *)
GoesForward ==
  /\ PlainInv' /\ maxraftstate' = maxraftstate
  /\ restarts' = restarts => \A j \in Server : Forward(rf[j], rf'[j])

(* What a step of module Raft that leaves the services alone still needs.   *)
LEMMA RaftForward ==
  ASSUME PromptService, PlainInv, [Next]_vars, Uncompacted', maxraftstate' = maxraftstate,
         Traffic', NobodyStands', restarts' = restarts => \A j \in Server : Forward(rf[j], rf'[j])
  PROVE  GoesForward
<1>1. TypeInv' /\ VoteInv' /\ RoleInv' /\ Safe'
  BY RaftKeeps DEF PlainInv
<1> QED
  BY <1>1 DEF GoesForward, PlainInv

(* Service goroutine, losses and Start.                                     *)
LEMMA RaftStepForward ==
  ASSUME PromptService, PlainInv, NEW i \in Server, RaftStep(i)
  PROVE  GoesForward
<1>1. maxraftstate' = maxraftstate /\ kv' = kv
  BY DEF RaftStep
<1>2. Uncompacted'
  BY <1>1 DEF Uncompacted, PlainInv
<1>3. CASE \/ FollowerResetsTimer(i) \/ LeaderConverts(i) \/ runAsFollower(i)
           \/ \E m \in msgs : Lose(m)
  <2>1. Next
    BY <1>3 DEF Next, ServiceSteps
  <2>2. Traffic' /\ NobodyStands' /\ \A j \in Server : Forward(rf[j], rf'[j])
    BY <1>3, ServiceForward DEF PlainInv
  <2> QED
    BY <1>1, <1>2, <2>1, <2>2, RaftForward
<1>4. CASE \E command \in Command : Start(i, command)
  <2>1. Next
    BY <1>4 DEF Next
  <2>2. Traffic' /\ NobodyStands' /\ \A j \in Server : Forward(rf[j], rf'[j])
    BY <1>4, StartForward DEF PlainInv
  <2> QED
    BY <1>1, <1>2, <2>1, <2>2, RaftForward
<1> QED
  BY <1>3, <1>4 DEF RaftStep

(* An election.                                                             *)
LEMMA ElectStepForward ==
  ASSUME PromptService, PlainInv, NEW i \in Server, NEW Q \in SUBSET Server, Elect(i, Q)
  PROVE  GoesForward
<1>0. TypeInv /\ RoleInv /\ VoteInv /\ Safe /\ Traffic /\ NobodyStands /\ Uncompacted
  BY DEF PlainInv
<1>1. maxraftstate' = maxraftstate /\ kv' = kv
  BY DEF Elect
<1>2. Uncompacted'
  BY <1>0, <1>1 DEF Uncompacted
<1>3. TypeInv' /\ VoteInv' /\ RoleInv'
  BY <1>0, ElectType, ElectVotes, ElectRoles
<1>4. Safe'
  <2>1. PICK L, A : LogInv(L) /\ SafeInv(L, A)
    BY <1>0 DEF Safe
  <2>2. \E M : LogInv(M)' /\ SafeInv(M, A)'
    BY <1>0, <2>1, ElectSafe
  <2> QED
    BY <2>2 DEF Safe
<1>5. Traffic' /\ NobodyStands' /\ \A j \in Server : Forward(rf[j], rf'[j])
  BY <1>0, ElectForward
<1> QED
  BY <1>1, <1>2, <1>3, <1>4, <1>5 DEF GoesForward, PlainInv

(* A leader sends entries.                                                  *)
LEMMA SendStepForward ==
  ASSUME PromptService, PlainInv, NEW i \in Server, NEW j \in Server, sendEntries(i, j)
  PROVE  GoesForward
<1>1. maxraftstate' = maxraftstate /\ kv' = kv /\ sendAppendEntriesTo(i, j)
  BY DEF sendEntries
<1>2. Uncompacted'
  BY <1>1 DEF Uncompacted, PlainInv
<1>3. Next
  BY <1>1 DEF Next, Ticks
<1>4. Traffic' /\ NobodyStands' /\ \A k \in Server : Forward(rf[k], rf'[k])
  BY <1>1, SendForward DEF PlainInv
<1> QED
  BY <1>1, <1>2, <1>3, <1>4, RaftForward

(* AppendEntries and its reply, with what they deliver to the service.      *)
LEMMA DeliveryForward ==
  ASSUME PromptService, maxraftstate = -1, PlainInv, NEW i \in Server, NEW m \in msgs,
         AppendEntriesDelivers(i, m) \/ AppendReplyDelivers(i, m)
  PROVE  GoesForward
<1>0. TypeInv /\ RoleInv /\ VoteInv /\ Safe /\ Traffic /\ NobodyStands /\ Uncompacted
  BY DEF PlainInv
<1>1. /\ maxraftstate' = maxraftstate /\ Delivers(i)
      /\ AppendEntries(i, m) \/ AppendReply(i, m)
  BY DEF AppendEntriesDelivers, AppendReplyDelivers
<1>2. Next
  BY <1>1 DEF Next, Receive
<1>3. TypeInv'
  BY <1>0, <1>2, RaftKeeps
<1>4. Uncompacted'
  BY <1>0, <1>1, <1>3, DeliversPlain
<1>5. Traffic' /\ NobodyStands' /\ \A j \in Server : Forward(rf[j], rf'[j])
  <2>1. OneWinnerPerTerm
    BY <1>0, VoteInvOneWinner
  <2> QED
    BY <1>0, <1>1, <2>1, AppendEntriesForward, AppendReplyForward
<1> QED
  BY <1>1, <1>2, <1>4, <1>5, RaftForward

(* The service executes an entry.                                           *)
LEMMA ServerForward ==
  ASSUME PromptService, maxraftstate = -1, PlainInv, NEW i \in Server, runServer(i)
  PROVE  GoesForward
<1>0. TypeInv /\ Safe /\ Traffic /\ NobodyStands /\ Uncompacted
  BY DEF PlainInv
<1>1. /\ maxraftstate' = maxraftstate /\ UNCHANGED vars
      /\ kv' = [kv EXCEPT ![i] = finish(kv[i], kv[i].busy, logSize(i))]
  BY DEF runServer
<1>2. NoCompaction(kv[i])
  BY <1>0 DEF Uncompacted
<1>3. NoCompaction(finish(kv[i], kv[i].busy, logSize(i)))
  BY <1>2, FinishPlain
<1>4. Uncompacted'
  BY <1>0, <1>1, <1>3, OnePlain
<1>5. rf' = rf /\ msgs' = msgs
  BY <1>1 DEF vars
<1>6. Traffic' /\ NobodyStands' /\ \A j \in Server : Forward(rf[j], rf'[j])
  BY <1>0, <1>5, StillForward, LessTraffic
<1> QED
  BY <1>1, <1>4, <1>6, RaftForward

(* A crash and restart of peer and service.                                 *)
LEMMA RestartStepForward ==
  ASSUME PromptService, PlainInv, NEW i \in Server, RestartKVServer(i)
  PROVE  GoesForward
<1>0. TypeInv /\ Safe /\ Traffic /\ NobodyStands /\ Uncompacted
  BY DEF PlainInv
<1>1. maxraftstate' = maxraftstate /\ Restart(i) /\ \E data : kv' = [kv EXCEPT ![i] = StartKVServer(data)]
  BY DEF RestartKVServer
<1>2. Uncompacted'
  BY <1>0, <1>1, StartPlain, OnePlain
<1>3. Next
  BY <1>1 DEF Next
<1>4. Traffic' /\ NobodyStands' /\ restarts' # restarts
  BY <1>0, <1>1, RestartForward
<1> QED
  BY <1>1, <1>2, <1>3, <1>4, RaftForward

(* No step of compaction or of InstallSnapshot is possible.                 *)
LEMMA NoSnapshots ==
  ASSUME PromptService, PlainInv, NEW i \in Server
  PROVE  /\ \A j \in Server : ~sendInstallSnapshot(i, j)
         /\ \A m \in msgs : ~InstallSnapshot(i, m) /\ ~InstallSnapshotReply(i, m)
         /\ ~InstallSnapshotFails(i)
         /\ kv[i].compactions = {}
<1>1. \A j \in Server : ~sendInstallSnapshot(i, j)
  BY NothingMissing DEF PlainInv
<1>2. \A m \in msgs : ~InstallSnapshot(i, m) /\ ~InstallSnapshotReply(i, m)
  BY DEF PlainInv, Traffic, InstallSnapshot, InstallSnapshotReply
<1>3. ~InstallSnapshotFails(i)
  BY DEF PlainInv, Traffic, InstallSnapshotFails, exchange
<1>4. kv[i].compactions = {}
  BY DEF PlainInv, Uncompacted, NoCompaction
<1> QED
  BY <1>1, <1>2, <1>3, <1>4

(* Every step.                                                              *)
LEMMA SnapshotForward ==
  ASSUME PromptService, maxraftstate = -1, PlainInv, [SnapshotNext]_snapshotVars
  PROVE  GoesForward
<1>1. CASE UNCHANGED snapshotVars
  <2>0. TypeInv /\ Safe /\ Traffic /\ NobodyStands /\ Uncompacted
    BY DEF PlainInv
  <2>1. UNCHANGED vars /\ maxraftstate' = maxraftstate /\ kv' = kv
    BY <1>1 DEF snapshotVars
  <2>2. rf' = rf /\ msgs' = msgs
    BY <2>1 DEF vars
  <2>3. Uncompacted'
    BY <2>0, <2>1 DEF Uncompacted
  <2>4. Traffic' /\ NobodyStands' /\ \A j \in Server : Forward(rf[j], rf'[j])
    BY <2>0, <2>2, StillForward, LessTraffic
  <2> QED
    BY <2>1, <2>3, <2>4, RaftForward
<1>2. CASE SnapshotNext
  <2>1. PICK i \in Server :
          \/ RaftStep(i)
          \/ \E Q \in SUBSET Server : Elect(i, Q)
          \/ \E j \in Server : sendEntries(i, j) \/ sendInstallSnapshot(i, j)
          \/ \E m \in msgs :
                \/ AppendEntriesDelivers(i, m) \/ AppendReplyDelivers(i, m)
                \/ InstallSnapshot(i, m) \/ InstallSnapshotReply(i, m)
          \/ InstallSnapshotFails(i)
          \/ runServer(i)
          \/ \E n \in kv[i].compactions : Compaction(i, n)
          \/ RestartKVServer(i)
    BY <1>2 DEF SnapshotNext
  <2>2. \/ RaftStep(i)
        \/ \E Q \in SUBSET Server : Elect(i, Q)
        \/ \E j \in Server : sendEntries(i, j)
        \/ \E m \in msgs : AppendEntriesDelivers(i, m) \/ AppendReplyDelivers(i, m)
        \/ runServer(i)
        \/ RestartKVServer(i)
    BY <2>1, NoSnapshots
  <2> QED
    BY <2>2, RaftStepForward, ElectStepForward, SendStepForward, DeliveryForward,
       ServerForward, RestartStepForward
<1> QED
  BY <1>1, <1>2

(* The initial states.                                                      *)
LEMMA InitPlain ==
  ASSUME SnapshotInit
  PROVE  PlainInv
<1>0. Init /\ kv = [i \in Server |-> StartKVServer(<<>>)]
  BY DEF SnapshotInit
<1>1. TypeInv /\ VoteInv /\ RoleInv /\ Safe
  BY <1>0, InitType, InitVotes, InitRoles, InitSafe
<1>2. Uncompacted
  <2>1. kv = [i \in Server |-> kv[i]] /\ \A i \in Server : kv[i] = StartKVServer(<<>>)
    BY <1>0
  <2> QED
    BY <2>1, StartPlain DEF Uncompacted
<1>3. Traffic /\ NobodyStands
  BY <1>0 DEF Init, Traffic, NobodyStands, Standing, Make, readPersist
<1> QED
  BY <1>1, <1>2, <1>3 DEF PlainInv

(* No step changes the setting.                                             *)
LEMMA SettingStays ==
  ASSUME [SnapshotNext]_snapshotVars
  PROVE  maxraftstate' = maxraftstate
<1>1. CASE UNCHANGED snapshotVars
  BY <1>1 DEF snapshotVars
<1>2. ASSUME NEW i \in Server, RaftStep(i) \/ runServer(i) \/ RestartKVServer(i)
      PROVE  maxraftstate' = maxraftstate
  BY <1>2 DEF RaftStep, runServer, RestartKVServer
<1>3. ASSUME NEW i \in Server, NEW Q \in SUBSET Server, Elect(i, Q)
      PROVE  maxraftstate' = maxraftstate
  BY <1>3 DEF Elect
<1>4. ASSUME NEW i \in Server, NEW j \in Server, sendEntries(i, j) \/ sendInstallSnapshot(i, j)
      PROVE  maxraftstate' = maxraftstate
  BY <1>4 DEF sendEntries, sendInstallSnapshot
<1>5. ASSUME NEW i \in Server, NEW m \in msgs,
             AppendEntriesDelivers(i, m) \/ AppendReplyDelivers(i, m)
      PROVE  maxraftstate' = maxraftstate
  BY <1>5 DEF AppendEntriesDelivers, AppendReplyDelivers
<1>6. ASSUME NEW i \in Server, NEW m \in msgs, InstallSnapshot(i, m)
      PROVE  maxraftstate' = maxraftstate
  BY <1>6 DEF InstallSnapshot
<1>7. ASSUME NEW i \in Server, NEW m \in msgs, InstallSnapshotReply(i, m)
      PROVE  maxraftstate' = maxraftstate
  BY <1>7 DEF InstallSnapshotReply
<1>8. ASSUME NEW i \in Server, InstallSnapshotFails(i)
      PROVE  maxraftstate' = maxraftstate
  BY <1>8 DEF InstallSnapshotFails
<1>9. ASSUME NEW i \in Server, NEW n \in kv[i].compactions, Compaction(i, n)
      PROVE  maxraftstate' = maxraftstate
  BY <1>9 DEF Compaction
<1> QED
  BY <1>1, <1>2, <1>3, <1>4, <1>5, <1>6, <1>7, <1>8, <1>9 DEF SnapshotNext

-----------------------------------------------------------------------------
(* Every commit index is that of an entry of the log.                       *)
CommitsCovered ==
  \A i \in Server :
    /\ Good(rf[i]) /\ Len(rf[i].log) \in Nat
    /\ rf[i].commitIndex \in Nat /\ rf[i].commitIndex + 1 <= Len(rf[i].log)

(* It is, in every state of a system that never compacts.                   *)
LEMMA PlainCovers ==
  ASSUME PlainInv
  PROVE  CommitsCovered
  BY CommitInLog DEF PlainInv, CommitsCovered

(* What CommittedIsFinal says of a step that goes forward.                  *)
LEMMA ForwardFinal ==
  ASSUME PlainInv, PlainInv', NEW i \in Server, Forward(rf[i], rf'[i])
  PROVE  /\ rf'[i].commitIndex >= rf[i].commitIndex
         /\ rf'[i].commitIndex <= getLastLogIndex(rf'[i])
         /\ \A n \in 1..rf[i].commitIndex : getLogEntry(rf'[i], n) = getLogEntry(rf[i], n)
<1> DEFINE s == rf[i]
           u == rf'[i]
<1>0. CommitsCovered /\ CommitsCovered'
  BY PlainCovers, PTL
<1>1. /\ Good(s) /\ Len(s.log) \in Nat /\ s.commitIndex \in Nat /\ s.commitIndex + 1 <= Len(s.log)
  BY <1>0 DEF CommitsCovered
<1>2. /\ Good(u) /\ Len(u.log) \in Nat /\ u.commitIndex \in Nat /\ u.commitIndex + 1 <= Len(u.log)
  BY <1>0 DEF CommitsCovered
<1>3. /\ getLastLogIndex(u) = Len(u.log) - 1
      /\ \A n \in Nat : getLogEntry(u, n) = IF n < Len(u.log) THEN u.log[n + 1] ELSE zeroEntry
      /\ \A n \in Nat : getLogEntry(s, n) = IF n < Len(s.log) THEN s.log[n + 1] ELSE zeroEntry
  BY <1>1, <1>2, LogShape
<1>4. u.commitIndex >= s.commitIndex /\ Agree(s.log, u.log, s.commitIndex + 1)
  BY DEF Forward
<1>5. u.commitIndex <= getLastLogIndex(u)
  BY <1>2, <1>3
<1>6. ASSUME NEW n \in 1..s.commitIndex
      PROVE  getLogEntry(u, n) = getLogEntry(s, n)
  <2>1. n \in Nat /\ n < Len(s.log) /\ n < Len(u.log) /\ n + 1 \in 1..(s.commitIndex + 1)
    BY <1>1, <1>2, <1>4
  <2>2. s.log[n + 1] = u.log[n + 1]
    BY <1>4, <2>1 DEF Agree
  <2> QED
    BY <1>3, <2>1, <2>2
<1> QED
  BY <1>4, <1>5, <1>6

(* Without compaction and until a crash, the commit index of a peer does    *)
(* not go back, stays within its log, and what it has committed stays in    *)
(* its log, entry by entry: for any number of peers, terms, entries and     *)
(* messages, however late, repeated or lost, and across crashes of others.  *)
(* PromptService is what Raft's safety needs of the service goroutine.      *)
THEOREM CommittedFinal == ASSUME PromptService PROVE SnapshotSpec => CommittedIsFinal
<1>1. SnapshotInit => PlainIfNever
  BY InitPlain DEF PlainIfNever
<1>2. PlainIfNever /\ [SnapshotNext]_snapshotVars => PlainIfNever'
  <2>1. CASE maxraftstate = -1
    BY <2>1, SnapshotForward DEF PlainIfNever, GoesForward
  <2>2. CASE maxraftstate # -1 /\ [SnapshotNext]_snapshotVars
    <3>1. maxraftstate' = maxraftstate
      BY <2>2, SettingStays
    <3> QED
      BY <2>2, <3>1 DEF PlainIfNever
  <2> QED
    BY <2>1, <2>2
<1>3. ASSUME PlainIfNever, [SnapshotNext]_snapshotVars
      PROVE  [maxraftstate = -1 /\ restarts' = restarts =>
               \A i \in Server :
                 /\ rf'[i].commitIndex >= rf[i].commitIndex
                 /\ rf'[i].commitIndex <= getLastLogIndex(rf'[i])
                 /\ \A n \in 1..rf[i].commitIndex :
                       getLogEntry(rf'[i], n) = getLogEntry(rf[i], n)]_snapshotVars
  <2> SUFFICES ASSUME maxraftstate = -1, restarts' = restarts, NEW i \in Server
               PROVE  /\ rf'[i].commitIndex >= rf[i].commitIndex
                      /\ rf'[i].commitIndex <= getLastLogIndex(rf'[i])
                      /\ \A n \in 1..rf[i].commitIndex :
                            getLogEntry(rf'[i], n) = getLogEntry(rf[i], n)
    OBVIOUS
  <2>1. PlainInv /\ GoesForward
    BY <1>3, SnapshotForward DEF PlainIfNever
  <2>2. PlainInv' /\ Forward(rf[i], rf'[i])
    BY <2>1 DEF GoesForward
  <2> QED
    BY <2>1, <2>2, ForwardFinal
<1> QED
  BY <1>1, <1>2, <1>3, PTL DEF SnapshotSpec, CommittedIsFinal

=============================================================================
