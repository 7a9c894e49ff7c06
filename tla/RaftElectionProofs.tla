------------------------ MODULE RaftElectionProofs --------------------------
(***************************************************************************)
(* Why no two peers win the same term.  The history of votes and the Raft   *)
(* objects are tied together by an inductive invariant: a vote that was     *)
(* ever cast is still what its caster has on disk, or the caster has moved  *)
(* on to a later term, so there is at most one vote per peer and term; what *)
(* a candidate counts, and what is in flight to it, are votes that were     *)
(* cast for it in the very term of its ballot; and whoever won has the      *)
(* votes of a majority, of which any two intersect.                         *)
(***************************************************************************)
EXTENDS RaftProofs

OneVote == \A v, w \in votes : v[1] = w[1] /\ v[2] = w[2] => v[3] = w[3]

Kept(v, s) ==
  s.currentTerm > v[1] \/ (s.currentTerm = v[1] /\ s.votedFor = v[3])

VotesKept == \A v \in votes : Kept(v, rf[v[2]])

Requests ==
  \A m \in msgs : m.type = "RequestVote" /\ m.from # Nil =>
    /\ m.CandidateId = m.from /\ m.Term > 0
    /\ m.Term <= rf[m.from].vote.term

Replies ==
  \A m \in msgs : m.type = "RequestVoteReply" =>
    /\ m.argsTerm > 0 /\ m.argsTerm <= rf[m.to].vote.term
    /\ m.VoteGranted => <<m.argsTerm, m.from, m.to>> \in votes

Ballots ==
  \A i \in Server :
    /\ rf[i].vote.term <= rf[i].currentTerm
    /\ rf[i].vote.term > 0 => <<rf[i].vote.term, i, i>> \in votes
    /\ \A j \in rf[i].vote.voteRecord : <<rf[i].vote.term, j, i>> \in votes

HasMajority(e) ==
  \E Q \in SUBSET Server : Majority(Q) /\ \A j \in Q : <<e[1], j, e[2]>> \in votes

Winners == \A e \in elected : HasMajority(e)

VoteInv == OneVote /\ VotesKept /\ Requests /\ Replies /\ Ballots /\ Winners

-----------------------------------------------------------------------------
(* The terms of ballots and objects are numbers.                            *)
LEMMA VoteTypes ==
  ASSUME TypeRf, NEW i \in Server
  PROVE  /\ rf[i].currentTerm \in Nat /\ rf[i].vote.term \in Nat
         /\ rf[i].vote.voteRecord \in SUBSET Server
<1>1. Good(rf[i])
  BY DEF TypeRf
<1>2. rf[i].currentTerm \in Nat /\ rf[i].vote \in [term : Nat, voteRecord : SUBSET Server]
  BY <1>1, GoodFields
<1> QED
  BY <1>2

(* Lawful fates keep every vote that has been cast.                         *)
LEMMA StillKept ==
  ASSUME TypeInv, TypeInv', Fates, VotesKept
  PROVE  \A v \in votes : v[1] \in Nat /\ v[2] \in Server /\ v[3] \in Server /\ Kept(v, rf'[v[2]])
<1> TAKE v \in votes
<1>1. v[1] \in Nat /\ v[2] \in Server /\ v[3] \in Server
  BY DEF TypeInv, TypeRest
<1> DEFINE s == rf[v[2]]
           u == rf'[v[2]]
<1>2. s.currentTerm \in Nat /\ u.currentTerm \in Nat
  <2>1. Good(s) /\ Good(u)
    BY <1>1 DEF TypeInv, TypeRf
  <2> QED
    BY <2>1, GoodFields
<1>3. Fate(s, u) /\ Kept(v, s)
  BY <1>1 DEF Fates, VotesKept
<1>4. v[3] # Nil
  BY <1>1, NilAssumption
<1> HIDE DEF s, u
<1>5. Kept(v, u)
  BY <1>1, <1>2, <1>3, <1>4 DEF Fate, Kept
<1> QED
  BY <1>1, <1>5 DEF u

(* A majority keeps its votes when the history grows.                       *)
LEMMA WinnersKept ==
  ASSUME votes \subseteq votes', NEW e, HasMajority(e)
  PROVE  HasMajority(e)'
  BY DEF HasMajority, Majority

(* Steps that cast no vote, count none and send none.                       *)
LEMMA VoteKeep ==
  ASSUME TypeInv, TypeInv', Fates, VoteInv,
         \A j \in Server : rf'[j].vote = rf[j].vote,
         votes' = votes, elected' = elected,
         \A x \in msgs' : x \in msgs \/ x.type \in {"AppendEntries", "AppendEntriesReply"}
  PROVE  VoteInv'
<1>1. TypeRf /\ TypeRf'
  BY DEF TypeInv
<1>2. OneVote'
  BY DEF VoteInv, OneVote
<1>3. VotesKept'
  BY StillKept DEF VoteInv, VotesKept
<1>4. Requests'
  <2> SUFFICES ASSUME NEW m \in msgs', m.type = "RequestVote", m.from # Nil
               PROVE  /\ m.CandidateId = m.from /\ m.Term > 0
                      /\ m.Term <= rf'[m.from].vote.term
    BY DEF Requests
  <2>1. m \in msgs /\ MsgOK(m)
    BY DEF TypeInv, TypeRest
  <2>2. m.from \in Server
    BY <2>1, VoteArgsFields
  <2> QED
    BY <2>1, <2>2 DEF VoteInv, Requests
<1>5. Replies'
  <2> SUFFICES ASSUME NEW m \in msgs', m.type = "RequestVoteReply"
               PROVE  /\ m.argsTerm > 0 /\ m.argsTerm <= rf'[m.to].vote.term
                      /\ m.VoteGranted => <<m.argsTerm, m.from, m.to>> \in votes'
    BY DEF Replies
  <2>1. m \in msgs /\ MsgOK(m)
    BY DEF TypeInv, TypeRest
  <2>2. m.to \in Server
    BY <2>1, VoteReplyFields
  <2> QED
    BY <2>1, <2>2 DEF VoteInv, Replies
<1>6. Ballots'
  <2> SUFFICES ASSUME NEW i \in Server
               PROVE  /\ rf'[i].vote.term <= rf'[i].currentTerm
                      /\ rf'[i].vote.term > 0 => <<rf'[i].vote.term, i, i>> \in votes'
                      /\ \A j \in rf'[i].vote.voteRecord : <<rf'[i].vote.term, j, i>> \in votes'
    BY DEF Ballots
  <2>1. rf'[i].vote = rf[i].vote /\ rf'[i].currentTerm >= rf[i].currentTerm
    BY DEF Fates, Fate
  <2>2. rf[i].currentTerm \in Nat /\ rf[i].vote.term \in Nat /\ rf'[i].currentTerm \in Nat
    BY <1>1, VoteTypes, GoodFields DEF TypeRf
  <2>3. rf[i].vote.term <= rf[i].currentTerm
    BY DEF VoteInv, Ballots
  <2>4. rf'[i].vote.term <= rf'[i].currentTerm
    BY <2>1, <2>2, <2>3
  <2> QED
    BY <2>1, <2>4 DEF VoteInv, Ballots
<1>7. Winners'
  BY WinnersKept DEF VoteInv, Winners
<1> QED
  BY <1>2, <1>3, <1>4, <1>5, <1>6, <1>7 DEF VoteInv

-----------------------------------------------------------------------------
(* Which steps leave every ballot alone.                                    *)
SameVotes == \A j \in Server : rf'[j].vote = rf[j].vote

(* Role changes leave a ballot alone.                                       *)
LEMMA RoleKeepsVote ==
  ASSUME NEW s, Good(s), NEW st \in {"follower", "candidate", "leader"},
         NEW cs \in {Nil, "follower", "leader"},
         NEW sv \in {"asFollower", "follower", "asCandidate", "startElection",
                     "candidate", "asLeader", "leader", "panic"}
  PROVE  /\ [s EXCEPT !.state = st, !.service = sv].vote = s.vote
         /\ [s EXCEPT !.service = sv].vote = s.vote
         /\ [s EXCEPT !.convertState = cs].vote = s.vote
         /\ [s EXCEPT !.convertState = cs, !.service = sv].vote = s.vote
  BY DEF Good, RaftObject

(* So does becoming leader.                                                 *)
LEMMA LeaderKeepsVote ==
  ASSUME TypeRf, NEW i \in Server, runAsLeader(i)
  PROVE  \E u : Update(i, u) /\ u.vote = rf[i].vote
<1> DEFINE n == [j \in Server |-> getLastLogIndex(rf[i]) + 1]
           k == [j \in Server |-> 0]
           u == [rf[i] EXCEPT !.state = "leader", !.service = "leader",
                              !.nextIndex = n, !.matchIndex = k]
<1>1. Update(i, u)
  BY DEF runAsLeader
<1> HIDE DEF n, k
<1>2. u.vote = rf[i].vote
  BY DEF TypeRf, Good, RaftObject
<1> HIDE DEF u
<1> QED
  BY <1>1, <1>2

(* The steps of the service goroutine, except the start of an election.     *)
LEMMA QuietSteps ==
  ASSUME TypeInv, NEW i \in Server,
         \/ runAsFollower(i) \/ FollowerTimeout(i) \/ FollowerResetsTimer(i)
         \/ runAsCandidate(i) \/ CandidateTimeout(i) \/ CandidateConverts(i)
         \/ runAsLeader(i) \/ LeaderConverts(i)
  PROVE  SameVotes /\ UNCHANGED <<msgs, votes, elected>>
<1>1. Good(rf[i]) /\ TypeRf
  BY DEF TypeInv, TypeRf
<1>2. \E u : Update(i, u) /\ u.vote = rf[i].vote
  <2>1. CASE runAsFollower(i)
    <3>1. [rf[i] EXCEPT !.state = "follower", !.service = "follower"].vote = rf[i].vote
      BY <1>1, RoleKeepsVote
    <3> QED
      BY <2>1, <3>1 DEF runAsFollower
  <2>2. CASE FollowerTimeout(i)
    BY ZenonT(60), <1>1, <2>2, RoleKeepsVote DEF FollowerTimeout
  <2>3. CASE FollowerResetsTimer(i)
    BY <1>1, <2>3, RoleKeepsVote DEF FollowerResetsTimer
  <2>4. CASE runAsCandidate(i)
    <3>1. [rf[i] EXCEPT !.state = "candidate", !.service = "startElection"].vote = rf[i].vote
      BY <1>1, RoleKeepsVote
    <3> QED
      BY <2>4, <3>1 DEF runAsCandidate
  <2>5. CASE CandidateTimeout(i)
    BY ZenonT(60), <1>1, <2>5, RoleKeepsVote DEF CandidateTimeout
  <2>6. CASE CandidateConverts(i)
    BY ZenonT(60), <1>1, <2>6, RoleKeepsVote DEF CandidateConverts
  <2>7. CASE runAsLeader(i)
    BY <1>1, <2>7, LeaderKeepsVote
  <2>8. CASE LeaderConverts(i)
    BY ZenonT(60), <1>1, <2>8, RoleKeepsVote DEF LeaderConverts
  <2> QED
    BY <2>1, <2>2, <2>3, <2>4, <2>5, <2>6, <2>7, <2>8
<1>3. SameVotes
  BY <1>1, <1>2 DEF SameVotes, Update, TypeRf
<1>4. UNCHANGED <<msgs, votes, elected>>
  BY DEF runAsFollower, FollowerTimeout, FollowerResetsTimer, runAsCandidate,
         CandidateTimeout, CandidateConverts, runAsLeader, LeaderConverts
<1> QED
  BY <1>3, <1>4

(* Replication neither casts nor counts votes.                              *)
LEMMA ReplicationSteps ==
  ASSUME TypeInv, NEW i \in Server, NEW m \in msgs, AppendEntries(i, m) \/ AppendReply(i, m)
  PROVE  /\ SameVotes /\ UNCHANGED <<votes, elected>>
         /\ \A x \in msgs' : x \in msgs \/ x.type \in {"AppendEntries", "AppendEntriesReply"}
<1>1. TypeRf /\ Good(rf[i])
  BY DEF TypeInv, TypeRf
<1>2. \E u : Update(i, u) /\ u.vote = rf[i].vote
  <2>1. m.Term \in Nat => Checked(i, m).vote = rf[i].vote /\ Good(Checked(i, m))
    BY <1>1, CheckTerm DEF Checked
  <2>2. CASE AppendEntries(i, m)
    <3>1. /\ m.Term \in Nat /\ Good(Checked(i, m))
          /\ \E u : /\ Update(i, u)
                    /\ SameRole(Checked(i, m), u) \/ SameRole(followLeader(Checked(i, m)), u)
      BY <2>2, AppendEntriesEffect
    <3>2. followLeader(Checked(i, m)).vote = Checked(i, m).vote
      BY <3>1, Follow DEF Untouched
    <3> QED
      BY <2>1, <3>1, <3>2 DEF SameRole
  <2>3. CASE AppendReply(i, m)
    <3>1. m.Term \in Nat /\ \E u : Update(i, u) /\ SameRole(Heard(i, m), u)
      BY <2>3, AppendReplyEffect
    <3>2. Heard(i, m).vote = rf[i].vote
      BY <2>1, <3>1 DEF Heard
    <3> QED
      BY <3>1, <3>2 DEF SameRole
  <2> QED
    BY <2>2, <2>3
<1>3. SameVotes
  BY <1>1, <1>2 DEF SameVotes, Update, TypeRf
<1>4. /\ UNCHANGED <<votes, elected>>
      /\ \A x \in msgs' : x \in msgs \/ x.type \in {"AppendEntries", "AppendEntriesReply"}
  BY AppendEntriesEffect, AppendReplyEffect
<1> QED
  BY <1>3, <1>4

(* The ticker, the network, Start and a vote counter that found the channel *)
(* full.                                                                    *)
LEMMA OtherSteps ==
  ASSUME TypeInv, NEW i \in Server,
         \/ VoteReplacesToken(i) \/ Ticks(i)
         \/ \E m \in msgs : Lose(m)
         \/ \E command \in Command : Start(i, command)
  PROVE  /\ SameVotes /\ UNCHANGED <<votes, elected>>
         /\ \A x \in msgs' : x \in msgs \/ x.type \in {"AppendEntries", "AppendEntriesReply"}
<1>1. TypeRf
  BY DEF TypeInv
<1>2. CASE VoteReplacesToken(i)
  <2>1. rf'[i].vote = rf[i].vote
    BY <1>2, VoteReplacesTokenType
  <2> QED
    BY <1>1, <1>2, <2>1 DEF SameVotes, Update, TypeRf, VoteReplacesToken
<1>3. CASE Ticks(i)
  <2>1. PICK j \in Server : sendAppendEntriesTo(i, j)
    BY <1>3 DEF Ticks
  <2>2. PICK a : msgs' = msgs \cup {a} /\ a.type = "AppendEntries"
    <3> DEFINE s == rf[i]
               prev == s.nextIndex[j] - 1
               a == [type |-> "AppendEntries", to |-> j, from |-> i, Term |-> s.currentTerm,
                     PrevLogIndex |-> prev,
                     PrevLogTerm |-> IF prev = 0 THEN 0 ELSE getLogEntry(s, prev).Term,
                     Entries |-> IF getLastLogIndex(s) >= s.nextIndex[j]
                                 THEN getEntryFrom(s, prev + 1) ELSE <<>>,
                     LeaderCommit |-> s.commitIndex]
    <3>1. msgs' = msgs \cup {a}
      BY Zenon, <2>1 DEF sendAppendEntriesTo
    <3>2. a.type = "AppendEntries"
      OBVIOUS
    <3> HIDE DEF a
    <3> QED
      BY <3>1, <3>2
  <2>3. UNCHANGED <<rf, votes, elected>>
    BY Zenon, <2>1 DEF sendAppendEntriesTo
  <2> QED
    BY <2>2, <2>3 DEF SameVotes
<1>4. CASE \E m \in msgs : Lose(m)
  BY <1>4 DEF Lose, SameVotes
<1>5. CASE \E command \in Command : Start(i, command)
  <2>1. PICK command \in Command : Start(i, command)
    BY <1>5
  <2>2. PICK u : Update(i, u) /\ u.vote = rf[i].vote
    BY <2>1, StartEffect
  <2>3. UNCHANGED <<msgs, votes, elected>>
    BY <2>1 DEF Start
  <2> QED
    BY <1>1, <2>2, <2>3 DEF SameVotes, Update, TypeRf
<1> QED
  BY <1>2, <1>3, <1>4, <1>5

-----------------------------------------------------------------------------
(* Casting a vote: if the caster's object vouches for the new vote after    *)
(* the step, no two votes of one caster in one term differ.                 *)
LEMMA CastOne ==
  ASSUME TypeInv, TypeInv', Fates, OneVote, VotesKept,
         NEW t \in Nat, NEW j \in Server, NEW c \in Server,
         votes' = votes \cup {<<t, j, c>>},
         rf'[j].currentTerm = t, rf'[j].votedFor = c
  PROVE  OneVote' /\ VotesKept'
<1>1. \A v \in votes : v[1] \in Nat /\ v[2] \in Server /\ v[3] \in Server /\ Kept(v, rf'[v[2]])
  BY StillKept
<1>2. \A v \in votes : v[1] = t /\ v[2] = j => v[3] = c
  BY <1>1 DEF Kept
<1>3. OneVote'
  <2> SUFFICES ASSUME NEW v \in votes', NEW w \in votes', v[1] = w[1], v[2] = w[2]
               PROVE  v[3] = w[3]
    BY DEF OneVote
  <2>1. CASE v \in votes /\ w \in votes
    BY <2>1 DEF OneVote
  <2>2. CASE v = <<t, j, c>>
    BY <2>2, <1>2
  <2>3. CASE w = <<t, j, c>>
    BY <2>3, <1>2
  <2> QED
    BY <2>1, <2>2, <2>3
<1>4. VotesKept'
  <2> SUFFICES ASSUME NEW v \in votes'
               PROVE  Kept(v, rf'[v[2]])
    BY DEF VotesKept
  <2>1. CASE v \in votes
    BY <2>1, <1>1
  <2>2. CASE v = <<t, j, c>>
    BY <2>2 DEF Kept
  <2> QED
    BY <2>1, <2>2
<1> QED
  BY <1>3, <1>4

(* A candidate votes for itself and asks for votes in its new term.         *)
LEMMA StartElectionVotes ==
  ASSUME TypeInv, TypeInv', Fates, VoteInv, NEW i \in Server, StartElection(i)
  PROVE  VoteInv'
<1> DEFINE t == NewTerm(i)
           u == Candidate(i)
<1>0. TypeRf /\ TypeRf'
  BY DEF TypeInv
<1>1. /\ t \in Nat /\ Update(i, u) /\ u.currentTerm = t /\ u.votedFor = i
      /\ u.vote = [term |-> t, voteRecord |-> {}]
      /\ \A m \in msgs' \ msgs : \E j \in Server : m = Ballot(i, j)
      /\ votes' = votes \cup {<<t, i, i>>} /\ elected' = elected
  BY <1>0, StartElectionEffect
<1>2. rf[i].vote.term <= t /\ t > 0 /\ rf[i].vote.term \in Nat
  <2>1. rf[i].currentTerm \in Nat /\ rf[i].vote.term \in Nat
    BY <1>0, VoteTypes
  <2>2. rf[i].vote.term <= rf[i].currentTerm
    BY DEF VoteInv, Ballots
  <2> QED
    BY <2>1, <2>2 DEF NewTerm
<1> HIDE DEF t, u
<1>3. rf'[i] = u /\ \A j \in Server : j # i => rf'[j] = rf[j]
  BY <1>0, <1>1 DEF Update, TypeRf
<1>4. u.vote.term = t /\ u.vote.voteRecord = {}
  BY <1>1
<1>5. OneVote' /\ VotesKept'
  BY <1>1, <1>3, CastOne DEF VoteInv
<1>6. Requests'
  <2> SUFFICES ASSUME NEW m \in msgs', m.type = "RequestVote", m.from # Nil
               PROVE  /\ m.CandidateId = m.from /\ m.Term > 0
                      /\ m.Term <= rf'[m.from].vote.term
    BY DEF Requests
  <2>1. MsgOK(m)
    BY DEF TypeInv, TypeRest
  <2>2. m.from \in Server /\ m.Term \in Nat
    BY <2>1, VoteArgsFields
  <2>3. CASE m \in msgs
    <3>1. m.CandidateId = m.from /\ m.Term > 0 /\ m.Term <= rf[m.from].vote.term
      BY <2>3 DEF VoteInv, Requests
    <3>2. CASE m.from = i
      BY <3>1, <3>2, <2>2, <1>1, <1>2, <1>3, <1>4
    <3>3. CASE m.from # i
      BY <3>1, <3>3, <2>2, <1>3
    <3> QED
      BY <3>2, <3>3
  <2>4. CASE m \notin msgs
    <3>1. m.CandidateId = i /\ m.from = i /\ m.Term = t
      BY <1>1, <2>4 DEF Ballot, t
    <3> QED
      BY <3>1, <1>1, <1>2, <1>3, <1>4
  <2> QED
    BY <2>3, <2>4
<1>7. Replies'
  <2> SUFFICES ASSUME NEW m \in msgs', m.type = "RequestVoteReply"
               PROVE  /\ m.argsTerm > 0 /\ m.argsTerm <= rf'[m.to].vote.term
                      /\ m.VoteGranted => <<m.argsTerm, m.from, m.to>> \in votes'
    BY DEF Replies
  <2>1. m \in msgs
    BY <1>1 DEF Ballot
  <2>2. MsgOK(m)
    BY DEF TypeInv, TypeRest
  <2>3. m.to \in Server /\ m.argsTerm \in Nat
    BY <2>2, VoteReplyFields
  <2>4. /\ m.argsTerm > 0 /\ m.argsTerm <= rf[m.to].vote.term
        /\ m.VoteGranted => <<m.argsTerm, m.from, m.to>> \in votes
    BY <2>1 DEF VoteInv, Replies
  <2>5. m.argsTerm <= rf'[m.to].vote.term
    <3>1. CASE m.to = i
      BY <3>1, <2>3, <2>4, <1>1, <1>2, <1>3, <1>4
    <3>2. CASE m.to # i
      BY <3>2, <2>3, <2>4, <1>3
    <3> QED
      BY <3>1, <3>2
  <2> QED
    BY <2>4, <2>5, <1>1
<1>8. Ballots'
  <2> SUFFICES ASSUME NEW k \in Server
               PROVE  /\ rf'[k].vote.term <= rf'[k].currentTerm
                      /\ rf'[k].vote.term > 0 => <<rf'[k].vote.term, k, k>> \in votes'
                      /\ \A j \in rf'[k].vote.voteRecord : <<rf'[k].vote.term, j, k>> \in votes'
    BY DEF Ballots
  <2>1. CASE k = i
    BY <2>1, <1>1, <1>3, <1>4
  <2>2. CASE k # i
    BY <2>2, <1>1, <1>3 DEF VoteInv, Ballots
  <2> QED
    BY <2>1, <2>2
<1>9. Winners'
  BY <1>1, WinnersKept DEF VoteInv, Winners
<1> QED
  BY <1>5, <1>6, <1>7, <1>8, <1>9 DEF VoteInv

(* A voter answers with a vote it has cast in the term of the request.      *)
LEMMA RequestVoteVotes ==
  ASSUME TypeInv, TypeInv', Fates, VoteInv, NEW i \in Server, NEW r \in msgs, RequestVote(i, r)
  PROVE  VoteInv'
<1> DEFINE s == Checked(i, r)
           u == Voter(i, r)
           g == mayVote(s, r)
           a == VoteAnswer(i, r)
<1>0. TypeRf /\ TypeRf' /\ r.type = "RequestVote" /\ r.to = i /\ MsgOK(r)
  BY DEF TypeInv, TypeRest, RequestVote
<1>1. /\ Update(i, u) /\ Good(u)
      /\ u.currentTerm = s.currentTerm /\ u.vote = rf[i].vote
      /\ g => /\ u.votedFor = r.CandidateId /\ r.CandidateId \in Server
              /\ s.currentTerm = r.Term
      /\ votes' = votes \cup (IF g THEN {<<s.currentTerm, i, r.CandidateId>>} ELSE {})
      /\ \A x \in msgs' : x \in msgs \/ (x = a /\ r.from \in Server)
      /\ elected' = elected
  BY RequestVoteEffect
<1>2. /\ a.type = "RequestVoteReply" /\ a.to = r.from /\ a.from = i /\ a.argsTerm = r.Term
      /\ a.VoteGranted = g
  BY DEF VoteAnswer
<1> HIDE DEF s, u, g, a
<1>3. rf'[i] = u /\ \A j \in Server : j # i => rf'[j] = rf[j]
  BY <1>0, <1>1 DEF Update, TypeRf
<1>4. \A j \in Server : rf'[j].vote = rf[j].vote
  BY <1>1, <1>3
<1>5. OneVote' /\ VotesKept'
  <2>1. CASE g
    <3>1. /\ s.currentTerm \in Nat /\ r.CandidateId \in Server
          /\ votes' = votes \cup {<<s.currentTerm, i, r.CandidateId>>}
          /\ rf'[i].currentTerm = s.currentTerm /\ rf'[i].votedFor = r.CandidateId
      BY <1>1, <1>3, <2>1, GoodFields
    <3> QED
      BY <3>1, CastOne DEF VoteInv
  <2>2. CASE ~g
    <3>1. votes' = votes
      BY <1>1, <2>2
    <3> QED
      BY <3>1, StillKept DEF VoteInv, OneVote, VotesKept
  <2> QED
    BY <2>1, <2>2
<1>6. Requests'
  <2> SUFFICES ASSUME NEW m \in msgs', m.type = "RequestVote", m.from # Nil
               PROVE  /\ m.CandidateId = m.from /\ m.Term > 0
                      /\ m.Term <= rf'[m.from].vote.term
    BY DEF Requests
  <2>1. m \in msgs /\ MsgOK(m)
    BY <1>1, <1>2 DEF TypeInv, TypeRest
  <2>2. m.from \in Server
    BY <2>1, VoteArgsFields
  <2> QED
    BY <2>1, <2>2, <1>4 DEF VoteInv, Requests
<1>7. Replies'
  <2> SUFFICES ASSUME NEW m \in msgs', m.type = "RequestVoteReply"
               PROVE  /\ m.argsTerm > 0 /\ m.argsTerm <= rf'[m.to].vote.term
                      /\ m.VoteGranted => <<m.argsTerm, m.from, m.to>> \in votes'
    BY DEF Replies
  <2>1. CASE m \in msgs
    <3>1. MsgOK(m)
      BY DEF TypeInv, TypeRest
    <3>2. m.to \in Server
      BY <3>1, VoteReplyFields
    <3> QED
      BY <2>1, <3>2, <1>1, <1>4 DEF VoteInv, Replies
  <2>2. CASE m = a /\ r.from \in Server
    <3>1. r.from # Nil
      BY <2>2, NilAssumption
    <3>2. r.CandidateId = r.from /\ r.Term > 0 /\ r.Term <= rf[r.from].vote.term
      BY <1>0, <3>1 DEF VoteInv, Requests
    <3>3. m.argsTerm > 0 /\ m.argsTerm <= rf'[m.to].vote.term
      BY <2>2, <3>2, <1>2, <1>4
    <3>4. g => <<r.Term, i, r.from>> \in votes'
      BY <1>1, <3>2
    <3> QED
      BY <2>2, <3>3, <3>4, <1>2
  <2> QED
    BY <2>1, <2>2, <1>1
<1>8. Ballots'
  <2> SUFFICES ASSUME NEW k \in Server
               PROVE  /\ rf'[k].vote.term <= rf'[k].currentTerm
                      /\ rf'[k].vote.term > 0 => <<rf'[k].vote.term, k, k>> \in votes'
                      /\ \A j \in rf'[k].vote.voteRecord : <<rf'[k].vote.term, j, k>> \in votes'
    BY DEF Ballots
  <2>1. rf'[k].vote = rf[k].vote /\ rf'[k].currentTerm >= rf[k].currentTerm
    BY <1>4 DEF Fates, Fate
  <2>2. rf[k].currentTerm \in Nat /\ rf[k].vote.term \in Nat /\ rf'[k].currentTerm \in Nat
    BY <1>0, VoteTypes, GoodFields DEF TypeRf
  <2>3. rf[k].vote.term <= rf[k].currentTerm
    BY DEF VoteInv, Ballots
  <2>4. rf'[k].vote.term <= rf'[k].currentTerm
    BY <2>1, <2>2, <2>3
  <2> QED
    BY <2>1, <2>4, <1>1 DEF VoteInv, Ballots
<1>9. Winners'
  <2>1. votes \subseteq votes'
    BY <1>1
  <2> QED
    BY <1>1, <2>1, WinnersKept DEF VoteInv, Winners
<1> QED
  BY <1>5, <1>6, <1>7, <1>8, <1>9 DEF VoteInv

(* A candidate counts a vote only if it was cast for its current ballot,    *)
(* and wins only with the votes of a majority, its own included.            *)
LEMMA VoteReplyVotes ==
  ASSUME TypeInv, TypeInv', Fates, VoteInv, NEW i \in Server, NEW r \in msgs, VoteReply(i, r)
  PROVE  VoteInv'
<1> DEFINE s == Checked(i, r)
<1>0. TypeRf /\ TypeRf' /\ r.type = "RequestVoteReply" /\ r.to = i /\ MsgOK(r)
  BY DEF TypeInv, TypeRest, VoteReply
<1>1. PICK u :
        /\ Good(u) /\ Update(i, u)
        /\ u.currentTerm = s.currentTerm
        /\ u.vote.term = rf[i].vote.term
        /\ \/ u.vote.voteRecord = rf[i].vote.voteRecord /\ UNCHANGED elected
           \/ /\ u.vote.voteRecord = rf[i].vote.voteRecord \cup {r.from}
              /\ countsVote(s, r)
              /\ \/ UNCHANGED elected
                 \/ /\ elected' = elected \cup {<<s.currentTerm, i>>}
                    /\ Majority({i} \cup u.vote.voteRecord)
        /\ msgs' \subseteq msgs
        /\ votes' = votes
  BY VoteReplyEffect
<1>2. r.from \in Server /\ r.Term \in Nat /\ r.argsTerm \in Nat
  BY <1>0, VoteReplyFields
<1>3. rf[i].currentTerm \in Nat /\ rf[i].vote.term \in Nat /\ rf[i].vote.voteRecord \in SUBSET Server
  BY <1>0, VoteTypes
<1>4. s.currentTerm \in Nat /\ s.currentTerm >= rf[i].currentTerm
  BY <1>0, <1>2, CheckedGood DEF Fate
<1>5. countsVote(s, r) => r.argsTerm = s.currentTerm /\ r.VoteGranted
  BY DEF countsVote
<1> HIDE DEF s
<1>6. /\ r.argsTerm > 0 /\ r.argsTerm <= rf[i].vote.term /\ rf[i].vote.term <= rf[i].currentTerm
      /\ r.VoteGranted => <<r.argsTerm, r.from, i>> \in votes
  BY <1>0 DEF VoteInv, Replies, Ballots
<1>7. countsVote(s, r) => /\ rf[i].vote.term = s.currentTerm /\ rf[i].vote.term > 0
                          /\ <<rf[i].vote.term, r.from, i>> \in votes
  BY <1>2, <1>3, <1>4, <1>5, <1>6
<1>8. rf'[i] = u /\ \A j \in Server : j # i => rf'[j] = rf[j]
  BY <1>0, <1>1 DEF Update, TypeRf
<1>9. \A j \in Server : rf'[j].vote.term = rf[j].vote.term
  BY <1>1, <1>8
<1>10. OneVote' /\ VotesKept'
  BY <1>1, StillKept DEF VoteInv, OneVote, VotesKept
<1>11. Requests'
  <2> SUFFICES ASSUME NEW m \in msgs', m.type = "RequestVote", m.from # Nil
               PROVE  /\ m.CandidateId = m.from /\ m.Term > 0
                      /\ m.Term <= rf'[m.from].vote.term
    BY DEF Requests
  <2>1. m \in msgs /\ MsgOK(m)
    BY <1>1 DEF TypeInv, TypeRest
  <2>2. m.from \in Server
    BY <2>1, VoteArgsFields
  <2> QED
    BY <2>1, <2>2, <1>9 DEF VoteInv, Requests
<1>12. Replies'
  <2> SUFFICES ASSUME NEW m \in msgs', m.type = "RequestVoteReply"
               PROVE  /\ m.argsTerm > 0 /\ m.argsTerm <= rf'[m.to].vote.term
                      /\ m.VoteGranted => <<m.argsTerm, m.from, m.to>> \in votes'
    BY DEF Replies
  <2>1. m \in msgs /\ MsgOK(m)
    BY <1>1 DEF TypeInv, TypeRest
  <2>2. m.to \in Server
    BY <2>1, VoteReplyFields
  <2> QED
    BY <2>1, <2>2, <1>1, <1>9 DEF VoteInv, Replies
<1>13. /\ u.vote.term <= u.currentTerm
       /\ u.vote.term > 0 => <<u.vote.term, i, i>> \in votes
       /\ \A j \in u.vote.voteRecord : <<u.vote.term, j, i>> \in votes
  <2>1. u.vote.term <= u.currentTerm
    BY <1>1, <1>3, <1>4, <1>6
  <2>2. /\ rf[i].vote.term > 0 => <<rf[i].vote.term, i, i>> \in votes
        /\ \A j \in rf[i].vote.voteRecord : <<rf[i].vote.term, j, i>> \in votes
    BY DEF VoteInv, Ballots
  <2> QED
    BY <2>1, <2>2, <1>1, <1>7
<1>14. Ballots'
  <2> SUFFICES ASSUME NEW k \in Server
               PROVE  /\ rf'[k].vote.term <= rf'[k].currentTerm
                      /\ rf'[k].vote.term > 0 => <<rf'[k].vote.term, k, k>> \in votes'
                      /\ \A j \in rf'[k].vote.voteRecord : <<rf'[k].vote.term, j, k>> \in votes'
    BY DEF Ballots
  <2>1. CASE k = i
    BY <2>1, <1>1, <1>8, <1>13
  <2>2. CASE k # i
    BY <2>2, <1>1, <1>8 DEF VoteInv, Ballots
  <2> QED
    BY <2>1, <2>2
<1>15. Winners'
  <2> SUFFICES ASSUME NEW e \in elected'
               PROVE  HasMajority(e)'
    BY DEF Winners
  <2>1. CASE e \in elected
    BY <2>1, <1>1, WinnersKept DEF VoteInv, Winners
  <2>2. CASE e \notin elected
    <3> DEFINE Q == {i} \cup u.vote.voteRecord
    <3>1. e = <<s.currentTerm, i>> /\ Majority(Q) /\ countsVote(s, r)
      BY <2>2, <1>1
    <3>2. e[1] = u.vote.term /\ e[2] = i /\ u.vote.term > 0
      BY <3>1, <1>1, <1>7
    <3>3. Q \in SUBSET Server
      BY <1>1, <1>2, <1>3
    <3>4. \A j \in Q : <<e[1], j, e[2]>> \in votes'
      BY <3>2, <1>1, <1>13
    <3> HIDE DEF Q
    <3> QED
      BY <3>1, <3>3, <3>4 DEF HasMajority, Majority
  <2> QED
    BY <2>1, <2>2
<1> QED
  BY <1>10, <1>11, <1>12, <1>14, <1>15 DEF VoteInv

(* A crash forgets the ballot, and with it every request and reply of it.   *)
LEMMA RestartVotes ==
  ASSUME TypeInv, TypeInv', Fates, VoteInv, NEW i \in Server, Restart(i)
  PROVE  VoteInv'
<1>0. TypeRf /\ TypeRf'
  BY DEF TypeInv
<1>1. PICK u : Update(i, u) /\ u.vote = [term |-> 0, voteRecord |-> {}] /\ Good(u)
  BY RestartEffect
<1>2. u.vote.term = 0 /\ u.vote.voteRecord = {} /\ u.currentTerm \in Nat
  BY <1>1, GoodFields
<1>3. rf'[i] = u /\ \A j \in Server : j # i => rf'[j] = rf[j]
  BY <1>0, <1>1 DEF Update, TypeRf
<1>4. votes' = votes /\ elected' = elected
  BY DEF Restart
<1>5. OneVote' /\ VotesKept'
  BY <1>4, StillKept DEF VoteInv, OneVote, VotesKept
<1>6. \A x \in msgs' :
         \/ x \in msgs /\ (x.to = i => isRequest(x)) /\ ~(x.from = i /\ isRequest(x))
         \/ isRequest(x) /\ x.from = Nil
  BY RestartMsgs, OrphanOK DEF TypeInv, TypeRest, isRequest
<1>7. Requests'
  <2> SUFFICES ASSUME NEW m \in msgs', m.type = "RequestVote", m.from # Nil
               PROVE  /\ m.CandidateId = m.from /\ m.Term > 0
                      /\ m.Term <= rf'[m.from].vote.term
    BY DEF Requests
  <2>1. m \in msgs /\ m.from # i
    BY <1>6 DEF isRequest
  <2>2. MsgOK(m)
    BY DEF TypeInv, TypeRest
  <2>3. m.from \in Server
    BY <2>2, VoteArgsFields
  <2> QED
    BY <2>1, <2>3, <1>3 DEF VoteInv, Requests
<1>8. Replies'
  <2> SUFFICES ASSUME NEW m \in msgs', m.type = "RequestVoteReply"
               PROVE  /\ m.argsTerm > 0 /\ m.argsTerm <= rf'[m.to].vote.term
                      /\ m.VoteGranted => <<m.argsTerm, m.from, m.to>> \in votes'
    BY DEF Replies
  <2>1. m \in msgs /\ m.to # i
    BY <1>6 DEF isRequest
  <2>2. MsgOK(m)
    BY DEF TypeInv, TypeRest
  <2>3. m.to \in Server
    BY <2>2, VoteReplyFields
  <2> QED
    BY <2>1, <2>3, <1>3, <1>4 DEF VoteInv, Replies
<1>9. Ballots'
  <2> SUFFICES ASSUME NEW k \in Server
               PROVE  /\ rf'[k].vote.term <= rf'[k].currentTerm
                      /\ rf'[k].vote.term > 0 => <<rf'[k].vote.term, k, k>> \in votes'
                      /\ \A j \in rf'[k].vote.voteRecord : <<rf'[k].vote.term, j, k>> \in votes'
    BY DEF Ballots
  <2>1. CASE k = i
    BY <2>1, <1>2, <1>3
  <2>2. CASE k # i
    BY <2>2, <1>3, <1>4 DEF VoteInv, Ballots
  <2> QED
    BY <2>1, <2>2
<1>10. Winners'
  BY <1>4, WinnersKept DEF VoteInv, Winners
<1> QED
  BY <1>5, <1>7, <1>8, <1>9, <1>10 DEF VoteInv

-----------------------------------------------------------------------------
(* Nobody has voted initially.                                              *)
LEMMA InitVotes ==
  ASSUME Init
  PROVE  VoteInv
<1>1. \A i \in Server : rf[i].vote.term = 0 /\ rf[i].vote.voteRecord = {} /\ rf[i].currentTerm = 0
  BY DEF Init, Make, readPersist
<1>2. Ballots
  BY <1>1 DEF Ballots, Init
<1> QED
  BY <1>2 DEF Init, VoteInv, OneVote, VotesKept, Requests, Replies, Winners

(* Every step keeps the invariant of votes.                                 *)
LEMMA NextVotes ==
  ASSUME TypeInv, VoteInv, [Next]_vars
  PROVE  VoteInv'
<1>0. TypeInv' /\ Fates
  BY NextType
<1>1. CASE UNCHANGED vars
  BY <1>1, <1>0, VoteKeep DEF vars
<1>2. CASE Next
  <2> SUFFICES ASSUME NEW i \in Server,
                      \/ ServiceSteps(i) \/ FollowerTimeout(i) \/ CandidateTimeout(i)
                      \/ \E m \in msgs : Receive(i, m) \/ Lose(m)
                      \/ VoteReplacesToken(i)
                      \/ Ticks(i)
                      \/ \E command \in Command : Start(i, command)
                      \/ Restart(i)
               PROVE  VoteInv'
    BY <1>2 DEF Next
  <2>1. CASE StartElection(i)
    BY <1>0, <2>1, StartElectionVotes
  <2>2. CASE /\ ServiceSteps(i) \/ FollowerTimeout(i) \/ CandidateTimeout(i)
             /\ ~StartElection(i)
    <3>1. SameVotes /\ UNCHANGED <<msgs, votes, elected>>
      BY <2>2, QuietSteps DEF ServiceSteps
    <3> QED
      BY <1>0, <3>1, VoteKeep DEF SameVotes
  <2>3. CASE \E m \in msgs : RequestVote(i, m)
    BY <1>0, <2>3, RequestVoteVotes
  <2>4. CASE \E m \in msgs : VoteReply(i, m)
    BY <1>0, <2>4, VoteReplyVotes
  <2>5. CASE \E m \in msgs : AppendEntries(i, m) \/ AppendReply(i, m)
    <3>1. /\ SameVotes /\ UNCHANGED <<votes, elected>>
          /\ \A x \in msgs' : x \in msgs \/ x.type \in {"AppendEntries", "AppendEntriesReply"}
      BY <2>5, ReplicationSteps
    <3> QED
      BY <1>0, <3>1, VoteKeep DEF SameVotes
  <2>6. CASE \/ VoteReplacesToken(i) \/ Ticks(i)
             \/ \E m \in msgs : Lose(m)
             \/ \E command \in Command : Start(i, command)
    <3>1. /\ SameVotes /\ UNCHANGED <<votes, elected>>
          /\ \A x \in msgs' : x \in msgs \/ x.type \in {"AppendEntries", "AppendEntriesReply"}
      BY <2>6, OtherSteps
    <3> QED
      BY <1>0, <3>1, VoteKeep DEF SameVotes
  <2>7. CASE Restart(i)
    BY <1>0, <2>7, RestartVotes
  <2> QED
    BY <2>1, <2>2, <2>3, <2>4, <2>5, <2>6, <2>7 DEF Receive
<1> QED
  BY <1>1, <1>2

(* Two majorities of the peers have a member in common.                     *)
LEMMA MajoritiesMeet ==
  ASSUME NEW P \in SUBSET Server, NEW Q \in SUBSET Server, Majority(P), Majority(Q)
  PROVE  P \cap Q # {}
<1>1. IsFiniteSet(Server) /\ IsFiniteSet(P) /\ IsFiniteSet(Q)
  BY ServerAssumption, FS_Subset
<1>2. Cardinality(Server) \in Nat /\ Cardinality(P) \in Nat /\ Cardinality(Q) \in Nat
  BY <1>1, FS_CardinalityType
<1> DEFINE n == Cardinality(Server)
           p == Cardinality(P)
           q == Cardinality(Q)
<1>3. p > n \div 2 /\ q > n \div 2 /\ n \in Nat /\ p \in Nat /\ q \in Nat
  BY <1>2 DEF Majority
<1> HIDE DEF n, p, q
<1>4. p + q > n
  BY <1>3
<1> QED
  BY <1>1, <1>4, FS_MajoritiesIntersect DEF n, p, q

(* The invariant leaves one winner per term.                                *)
LEMMA VoteInvOneWinner ==
  ASSUME VoteInv
  PROVE  OneWinnerPerTerm
<1> SUFFICES ASSUME NEW e \in elected, NEW f \in elected, e[1] = f[1]
             PROVE  e[2] = f[2]
  BY DEF OneWinnerPerTerm
<1>1. PICK P \in SUBSET Server : Majority(P) /\ \A j \in P : <<e[1], j, e[2]>> \in votes
  BY DEF VoteInv, Winners, HasMajority
<1>2. PICK Q \in SUBSET Server : Majority(Q) /\ \A j \in Q : <<f[1], j, f[2]>> \in votes
  BY DEF VoteInv, Winners, HasMajority
<1>3. PICK j \in P : j \in Q
  BY <1>1, <1>2, MajoritiesMeet
<1>4. <<e[1], j, e[2]>> \in votes /\ <<e[1], j, f[2]>> \in votes
  BY <1>1, <1>2, <1>3
<1> QED
  BY <1>4 DEF VoteInv, OneVote

(* At most one peer ever collects a majority of votes for a term: for any   *)
(* number of peers and crashes, any schedule of the service goroutine, and  *)
(* messages delayed, lost, repeated or reordered.                           *)
THEOREM OneWinner == Spec => []OneWinnerPerTerm
<1>1. Init => VoteInv
  BY InitVotes
<1>2. TypeInv /\ VoteInv /\ [Next]_vars => VoteInv'
  BY NextVotes
<1>3. VoteInv => OneWinnerPerTerm
  BY VoteInvOneWinner
<1> QED
  BY <1>1, <1>2, <1>3, TypeCorrect, PTL DEF Spec

-----------------------------------------------------------------------------
(***************************************************************************)
(* What a prompt service goroutine buys.  If no handler runs between a role *)
(* token being put in convertState and the service goroutine having entered *)
(* the loop it asks for, then the role the handlers see and the loop the    *)
(* goroutine is in agree, whoever says it leads has won its term, and the   *)
(* leader loop never receives a token it would panic on.  Without that      *)
(* assumption both fail (section 8 of the README, run raft_two_leaders).    *)
(***************************************************************************)

(* The role the handlers see, the token and the loop agree.                 *)
RoleOK(s) ==
  /\ s.mutex = Nil
  /\ s.convertState # Nil =>
        /\ InLoop(s) /\ s.state = s.convertState
        /\ s.convertState = "leader" => s.service = "candidate"
  /\ s.convertState = Nil =>
        \/ s.service \in {"asFollower", "follower"} /\ s.state = "follower"
        \/ s.service = "asCandidate" /\ s.state # "leader"
        \/ s.service \in {"startElection", "candidate"} /\ s.state = "candidate"
        \/ s.service \in {"asLeader", "leader"} /\ s.state = "leader"

(* A leader has won its term.                                               *)
Won(i, s) == s.state = "leader" => <<s.currentTerm, i>> \in elected

RoleInv == \A i \in Server : RoleOK(rf[i]) /\ Won(i, rf[i])

-----------------------------------------------------------------------------
(* Changing one peer's role lawfully, without forgetting a winner.          *)
LEMMA RoleTouch ==
  ASSUME TypeRf, RoleInv, NEW i \in Server, NEW u, Update(i, u), RoleOK(u),
         u.state = "leader" => <<u.currentTerm, i>> \in elected',
         elected \subseteq elected'
  PROVE  RoleInv'
<1>1. rf'[i] = u /\ \A j \in Server : j # i => rf'[j] = rf[j]
  BY DEF TypeRf, Update
<1> SUFFICES ASSUME NEW j \in Server
             PROVE  RoleOK(rf'[j]) /\ (rf'[j].state = "leader" => <<rf'[j].currentTerm, j>> \in elected')
  BY DEF RoleInv, Won
<1>2. CASE j = i
  BY <1>1, <1>2
<1>3. CASE j # i
  BY <1>1, <1>3 DEF RoleInv, Won
<1> QED
  BY <1>2, <1>3

(* The role fields after a step of the service goroutine.                   *)
LEMMA RoleFields ==
  ASSUME NEW s, Good(s), NEW st \in {"follower", "candidate", "leader"},
         NEW cs \in {Nil, "follower", "leader"},
         NEW sv \in {"asFollower", "follower", "asCandidate", "startElection",
                     "candidate", "asLeader", "leader", "panic"}
  PROVE  /\ LET u == [s EXCEPT !.state = st, !.service = sv]
            IN  /\ u.currentTerm = s.currentTerm /\ u.mutex = s.mutex /\ u.state = st
                /\ u.convertState = s.convertState /\ u.service = sv
         /\ LET u == [s EXCEPT !.service = sv]
            IN  /\ u.currentTerm = s.currentTerm /\ u.mutex = s.mutex /\ u.state = s.state
                /\ u.convertState = s.convertState /\ u.service = sv
         /\ LET u == [s EXCEPT !.convertState = cs]
            IN  /\ u.currentTerm = s.currentTerm /\ u.mutex = s.mutex /\ u.state = s.state
                /\ u.convertState = cs /\ u.service = s.service
         /\ LET u == [s EXCEPT !.convertState = cs, !.service = sv]
            IN  /\ u.currentTerm = s.currentTerm /\ u.mutex = s.mutex /\ u.state = s.state
                /\ u.convertState = cs /\ u.service = sv
  BY DEF Good, RaftObject

(* Tokens are "follower" or "leader".                                       *)
LEMMA TokenNames == Nil \notin {"follower", "leader", "vote"}
  BY NilAssumption

(* The loops entered and left with rf.mu free, and the timers.              *)
LEMMA EnterRole ==
  ASSUME TypeInv, RoleInv, PromptService, NEW i \in Server,
         \/ runAsFollower(i) \/ FollowerTimeout(i)
         \/ runAsCandidate(i) \/ CandidateTimeout(i)
  PROVE  RoleInv'
<1> DEFINE s == rf[i]
<1>0. TypeRf /\ Good(s) /\ RoleOK(s) /\ Won(i, s)
  BY DEF TypeInv, TypeRf, RoleInv
<1>1. elected' = elected
  BY DEF runAsFollower, FollowerTimeout, runAsCandidate, CandidateTimeout
<1>2. CASE runAsFollower(i)
  <2> DEFINE u == [s EXCEPT !.state = "follower", !.service = "follower"]
  <2>1. Update(i, u) /\ s.service = "asFollower"
    BY <1>2 DEF runAsFollower, ServiceLocks
  <2>2. /\ u.currentTerm = s.currentTerm /\ u.mutex = s.mutex /\ u.state = "follower"
        /\ u.convertState = s.convertState /\ u.service = "follower"
    BY <1>0, RoleFields
  <2> HIDE DEF u, s
  <2>3. RoleOK(u)
    BY <1>0, <2>1, <2>2, TokenNames DEF RoleOK, InLoop
  <2> QED
    BY <1>0, <1>1, <2>1, <2>2, <2>3, RoleTouch
<1>3. CASE FollowerTimeout(i)
  <2> DEFINE u == [s EXCEPT !.service = "asCandidate"]
  <2>1. Update(i, u) /\ s.service = "follower" /\ s.convertState = Nil
    BY <1>3 DEF FollowerTimeout, TimerFires
  <2>2. /\ u.currentTerm = s.currentTerm /\ u.mutex = s.mutex /\ u.state = s.state
        /\ u.convertState = s.convertState /\ u.service = "asCandidate"
    BY <1>0, RoleFields
  <2> HIDE DEF u, s
  <2>3. RoleOK(u) /\ u.state # "leader"
    BY <1>0, <2>1, <2>2 DEF RoleOK, InLoop
  <2> QED
    BY <1>0, <1>1, <2>1, <2>2, <2>3, RoleTouch
<1>4. CASE runAsCandidate(i)
  <2> DEFINE u == [s EXCEPT !.state = "candidate", !.service = "startElection"]
  <2>1. Update(i, u) /\ s.service = "asCandidate"
    BY <1>4 DEF runAsCandidate, ServiceLocks
  <2>2. /\ u.currentTerm = s.currentTerm /\ u.mutex = s.mutex /\ u.state = "candidate"
        /\ u.convertState = s.convertState /\ u.service = "startElection"
    BY <1>0, RoleFields
  <2> HIDE DEF u, s
  <2>3. RoleOK(u)
    BY <1>0, <2>1, <2>2 DEF RoleOK, InLoop
  <2> QED
    BY <1>0, <1>1, <2>1, <2>2, <2>3, RoleTouch
<1>5. CASE CandidateTimeout(i)
  <2> DEFINE u == [s EXCEPT !.service = "asCandidate"]
  <2>1. Update(i, u) /\ s.service = "candidate" /\ s.convertState = Nil
    BY <1>5 DEF CandidateTimeout, TimerFires
  <2>2. /\ u.currentTerm = s.currentTerm /\ u.mutex = s.mutex /\ u.state = s.state
        /\ u.convertState = s.convertState /\ u.service = "asCandidate"
    BY <1>0, RoleFields
  <2> HIDE DEF u, s
  <2>3. RoleOK(u) /\ u.state # "leader"
    BY <1>0, <2>1, <2>2 DEF RoleOK, InLoop
  <2> QED
    BY <1>0, <1>1, <2>1, <2>2, <2>3, RoleTouch
<1> QED
  BY <1>2, <1>3, <1>4, <1>5

(* The service goroutine receives a token.                                  *)
LEMMA ReceiveToken ==
  ASSUME TypeInv, RoleInv, NEW i \in Server,
         FollowerResetsTimer(i) \/ CandidateConverts(i) \/ LeaderConverts(i)
  PROVE  RoleInv'
<1> DEFINE s == rf[i]
<1>0. TypeRf /\ Good(s) /\ RoleOK(s) /\ Won(i, s)
  BY DEF TypeInv, TypeRf, RoleInv
<1>1. elected' = elected /\ s.convertState # Nil
  BY DEF FollowerResetsTimer, CandidateConverts, LeaderConverts
<1>2. s.convertState \in {"follower", "leader"}
  BY <1>0, <1>1, GoodFields
<1>3. CASE FollowerResetsTimer(i)
  <2> DEFINE u == [s EXCEPT !.convertState = Nil]
  <2>1. Update(i, u) /\ s.service = "follower"
    BY <1>3 DEF FollowerResetsTimer
  <2>2. /\ u.currentTerm = s.currentTerm /\ u.mutex = s.mutex /\ u.state = s.state
        /\ u.convertState = Nil /\ u.service = s.service
    BY <1>0, RoleFields
  <2> HIDE DEF u, s
  <2>3. RoleOK(u) /\ u.state # "leader"
    BY <1>0, <1>1, <1>2, <2>1, <2>2 DEF RoleOK, InLoop
  <2> QED
    BY <1>0, <1>1, <2>1, <2>2, <2>3, RoleTouch
<1>4. CASE CandidateConverts(i)
  <2> DEFINE sv == IF s.convertState = "follower" THEN "asFollower" ELSE "asLeader"
             u == [s EXCEPT !.convertState = Nil, !.service = sv]
  <2>1. Update(i, u)
    BY <1>4 DEF CandidateConverts
  <2> HIDE DEF sv
  <2>2. /\ u.currentTerm = s.currentTerm /\ u.mutex = s.mutex /\ u.state = s.state
        /\ u.convertState = Nil /\ u.service = sv
    BY <1>0, RoleFields DEF sv
  <2> HIDE DEF u, s
  <2>3. RoleOK(u)
    BY <1>0, <1>1, <1>2, <2>2 DEF RoleOK, InLoop, sv
  <2>4. u.state = "leader" => <<u.currentTerm, i>> \in elected
    BY <1>0, <2>2 DEF Won
  <2> QED
    BY <1>0, <1>1, <2>1, <2>3, <2>4, RoleTouch
<1>5. CASE LeaderConverts(i)
  <2>0. s.convertState = "follower" /\ s.state = "follower"
    BY <1>0, <1>1, <1>2, <1>5 DEF RoleOK, LeaderConverts
  <2> DEFINE u == [s EXCEPT !.convertState = Nil, !.service = "asFollower"]
  <2>1. Update(i, u)
    BY <1>5, <2>0 DEF LeaderConverts
  <2>2. /\ u.currentTerm = s.currentTerm /\ u.mutex = s.mutex /\ u.state = s.state
        /\ u.convertState = Nil /\ u.service = "asFollower"
    BY <1>0, RoleFields
  <2> HIDE DEF u, s
  <2>3. RoleOK(u)
    BY <1>0, <2>0, <2>2 DEF RoleOK, InLoop
  <2> QED
    BY <1>0, <1>1, <2>0, <2>1, <2>2, <2>3, RoleTouch
<1> QED
  BY <1>3, <1>4, <1>5

(* A candidate starts an election; the winner enters the leader loop.       *)
LEMMA ElectionRoles ==
  ASSUME TypeInv, RoleInv, NEW i \in Server, StartElection(i) \/ runAsLeader(i)
  PROVE  RoleInv'
<1> DEFINE s == rf[i]
<1>0. TypeRf /\ Good(s) /\ RoleOK(s) /\ Won(i, s)
  BY DEF TypeInv, TypeRf, RoleInv
<1>1. CASE StartElection(i)
  <2>1. /\ Update(i, Candidate(i)) /\ Candidate(i).state = "candidate"
        /\ Candidate(i).service = "candidate" /\ Candidate(i).convertState = s.convertState
        /\ Candidate(i).mutex = s.mutex /\ elected' = elected
    BY <1>0, <1>1, StartElectionEffect
  <2>2. s.service = "startElection"
    BY <1>1 DEF StartElection, ServiceLocks
  <2> HIDE DEF s
  <2>3. RoleOK(Candidate(i))
    BY <1>0, <2>1, <2>2 DEF RoleOK, InLoop
  <2> QED
    BY <1>0, <2>1, <2>3, RoleTouch
<1>2. CASE runAsLeader(i)
  <2> DEFINE n == [j \in Server |-> getLastLogIndex(s) + 1]
             k == [j \in Server |-> 0]
             u == [s EXCEPT !.state = "leader", !.service = "leader",
                            !.nextIndex = n, !.matchIndex = k]
  <2>1. Update(i, u) /\ s.service = "asLeader" /\ elected' = elected
    BY <1>2 DEF runAsLeader, ServiceLocks
  <2> HIDE DEF n, k
  <2>2. /\ u.currentTerm = s.currentTerm /\ u.mutex = s.mutex /\ u.state = "leader"
        /\ u.convertState = s.convertState /\ u.service = "leader"
    BY <1>0 DEF Good, RaftObject
  <2> HIDE DEF u, s
  <2>3. RoleOK(u) /\ s.state = "leader"
    BY <1>0, <2>1, <2>2 DEF RoleOK, InLoop
  <2>4. <<u.currentTerm, i>> \in elected
    BY <1>0, <2>2, <2>3 DEF Won
  <2> QED
    BY <1>0, <2>1, <2>3, <2>4, RoleTouch
<1> QED
  BY <1>1, <1>2

-----------------------------------------------------------------------------
(* A handler that obtains rf.mu finds no token and a service goroutine in   *)
(* its loop.                                                                *)
Settled(s) == InLoop(s) /\ s.convertState = Nil

(* s may become u without anyone becoming leader.                           *)
NoPromotion(s, u) == u.state = "leader" => s.state = "leader" /\ u.currentTerm = s.currentTerm

(* Adopting a newer term makes a follower of a settled peer.                *)
LEMMA CheckRole ==
  ASSUME NEW s, Good(s), RoleOK(s), Settled(s), NEW t \in Nat
  PROVE  LET u == checkCurrentTerm(s, t)
         IN  /\ Good(u) /\ RoleOK(u) /\ InLoop(u) /\ NoPromotion(s, u)
             /\ u.convertState # Nil => u.state = "follower"
<1> DEFINE u == checkCurrentTerm(s, t)
<1>1. /\ Good(u)
      /\ u.currentTerm = IF t <= s.currentTerm THEN s.currentTerm ELSE t
      /\ u.state = IF t > s.currentTerm /\ s.convertState = Nil THEN "follower" ELSE s.state
      /\ u.convertState = IF /\ t > s.currentTerm /\ s.convertState = Nil
                             /\ s.state # "follower"
                          THEN "follower" ELSE s.convertState
      /\ u.service = s.service /\ u.mutex = s.mutex
  BY CheckTerm
<1>2. s.currentTerm \in Nat
  BY GoodFields
<1> HIDE DEF u
<1>3. CASE t > s.currentTerm /\ s.state # "follower"
  <2>1. u.state = "follower" /\ u.convertState = "follower"
    BY <1>1, <1>3 DEF Settled
  <2>2. RoleOK(u) /\ InLoop(u)
    BY <1>1, <2>1, TokenNames DEF RoleOK, InLoop, Settled
  <2> QED
    BY <1>1, <2>1, <2>2 DEF NoPromotion, u
<1>4. CASE t > s.currentTerm /\ s.state = "follower"
  <2>1. u.state = "follower" /\ u.convertState = Nil
    BY <1>1, <1>4 DEF Settled
  <2>2. RoleOK(u) /\ InLoop(u)
    BY <1>1, <1>4, <2>1 DEF RoleOK, InLoop, Settled
  <2> QED
    BY <1>1, <2>1, <2>2 DEF NoPromotion, u
<1>5. CASE ~(t > s.currentTerm)
  <2>1. u.state = s.state /\ u.convertState = Nil /\ u.currentTerm = s.currentTerm
    BY <1>1, <1>2, <1>5 DEF Settled
  <2>2. RoleOK(u) /\ InLoop(u)
    BY <1>1, <2>1 DEF RoleOK, InLoop, Settled
  <2> QED
    BY <1>1, <2>1, <2>2 DEF NoPromotion, u
<1> QED
  BY <1>3, <1>4, <1>5

(* A leader's message makes a follower of a peer that does not lead.        *)
LEMMA FollowRole ==
  ASSUME NEW s, Good(s), RoleOK(s), InLoop(s)
  PROVE  RoleOK(followLeader(s)) /\ NoPromotion(s, followLeader(s))
<1> DEFINE u == followLeader(s)
<1>1. /\ u.state = IF s.state \in {"follower", "candidate"} /\ s.convertState = Nil
                   THEN "follower" ELSE s.state
      /\ u.convertState = IF s.state \in {"follower", "candidate"} /\ s.convertState = Nil
                          THEN "follower" ELSE s.convertState
      /\ u.service = s.service /\ u.mutex = s.mutex /\ u.currentTerm = s.currentTerm
  BY Follow DEF Untouched
<1> HIDE DEF u
<1>2. CASE s.state \in {"follower", "candidate"} /\ s.convertState = Nil
  <2>1. u.state = "follower" /\ u.convertState = "follower"
    BY <1>1, <1>2
  <2> QED
    BY <1>1, <2>1, TokenNames DEF RoleOK, InLoop, NoPromotion, u
<1>3. CASE ~(s.state \in {"follower", "candidate"} /\ s.convertState = Nil)
  <2>1. u.state = s.state /\ u.convertState = s.convertState
    BY <1>1, <1>3
  <2> QED
    BY <1>1, <2>1 DEF RoleOK, InLoop, NoPromotion, u
<1> QED
  BY <1>2, <1>3

(* Granting a vote resets the election timer of a follower.                 *)
LEMMA GrantRole ==
  ASSUME NEW s, Good(s), RoleOK(s), InLoop(s), NEW c \in Server
  PROVE  RoleOK(grantVote(s, c)) /\ NoPromotion(s, grantVote(s, c))
<1> DEFINE u == grantVote(s, c)
<1>1. /\ u.state = s.state /\ u.currentTerm = s.currentTerm
      /\ u.convertState = IF s.state = "follower" /\ s.convertState = Nil
                          THEN "follower" ELSE s.convertState
      /\ u.service = s.service /\ u.mutex = s.mutex
  BY Grant
<1> HIDE DEF u
<1>2. CASE s.state = "follower" /\ s.convertState = Nil
  <2>1. u.state = "follower" /\ u.convertState = "follower"
    BY <1>1, <1>2
  <2> QED
    BY <1>1, <2>1, TokenNames DEF RoleOK, InLoop, NoPromotion, u
<1>3. CASE ~(s.state = "follower" /\ s.convertState = Nil)
  <2>1. u.state = s.state /\ u.convertState = s.convertState
    BY <1>1, <1>3
  <2> QED
    BY <1>1, <2>1 DEF RoleOK, InLoop, NoPromotion, u
<1> QED
  BY <1>2, <1>3

(* Objects with the same role.                                              *)
LEMMA SameRoleOK ==
  ASSUME NEW s, NEW u, RoleOK(s), SameRole(s, u)
  PROVE  RoleOK(u) /\ NoPromotion(s, u)
  BY DEF RoleOK, SameRole, InLoop, NoPromotion

(* The peer a handler of a prompt service works on.                         *)
LEMMA LockedRole ==
  ASSUME TypeInv, RoleInv, PromptService, NEW i \in Server, CanLock(i), NEW m, m.Term \in Nat
  PROVE  LET s == Checked(i, m)
         IN  /\ TypeRf /\ Settled(rf[i]) /\ Good(s) /\ RoleOK(s) /\ InLoop(s)
             /\ NoPromotion(rf[i], s)
             /\ s.convertState # Nil => s.state = "follower"
             /\ RoleOK(rf[i]) /\ Won(i, rf[i])
<1>1. TypeRf /\ Good(rf[i]) /\ RoleOK(rf[i]) /\ Won(i, rf[i])
  BY DEF TypeInv, TypeRf, RoleInv
<1>2. Settled(rf[i])
  BY DEF CanLock, Settled
<1> QED
  BY <1>1, <1>2, CheckRole DEF Checked

(* A step after which i is a leader only if it was one in the same term.    *)
LEMMA NoPromotionStep ==
  ASSUME TypeRf, RoleInv, NEW i \in Server, NEW u, Update(i, u), RoleOK(u),
         NoPromotion(rf[i], u), elected \subseteq elected'
  PROVE  RoleInv'
<1>1. u.state = "leader" => <<u.currentTerm, i>> \in elected'
  BY DEF RoleInv, Won, NoPromotion
<1> QED
  BY <1>1, RoleTouch

(* Requests for votes, and replication.                                     *)
LEMMA HandlerRoles ==
  ASSUME TypeInv, RoleInv, PromptService, NEW i \in Server, NEW m \in msgs,
         RequestVote(i, m) \/ AppendEntries(i, m) \/ AppendReply(i, m)
  PROVE  RoleInv'
<1> DEFINE s == Checked(i, m)
<1>0. CanLock(i) /\ TypeRf
  BY DEF RequestVote, AppendEntries, AppendReply, TypeInv
<1>1. CASE RequestVote(i, m)
  <2>1. m.Term \in Nat /\ m.CandidateId \in Server
    BY <1>1, VoteArgsFields DEF TypeInv, TypeRest, RequestVote
  <2>2. Good(s) /\ RoleOK(s) /\ InLoop(s) /\ NoPromotion(rf[i], s)
    BY <1>0, <2>1, LockedRole
  <2>3. Update(i, Voter(i, m)) /\ elected' = elected
    BY <1>1, RequestVoteEffect
  <2>4. Voter(i, m) \in {s, grantVote(s, m.CandidateId)}
    BY DEF Voter
  <2> HIDE DEF s
  <2>5. RoleOK(grantVote(s, m.CandidateId)) /\ NoPromotion(s, grantVote(s, m.CandidateId))
    BY <2>1, <2>2, GrantRole
  <2>6. RoleOK(Voter(i, m)) /\ NoPromotion(rf[i], Voter(i, m))
    BY <2>2, <2>4, <2>5 DEF NoPromotion
  <2> QED
    BY <1>0, <2>3, <2>6, NoPromotionStep
<1>2. CASE AppendEntries(i, m)
  <2> DEFINE t == followLeader(s)
  <2>1. /\ m.Term \in Nat /\ elected' = elected
        /\ \E u : Update(i, u) /\ (SameRole(s, u) \/ SameRole(t, u))
    BY <1>2, AppendEntriesEffect
  <2>2. Good(s) /\ RoleOK(s) /\ InLoop(s) /\ NoPromotion(rf[i], s)
    BY <1>0, <2>1, LockedRole
  <2> HIDE DEF s
  <2>3. RoleOK(t) /\ NoPromotion(s, t)
    BY <2>2, FollowRole
  <2> HIDE DEF t
  <2>4. PICK u : Update(i, u) /\ (SameRole(s, u) \/ SameRole(t, u))
    BY <2>1
  <2>5. RoleOK(u) /\ (NoPromotion(s, u) \/ NoPromotion(t, u))
    BY <2>2, <2>3, <2>4, SameRoleOK
  <2>6. NoPromotion(rf[i], u)
    BY <2>2, <2>3, <2>5 DEF NoPromotion
  <2> QED
    BY <1>0, <2>1, <2>4, <2>5, <2>6, NoPromotionStep
<1>3. CASE AppendReply(i, m)
  <2>1. /\ m.Term \in Nat /\ elected' = elected
        /\ \E u : Update(i, u) /\ SameRole(Heard(i, m), u)
    BY <1>3, AppendReplyEffect
  <2>2. RoleOK(s) /\ NoPromotion(rf[i], s) /\ RoleOK(rf[i])
    BY <1>0, <2>1, LockedRole
  <2>3. RoleOK(Heard(i, m)) /\ NoPromotion(rf[i], Heard(i, m))
    BY <2>2 DEF Heard, NoPromotion
  <2>4. PICK u : Update(i, u) /\ SameRole(Heard(i, m), u)
    BY <2>1
  <2>5. RoleOK(u) /\ NoPromotion(Heard(i, m), u)
    BY <2>3, <2>4, SameRoleOK
  <2>6. NoPromotion(rf[i], u)
    BY <2>3, <2>5 DEF NoPromotion
  <2> QED
    BY <1>0, <2>1, <2>4, <2>5, <2>6, NoPromotionStep
<1> QED
  BY <1>1, <1>2, <1>3

(* The winner of an election is told so, and only the winner; the counter   *)
(* never finds the channel full.                                            *)
LEMMA WinnerRoles ==
  ASSUME TypeInv, RoleInv, PromptService, NEW i \in Server, NEW m \in msgs, VoteReply(i, m)
  PROVE  RoleInv'
<1> DEFINE s == Checked(i, m)
           t == Counted(i, m)
           t1 == [t EXCEPT !.state = "leader", !.convertState = "leader"]
<1>0. CanLock(i) /\ TypeRf
  BY DEF VoteReply, TypeInv
<1>1. m.Term \in Nat /\ m.from \in Server
  BY VoteReplyFields DEF TypeInv, TypeRest, VoteReply
<1>2. /\ Good(s) /\ RoleOK(s) /\ InLoop(s) /\ NoPromotion(rf[i], s)
      /\ s.convertState # Nil => s.state = "follower"
  BY <1>0, <1>1, LockedRole
<1>3. PICK u : Update(i, u) /\ Outcome(i, m, u)
  BY VoteReplyEffect
<1>4. /\ Good(t) /\ t.currentTerm = s.currentTerm /\ t.state = s.state
      /\ t.convertState = s.convertState /\ t.service = s.service /\ t.mutex = s.mutex
  BY <1>1, <1>2, WithVoteGood DEF Counted
<1>5. countsVote(s, m) => s.state = "candidate"
  BY DEF countsVote
<1>6. \/ u = s /\ elected' = elected
      \/ u = t /\ elected' = elected
      \/ /\ u = t1 /\ elected' = elected \cup {<<s.currentTerm, i>>}
         /\ s.convertState = Nil /\ s.state = "candidate"
  BY <1>2, <1>3, <1>5 DEF Outcome
<1> HIDE DEF s, t
<1>7. CASE u = s /\ elected' = elected
  BY <1>0, <1>2, <1>3, <1>7, NoPromotionStep
<1>8. CASE u = t /\ elected' = elected
  <2>1. RoleOK(t) /\ NoPromotion(rf[i], t)
    BY <1>2, <1>4 DEF RoleOK, InLoop, NoPromotion
  <2> QED
    BY <1>0, <1>3, <1>8, <2>1, NoPromotionStep
<1>9. CASE /\ u = t1 /\ elected' = elected \cup {<<s.currentTerm, i>>}
           /\ s.convertState = Nil /\ s.state = "candidate"
  <2>1. /\ t1.currentTerm = t.currentTerm /\ t1.service = t.service /\ t1.state = "leader"
        /\ t1.convertState = "leader" /\ t1.mutex = t.mutex
    BY <1>4, WinnerGood
  <2> HIDE DEF t1
  <2>2. s.service = "candidate"
    BY <1>2, <1>9 DEF RoleOK, InLoop
  <2>3. RoleOK(t1)
    BY <1>2, <1>4, <2>1, <2>2, TokenNames DEF RoleOK, InLoop
  <2>4. <<t1.currentTerm, i>> \in elected' /\ elected \subseteq elected'
    BY <1>4, <1>9, <2>1
  <2> QED
    BY <1>0, <1>3, <1>9, <2>3, <2>4, RoleTouch
<1> QED
  BY <1>6, <1>7, <1>8, <1>9

(* The remaining steps.                                                     *)
LEMMA OtherRoles ==
  ASSUME TypeInv, RoleInv, NEW i \in Server,
         \/ VoteReplacesToken(i) \/ Ticks(i) \/ Restart(i)
         \/ \E m \in msgs : Lose(m)
         \/ \E command \in Command : Start(i, command)
  PROVE  RoleInv'
<1>0. TypeRf /\ RoleOK(rf[i])
  BY DEF TypeInv, RoleInv
<1>1. CASE VoteReplacesToken(i)
  BY <1>0, <1>1, TokenNames DEF VoteReplacesToken, RoleOK
<1>2. CASE Ticks(i) \/ \E m \in msgs : Lose(m)
  BY <1>2 DEF Ticks, sendAppendEntriesTo, Lose, RoleInv, Won
<1>3. CASE Restart(i)
  <2>1. PICK u : /\ Update(i, u) /\ u.state = "follower" /\ u.convertState = Nil
                 /\ u.service = "asFollower" /\ u.mutex = Nil
    BY <1>3, RestartEffect
  <2>2. RoleOK(u) /\ NoPromotion(rf[i], u)
    BY <2>1 DEF RoleOK, NoPromotion
  <2>3. elected' = elected
    BY <1>3 DEF Restart
  <2> QED
    BY <1>0, <2>1, <2>2, <2>3, NoPromotionStep
<1>4. CASE \E command \in Command : Start(i, command)
  <2>1. PICK command \in Command : Start(i, command)
    BY <1>4
  <2>2. PICK u : Update(i, u) /\ SameRole(rf[i], u)
    BY <2>1, StartEffect DEF SameRole
  <2>3. RoleOK(u) /\ NoPromotion(rf[i], u)
    BY <1>0, <2>2, SameRoleOK
  <2>4. elected' = elected
    BY <2>1 DEF Start
  <2> QED
    BY <1>0, <2>2, <2>3, <2>4, NoPromotionStep
<1> QED
  BY <1>1, <1>2, <1>3, <1>4

-----------------------------------------------------------------------------
(* Everyone starts as a follower.                                           *)
LEMMA InitRoles ==
  ASSUME Init
  PROVE  RoleInv
  BY DEF Init, Make, readPersist, RoleInv, RoleOK, Won

(* Every step of a prompt service keeps the roles in agreement.             *)
LEMMA NextRoles ==
  ASSUME TypeInv, RoleInv, PromptService, [Next]_vars
  PROVE  RoleInv'
<1>1. CASE UNCHANGED vars
  BY <1>1 DEF vars, RoleInv, Won
<1>2. CASE Next
  BY <1>2, EnterRole, ReceiveToken, ElectionRoles, HandlerRoles, WinnerRoles, OtherRoles
     DEF Next, ServiceSteps, Receive
<1> QED
  BY <1>1, <1>2

(* With a prompt service goroutine, no two peers claim to lead the same     *)
(* term (GetState), and the panic of runAsLeader is not reached: for any    *)
(* number of peers and crashes and any behaviour of the network.            *)
THEOREM PromptLeaders ==
  ASSUME PromptService
  PROVE  Spec => []OneLeaderPerTerm /\ []NoPanic
<1>1. Init => RoleInv
  BY InitRoles
<1>2. TypeInv /\ RoleInv /\ [Next]_vars => RoleInv'
  BY NextRoles
<1>3. RoleInv /\ OneWinnerPerTerm => OneLeaderPerTerm
  <2> SUFFICES ASSUME RoleInv, OneWinnerPerTerm, NEW i \in Server, NEW j \in Server,
                      GetState(i) = GetState(j), GetState(i).isLeader
               PROVE  i = j
    BY DEF OneLeaderPerTerm
  <2>1. /\ rf[i].currentTerm = rf[j].currentTerm
        /\ rf[i].state = "leader" /\ rf[j].state = "leader"
    BY DEF GetState
  <2>2. <<rf[i].currentTerm, i>> \in elected /\ <<rf[i].currentTerm, j>> \in elected
    BY <2>1 DEF RoleInv, Won
  <2> QED
    BY <2>2 DEF OneWinnerPerTerm
<1>4. RoleInv => NoPanic
  BY TokenNames DEF RoleInv, RoleOK, NoPanic, InLoop
<1> QED
  BY <1>1, <1>2, <1>3, <1>4, TypeCorrect, OneWinner, PTL DEF Spec

=============================================================================
