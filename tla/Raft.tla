-------------------------------- MODULE Raft --------------------------------
(***************************************************************************)
(* The Raft peer of src/2019104236/src/raft/raft.go: leader election, log   *)
(* replication, commitment, delivery on applyCh, persistence and restart.   *)
(*                                                                          *)
(* Every critical section of rf.mu is one action.  The service goroutine    *)
(* (runService and the three runAs* loops) is a process of its own: it      *)
(* learns about role changes through the channel convertState, of capacity  *)
(* one, and re-acquires rf.mu when it enters a loop, so the role it plays   *)
(* (field service) and the role the handlers see (field state) differ for a *)
(* while.  PromptService bounds that while: when TRUE, no other goroutine   *)
(* of a peer obtains rf.mu, and no timer of it fires, between a token being *)
(* put in convertState and the service goroutine having entered the loop    *)
(* the token asks for.                                                      *)
(*                                                                          *)
(* The service on top never calls Compaction here, so the log starts with   *)
(* the sentinel entry and lastIncludedLogEntry is the zero entry; module    *)
(* RaftSnapshot adds compaction.                                            *)
(***************************************************************************)
EXTENDS Integers, Sequences, FiniteSets, FiniteSetsExt

CONSTANTS
    Server,         \* the peers
    Nil,            \* no vote (-1), no token, no caller, nil command
    Command,        \* what the service hands to Start
    PromptService,  \* scheduling assumption, see above
    MaxTerm,        \* bound: no election starts beyond this term
    MaxIndex,       \* bound: a log holds at most this many commands
    MaxRestarts,    \* bound: crashes and restarts in a behaviour
    MaxInFlight     \* bound: requests and replies in flight

ASSUME ServerAssumption == IsFiniteSet(Server) /\ Server # {}
ASSUME NilAssumption == /\ Nil \notin Server \cup Command
                        /\ Nil \notin {"follower", "leader", "vote"}
                        /\ "vote" \notin Server
ASSUME PromptAssumption == PromptService \in BOOLEAN
ASSUME BoundAssumption == {MaxTerm, MaxIndex, MaxRestarts, MaxInFlight} \subseteq Nat

VARIABLES
    rf,         \* rf[i]: the Raft object of peer i, and its persister
    msgs,       \* RPC requests and replies in flight
    restarts,   \* crashes so far
    votes,      \* history: <<term, voter, candidate>> for every vote cast
    elected,    \* history: <<term, server>> for every majority collected
    applied     \* history: every entry delivered on some applyCh, and in which term

vars == <<rf, msgs, restarts, votes, elected, applied>>

-----------------------------------------------------------------------------
(* The log.  An entry carries its index, and log[1] need not be entry 0.    *)

logEntry == [Term : Nat, Index : Nat, Command : Command \cup {Nil}]

zeroEntry == [Term |-> 0, Index |-> 0, Command |-> Nil]

getLastLogIndex(s) == s.log[Len(s.log)].Index

getLastLogTerm(s) == s.log[Len(s.log)].Term

hasLogEntry(s, n) == s.log[1].Index <= n /\ n <= getLastLogIndex(s)

getLogEntry(s, n) ==
    IF hasLogEntry(s, n) THEN s.log[n - s.log[1].Index + 1] ELSE zeroEntry

getIndexOfLogEntryFirstTerm(s, term) ==
    LET found == {k \in 1..Len(s.log) : s.log[k].Term = term}
    IN  IF found = {} THEN 0 ELSE s.log[Min(found)].Index

deleteEntryFrom(s, n) ==
    IF getLastLogIndex(s) < n THEN s
    ELSE [s EXCEPT !.log = SubSeq(@, 1, n - s.log[1].Index)]

getEntryFrom(s, n) == SubSeq(s.log, n - s.log[1].Index + 1, Len(s.log))

(* Seeded fault: whatever follows the first entry received is cut off, also *)
(* when nothing conflicts.                                                  *)
mergeEntries_AlwaysCuts(s, entries) ==
    IF entries = <<>> THEN s
    ELSE LET cut == deleteEntryFrom(s, entries[1].Index)
         IN  [cut EXCEPT !.log = @ \o entries]

(* Seeded fault: entries that conflict are kept.                            *)
mergeEntries_KeepsConflicts(s, entries) ==
    LET new == {k \in 1..Len(entries) : entries[k].Index > getLastLogIndex(s)}
    IN  IF new = {} THEN s
        ELSE [s EXCEPT !.log = @ \o SubSeq(entries, Min(new), Len(entries))]

(* The two loops of AppendEntries: cut at the first conflict, then append   *)
(* what the log does not have yet.                                          *)
mergeEntries(s, entries) ==
    LET conflicts == {e \in {entries[k] : k \in 1..Len(entries)} :
                        /\ hasLogEntry(s, e.Index)
                        /\ getLogEntry(s, e.Index).Term # e.Term}
        cut == IF conflicts = {} THEN s
               ELSE deleteEntryFrom(s, Min({e.Index : e \in conflicts}))
        new == {k \in 1..Len(entries) : entries[k].Index > getLastLogIndex(cut)}
    IN  IF new = {} THEN cut
        ELSE [cut EXCEPT !.log = @ \o SubSeq(entries, Min(new), Len(entries))]

-----------------------------------------------------------------------------
(* Steps inside a critical section, as functions of the Raft object.        *)

(* Seeded fault: an empty log is saved.                                     *)
persist_NoLog(s) ==
    [s EXCEPT !.raftstate = [currentTerm |-> s.currentTerm,
                             votedFor    |-> s.votedFor,
                             log         |-> <<>>]]

(* Seeded fault: the log saved is the one saved before.                     *)
persist_OldLog(s) ==
    [s EXCEPT !.raftstate = [currentTerm |-> s.currentTerm,
                             votedFor    |-> s.votedFor,
                             log         |-> @.log]]

persist(s) ==
    [s EXCEPT !.raftstate = [currentTerm |-> s.currentTerm,
                             votedFor    |-> s.votedFor,
                             log         |-> s.log]]

(* Seeded fault: the newer term is not saved.                               *)
checkCurrentTerm_Unsaved(s, term) ==
    IF term <= s.currentTerm THEN s
    ELSE LET t == [s EXCEPT !.currentTerm = term, !.votedFor = Nil]
         IN  IF t.convertState = Nil /\ t.state # "follower"
             THEN [t EXCEPT !.state = "follower", !.convertState = "follower"]
             ELSE t

checkCurrentTerm(s, term) ==
    IF term <= s.currentTerm THEN s
    ELSE LET t == persist([s EXCEPT !.currentTerm = term, !.votedFor = Nil])
         IN  IF t.convertState = Nil /\ t.state # "follower"
             THEN [t EXCEPT !.state = "follower", !.convertState = "follower"]
             ELSE t

(* Seeded fault: the vote is not saved.                                     *)
grantVote_Unsaved(s, candidateId) ==
    LET t == [s EXCEPT !.votedFor = candidateId]
    IN  IF t.state = "follower" /\ t.convertState = Nil
        THEN [t EXCEPT !.convertState = "follower"]
        ELSE t

grantVote(s, candidateId) ==
    LET t == persist([s EXCEPT !.votedFor = candidateId])
    IN  IF t.state = "follower" /\ t.convertState = Nil
        THEN [t EXCEPT !.convertState = "follower"]
        ELSE t

(* AppendEntries of the current term: a peer that is not leading resets its *)
(* election timer, a candidate gives up.                                    *)
followLeader(s) ==
    IF s.state \in {"follower", "candidate"} /\ s.convertState = Nil
    THEN [s EXCEPT !.state = "follower", !.convertState = "follower"]
    ELSE s

toApply(s) ==
    {[term |-> s.currentTerm, entry |-> getLogEntry(s, n)] :
        n \in {k \in (s.lastApplied + 1)..s.commitIndex : hasLogEntry(s, k)}}

applyLogToStateMachine(s) ==
    [s EXCEPT !.lastApplied = IF s.commitIndex > @ THEN s.commitIndex ELSE @]

readPersist(saved) ==
    [state        |-> "follower",
     currentTerm  |-> saved.currentTerm,
     votedFor     |-> saved.votedFor,
     log          |-> saved.log,
     commitIndex  |-> 0,
     lastApplied  |-> 0,
     nextIndex    |-> [j \in Server |-> 0],
     matchIndex   |-> [j \in Server |-> 0],
     convertState |-> Nil,
     service      |-> "asFollower",
     vote         |-> [term |-> 0, voteRecord |-> {}],
     mutex        |-> Nil,
     raftstate    |-> saved]

Make == readPersist([currentTerm |-> 0, votedFor |-> Nil, log |-> <<zeroEntry>>])

Init ==
    /\ rf = [i \in Server |-> Make]
    /\ msgs = {}
    /\ restarts = 0
    /\ votes = {}
    /\ elected = {}
    /\ applied = {}

Update(i, s) == rf' = [rf EXCEPT ![i] = s]

-----------------------------------------------------------------------------
(* labrpc.  A RequestVote is sent once and handled at most once; one that   *)
(* is never handled is lost.  The leader's ticker repeats an AppendEntries  *)
(* for as long as nothing changes, so when one is handled (or its reply     *)
(* is) another copy may remain in flight.  from = Nil: the calling instance *)
(* is dead and nobody hears the reply.                                      *)

Reply(m, r) == IF m.from = Nil THEN {} ELSE {r}

Room(ms) == Cardinality(ms) <= MaxInFlight

Deliver(m, replies) ==
    /\ \/ msgs' = (msgs \ {m}) \cup replies
       \/ msgs' = msgs \cup replies /\ m.type \in {"AppendEntries", "AppendEntriesReply"}
    /\ Room(msgs')

(* labrpc drops a request or a reply.                                       *)
Lose(m) ==
    /\ msgs' = msgs \ {m}
    /\ UNCHANGED <<rf, restarts, votes, elected, applied>>

-----------------------------------------------------------------------------
(* rf.mu.  mutex = "vote": held for good or ill by the goroutine that       *)
(* counts a vote and waits to receive from convertState.                    *)

InLoop(s) == s.service \in {"follower", "candidate", "leader"}

(* A handler, a reply or Start obtains rf.mu.                               *)
CanLock(i) ==
    /\ rf[i].mutex = Nil
    /\ rf[i].service # "panic"
    /\ PromptService => InLoop(rf[i]) /\ rf[i].convertState = Nil

ServiceLocks(i, at) == rf[i].service = at /\ rf[i].mutex = Nil

TimerFires(i, at) ==
    /\ rf[i].service = at
    /\ PromptService => rf[i].convertState = Nil

-----------------------------------------------------------------------------
(* The service goroutine.                                                   *)

runAsFollower(i) ==
    /\ ServiceLocks(i, "asFollower")
    /\ Update(i, [rf[i] EXCEPT !.state = "follower", !.service = "follower"])
    /\ UNCHANGED <<msgs, restarts, votes, elected, applied>>

FollowerTimeout(i) ==
    /\ TimerFires(i, "follower")
    /\ rf[i].currentTerm < MaxTerm
    /\ Update(i, [rf[i] EXCEPT !.service = "asCandidate"])
    /\ UNCHANGED <<msgs, restarts, votes, elected, applied>>

FollowerResetsTimer(i) ==
    /\ rf[i].service = "follower" /\ rf[i].convertState # Nil
    /\ Update(i, [rf[i] EXCEPT !.convertState = Nil])
    /\ UNCHANGED <<msgs, restarts, votes, elected, applied>>

runAsCandidate(i) ==
    /\ ServiceLocks(i, "asCandidate")
    /\ Update(i, [rf[i] EXCEPT !.state = "candidate", !.service = "startElection"])
    /\ UNCHANGED <<msgs, restarts, votes, elected, applied>>

StartElection(i) ==
    /\ ServiceLocks(i, "startElection")
    /\ rf[i].currentTerm < MaxTerm
    /\ LET term == rf[i].currentTerm + 1
           s    == persist([rf[i] EXCEPT !.state = "candidate",
                                         !.currentTerm = term,
                                         !.votedFor = i,
                                         !.service = "candidate",
                                         !.vote = [term |-> term, voteRecord |-> {}]])
       IN  /\ Update(i, s)
           /\ \E peers \in SUBSET (Server \ {i}) :
                msgs' = msgs \cup
                  {[type |-> "RequestVote", to |-> j, from |-> i, Term |-> term,
                    CandidateId  |-> i,
                    LastLogIndex |-> getLastLogIndex(s),
                    LastLogTerm  |-> IF getLastLogIndex(s) = 0 THEN 0
                                     ELSE getLastLogTerm(s)] : j \in peers}
           /\ Room(msgs')
           /\ votes' = votes \cup {<<term, i, i>>}
    /\ UNCHANGED <<restarts, elected, applied>>

CandidateTimeout(i) ==
    /\ TimerFires(i, "candidate")
    /\ rf[i].currentTerm < MaxTerm
    /\ Update(i, [rf[i] EXCEPT !.service = "asCandidate"])
    /\ UNCHANGED <<msgs, restarts, votes, elected, applied>>

CandidateConverts(i) ==
    /\ rf[i].service = "candidate" /\ rf[i].convertState # Nil
    /\ Update(i, [rf[i] EXCEPT !.convertState = Nil,
                               !.service = IF rf[i].convertState = "follower"
                                           THEN "asFollower" ELSE "asLeader"])
    /\ UNCHANGED <<msgs, restarts, votes, elected, applied>>

(* Seeded fault: the next index is taken one too far.                       *)
runAsLeader_OffByOne(i) ==
    /\ ServiceLocks(i, "asLeader")
    /\ Update(i, [rf[i] EXCEPT
                    !.state = "leader",
                    !.service = "leader",
                    !.nextIndex = [j \in Server |-> getLastLogIndex(rf[i]) + 2],
                    !.matchIndex = [j \in Server |-> 0]])
    /\ UNCHANGED <<msgs, restarts, votes, elected, applied>>

runAsLeader(i) ==
    /\ ServiceLocks(i, "asLeader")
    /\ Update(i, [rf[i] EXCEPT
                    !.state = "leader",
                    !.service = "leader",
                    !.nextIndex = [j \in Server |-> getLastLogIndex(rf[i]) + 1],
                    !.matchIndex = [j \in Server |-> 0]])
    /\ UNCHANGED <<msgs, restarts, votes, elected, applied>>

(* A leader loop that receives "leader" panics, and with it the process.    *)
LeaderConverts(i) ==
    /\ rf[i].service = "leader" /\ rf[i].convertState # Nil
    /\ Update(i, [rf[i] EXCEPT !.convertState = Nil,
                               !.service = IF rf[i].convertState = "follower"
                                           THEN "asFollower" ELSE "panic"])
    /\ UNCHANGED <<msgs, restarts, votes, elected, applied>>

-----------------------------------------------------------------------------
(* RPC handlers.                                                            *)

(* Seeded fault: the longer log wins, whatever its last term.               *)
upToDate_ByLength(s, m) == m.LastLogIndex >= getLastLogIndex(s)

upToDate(s, m) ==
    \/ m.LastLogTerm > getLastLogTerm(s)
    \/ m.LastLogTerm = getLastLogTerm(s) /\ m.LastLogIndex >= getLastLogIndex(s)

(* Seeded fault: a second candidate of the term gets the vote too.          *)
mayVote_Again(s, m) == m.Term >= s.currentTerm /\ upToDate(s, m)

mayVote(s, m) ==
    /\ m.Term >= s.currentTerm
    /\ s.votedFor \in {Nil, m.CandidateId}
    /\ upToDate(s, m)

RequestVote(i, m) ==
    /\ m.type = "RequestVote" /\ m.to = i
    /\ CanLock(i)
    /\ LET s     == checkCurrentTerm(rf[i], m.Term)
           grant == mayVote(s, m)
       IN  /\ Update(i, IF grant THEN grantVote(s, m.CandidateId) ELSE s)
           /\ votes' = votes \cup (IF grant THEN {<<s.currentTerm, i, m.CandidateId>>} ELSE {})
           /\ Deliver(m, Reply(m,
                [type |-> "RequestVoteReply", to |-> m.from, from |-> i,
                 argsTerm |-> m.Term, Term |-> s.currentTerm,
                 VoteGranted |-> grant]))
    /\ UNCHANGED <<restarts, elected, applied>>

(* Seeded fault: the term of the previous entry is not compared.            *)
prevMatches_AnyTerm(s, m) ==
    m.PrevLogIndex = 0 \/ hasLogEntry(s, m.PrevLogIndex)

prevMatches(s, m) ==
    \/ m.PrevLogIndex = 0
    \/ /\ hasLogEntry(s, m.PrevLogIndex)
       /\ getLogEntry(s, m.PrevLogIndex).Term = m.PrevLogTerm

appendReply(i, m, term, success, conflictIndex, conflictTerm) ==
    [type |-> "AppendEntriesReply", to |-> m.from, from |-> i,
     argsTerm |-> m.Term, argsMatch |-> m.PrevLogIndex + Len(m.Entries),
     Term |-> term, Success |-> success,
     ConflictIndex |-> conflictIndex, ConflictTerm |-> conflictTerm]

(* Commit up to the leader's commit index, not beyond the last new entry.   *)
advanceCommit(s, m) ==
    LET lastNew == IF m.Entries = <<>> THEN m.PrevLogIndex
                   ELSE m.Entries[Len(m.Entries)].Index
    IN  IF m.LeaderCommit <= s.commitIndex THEN s
        ELSE [s EXCEPT !.commitIndex = IF m.LeaderCommit > lastNew
                                       THEN lastNew ELSE m.LeaderCommit]

AppendEntries(i, m) ==
    /\ m.type = "AppendEntries" /\ m.to = i
    /\ CanLock(i)
    /\ LET s == checkCurrentTerm(rf[i], m.Term)
           t == followLeader(s)
           c == advanceCommit(persist(mergeEntries(t, m.Entries)), m)
       IN  \/ /\ m.Term < s.currentTerm
              /\ Update(i, s)
              /\ Deliver(m, Reply(m, appendReply(i, m, s.currentTerm, FALSE, 0, 0)))
              /\ UNCHANGED applied
           \/ /\ m.Term >= s.currentTerm
              /\ ~prevMatches(t, m)
              /\ Update(i, t)
              /\ Deliver(m, Reply(m,
                    IF hasLogEntry(t, m.PrevLogIndex)
                    THEN LET e == getLogEntry(t, m.PrevLogIndex)
                         IN  appendReply(i, m, t.currentTerm, FALSE,
                                getIndexOfLogEntryFirstTerm(t, e.Term), e.Term)
                    ELSE appendReply(i, m, t.currentTerm, FALSE, getLastLogIndex(t) + 1, -1)))
              /\ UNCHANGED applied
           \/ /\ m.Term >= s.currentTerm
              /\ prevMatches(t, m)
              /\ IF m.LeaderCommit > t.commitIndex
                 THEN /\ Update(i, applyLogToStateMachine(c))
                      /\ applied' = applied \cup toApply(c)
                 ELSE Update(i, c) /\ UNCHANGED applied
              /\ Deliver(m, Reply(m, appendReply(i, m, t.currentTerm, TRUE, 0, 0)))
    /\ UNCHANGED <<restarts, votes, elected>>

-----------------------------------------------------------------------------
(* The caller's side of the RPCs, and Start.                                *)

Majority(S) == Cardinality(S) > Cardinality(Server) \div 2

(* Seeded fault: votes are still counted once the election is won.          *)
countsVote_Always(s, m) ==
    /\ m.VoteGranted
    /\ m.argsTerm = s.currentTerm
    /\ m.from \notin s.vote.voteRecord

countsVote(s, m) ==
    /\ s.state = "candidate" /\ m.VoteGranted
    /\ m.argsTerm = s.currentTerm
    /\ m.from \notin s.vote.voteRecord

(* One vote more; i's own vote is the initial voteCount of 1.               *)
VoteReply(i, m) ==
    /\ m.type = "RequestVoteReply" /\ m.to = i
    /\ CanLock(i)
    /\ Deliver(m, {})
    /\ LET s      == checkCurrentTerm(rf[i], m.Term)
           counts == countsVote(s, m)
           t      == [s EXCEPT !.vote.voteRecord = @ \cup {m.from}]
           wins   == Majority({i} \cup t.vote.voteRecord)
       IN  \/ /\ ~counts
              /\ Update(i, s)
              /\ UNCHANGED elected
           \/ /\ counts /\ ~wins
              /\ Update(i, t)
              /\ UNCHANGED elected
           \/ /\ counts /\ wins /\ s.convertState = Nil
              /\ Update(i, [t EXCEPT !.state = "leader", !.convertState = "leader"])
              /\ elected' = elected \cup {<<s.currentTerm, i>>}
           \/ /\ counts /\ wins /\ s.convertState # Nil
              /\ Update(i, [t EXCEPT !.mutex = "vote"])
              /\ elected' = elected \cup {<<s.currentTerm, i>>}
    /\ UNCHANGED <<restarts, votes, applied>>

(* The vote counter found the channel full and receives the old token, if   *)
(* the service goroutine has not received it first.                         *)
VoteReplacesToken(i) ==
    /\ rf[i].mutex = "vote" /\ rf[i].convertState # Nil
    /\ Update(i, [rf[i] EXCEPT !.state = "leader", !.convertState = "leader",
                               !.mutex = Nil])
    /\ UNCHANGED <<msgs, restarts, votes, elected, applied>>

(* The log no longer holds, or does not hold yet, what peer j needs next.   *)
needsSnapshot(s, j) ==
    LET prev == s.nextIndex[j] - 1
    IN  \/ prev # 0 /\ ~hasLogEntry(s, prev)
        \/ getLastLogIndex(s) >= s.nextIndex[j] /\ ~hasLogEntry(s, prev + 1)

(* Goroutines of sendAppendEntriesTo exist once runAsLeader has run in this *)
(* instance.  The branch that sends a snapshot is in RaftSnapshot; without  *)
(* compaction it is not taken, see NextIndexInLog.                          *)
sendAppendEntriesTo(i, j) ==
    LET s    == rf[i]
        prev == s.nextIndex[j] - 1
    IN  /\ i # j
        /\ CanLock(i)
        /\ s.state = "leader"
        /\ s.nextIndex[j] > 0
        /\ ~needsSnapshot(s, j)
        /\ msgs' = msgs \cup
             {[type |-> "AppendEntries", to |-> j, from |-> i, Term |-> s.currentTerm,
               PrevLogIndex |-> prev,
               PrevLogTerm  |-> IF prev = 0 THEN 0 ELSE getLogEntry(s, prev).Term,
               Entries      |-> IF getLastLogIndex(s) >= s.nextIndex[j]
                                THEN getEntryFrom(s, prev + 1) ELSE <<>>,
               LeaderCommit |-> s.commitIndex]}
        /\ Room(msgs')
        /\ UNCHANGED <<rf, restarts, votes, elected, applied>>

advanceLeaderCommit(s, n) ==
    IF /\ n > s.commitIndex
       /\ getLogEntry(s, n).Term = s.currentTerm
       /\ 1 + Cardinality({j \in Server : s.matchIndex[j] >= n})
            > Cardinality(Server) \div 2
    THEN [s EXCEPT !.commitIndex = n]
    ELSE s

(* Seeded fault: the scan for the end of the term's run does not stop.      *)
backUp_ToEnd(s, m) ==
    LET same == {n \in 1..getLastLogIndex(s) : getLogEntry(s, n).Term = m.ConflictTerm}
    IN  IF m.ConflictTerm = -1 \/ same = {} THEN m.ConflictIndex
        ELSE getLastLogIndex(s) + 1

(* Where to resume after a rejection: past the run of the conflicting term  *)
(* if the leader has that term, else where the follower says.               *)
backUp(s, m) ==
    LET last  == getLastLogIndex(s)
        same  == {n \in 1..last : getLogEntry(s, n).Term = m.ConflictTerm}
        after == {n \in 1..(last + 1) :
                    /\ n > Min(same)
                    /\ n = last + 1 \/ getLogEntry(s, n).Term # m.ConflictTerm}
    IN  IF m.ConflictTerm = -1 \/ same = {} THEN m.ConflictIndex ELSE Min(after)

AppendReply(i, m) ==
    /\ m.type = "AppendEntriesReply" /\ m.to = i
    /\ CanLock(i)
    /\ LET s == IF m.argsTerm < rf[i].currentTerm THEN rf[i]
                ELSE checkCurrentTerm(rf[i], m.Term)
           j == m.from
           c == advanceLeaderCommit([s EXCEPT !.nextIndex[j] = m.argsMatch + 1,
                                              !.matchIndex[j] = m.argsMatch],
                                    m.argsMatch)
           current == m.argsTerm >= rf[i].currentTerm /\ s.state # "follower"
       IN  \/ /\ ~current \/ (~m.Success /\ m.argsTerm < m.Term)
              /\ Update(i, s)
              /\ UNCHANGED applied
           \/ /\ current /\ m.Success
              /\ IF c.commitIndex > s.commitIndex
                 THEN /\ Update(i, applyLogToStateMachine(c))
                      /\ applied' = applied \cup toApply(c)
                 ELSE Update(i, c) /\ UNCHANGED applied
           \/ /\ current /\ ~m.Success /\ m.argsTerm >= m.Term
              /\ Update(i, [s EXCEPT !.nextIndex[j] = backUp(s, m)])
              /\ UNCHANGED applied
    /\ Deliver(m, {})
    /\ UNCHANGED <<restarts, votes, elected>>

Start(i, command) ==
    /\ CanLock(i)
    /\ rf[i].state = "leader"
    /\ getLastLogIndex(rf[i]) < MaxIndex
    /\ Update(i, persist([rf[i] EXCEPT !.log = Append(@,
                    [Term |-> rf[i].currentTerm,
                     Index |-> getLastLogIndex(rf[i]) + 1,
                     Command |-> command])]))
    /\ UNCHANGED <<msgs, restarts, votes, elected, applied>>

-----------------------------------------------------------------------------
(* A crash loses everything but raftstate.  It may also hit a handler that  *)
(* has persisted a newer term and nothing else yet.  Replies to the old     *)
(* instance are lost; its requests may still arrive.                        *)

CrashStates(i) ==
    {rf[i].raftstate} \cup
    {checkCurrentTerm(rf[i], m.Term).raftstate :
        m \in {n \in msgs :
                /\ n.to = i /\ CanLock(i)
                /\ n.type = "AppendEntriesReply" => n.argsTerm >= rf[i].currentTerm}}

isRequest(m) == m.type \in {"RequestVote", "AppendEntries", "InstallSnapshot"}

Restart(i) ==
    /\ restarts < MaxRestarts
    /\ restarts' = restarts + 1
    /\ \E saved \in CrashStates(i) : Update(i, readPersist(saved))
    /\ msgs' = {IF m.from = i /\ isRequest(m) THEN [m EXCEPT !.from = Nil] ELSE m :
                    m \in {n \in msgs : n.to = i => isRequest(n)}}
    /\ UNCHANGED <<votes, elected, applied>>

-----------------------------------------------------------------------------
(* The service goroutine proceeds without waiting for a timer.              *)
ServiceSteps(i) ==
    \/ runAsFollower(i) \/ FollowerResetsTimer(i)
    \/ runAsCandidate(i) \/ StartElection(i) \/ CandidateConverts(i)
    \/ runAsLeader(i) \/ LeaderConverts(i)

Receive(i, m) ==
    RequestVote(i, m) \/ AppendEntries(i, m) \/ VoteReply(i, m) \/ AppendReply(i, m)

Ticks(i) == \E j \in Server : sendAppendEntriesTo(i, j)

Next ==
    \E i \in Server :
        \/ ServiceSteps(i) \/ FollowerTimeout(i) \/ CandidateTimeout(i)
        \/ \E m \in msgs : Receive(i, m) \/ Lose(m)
        \/ VoteReplacesToken(i)
        \/ Ticks(i)
        \/ \E command \in Command : Start(i, command)
        \/ Restart(i)

Spec == Init /\ [][Next]_vars

(* Fairness: runnable goroutines are scheduled, the leader's ticker keeps   *)
(* ticking, and a peer to which messages are sent again and again receives  *)
(* some.  The last two are strong fairness of Ticks and Arrives; what       *)
(* enables the action is written out, for ticks with nothing in flight so   *)
(* that MaxInFlight is no obstacle.                                         *)
CanTick(i) == /\ CanLock(i) /\ rf[i].state = "leader"
              /\ rf[i].service = "leader" /\ msgs = {}

Arrives(i) == \E m \in msgs : Receive(i, m) /\ m \notin msgs'

CanArrive(i) == CanLock(i) /\ \E m \in msgs : m.to = i

Fairness ==
    \A i \in Server :
        /\ WF_vars(ServiceSteps(i) \/ VoteReplacesToken(i))
        /\ []<>CanTick(i) => []<><<Ticks(i)>>_vars
        /\ []<>CanArrive(i) => []<><<Arrives(i)>>_vars

FairSpec == Spec /\ Fairness

-----------------------------------------------------------------------------
(* What GetState tells the service.                                         *)
GetState(i) == [term |-> rf[i].currentTerm, isLeader |-> rf[i].state = "leader"]

RaftState == [currentTerm : Nat, votedFor : Server \cup {Nil}, log : Seq(logEntry)]

RaftObject ==
    [state        : {"follower", "candidate", "leader"},
     currentTerm  : Nat,
     votedFor     : Server \cup {Nil},
     log          : Seq(logEntry),
     commitIndex  : Nat,
     lastApplied  : Nat,
     nextIndex    : [Server -> Nat],
     matchIndex   : [Server -> Nat],
     convertState : {Nil, "follower", "leader"},
     service      : {"asFollower", "follower", "asCandidate", "startElection",
                     "candidate", "asLeader", "leader", "panic"},
     vote         : [term : Nat, voteRecord : SUBSET Server],
     mutex        : {Nil, "vote"},
     raftstate    : RaftState]

RequestVoteArgs ==
    [type : {"RequestVote"}, to : Server, from : Server \cup {Nil}, Term : Nat,
     CandidateId : Server, LastLogIndex : Nat, LastLogTerm : Nat]

RequestVoteReply ==
    [type : {"RequestVoteReply"}, to : Server, from : Server, argsTerm : Nat,
     Term : Nat, VoteGranted : BOOLEAN]

AppendEntriesArgs ==
    [type : {"AppendEntries"}, to : Server, from : Server \cup {Nil}, Term : Nat,
     PrevLogIndex : Nat, PrevLogTerm : Nat, Entries : Seq(logEntry),
     LeaderCommit : Nat]

AppendEntriesReply ==
    [type : {"AppendEntriesReply"}, to : Server, from : Server, argsTerm : Nat,
     argsMatch : Nat, Term : Nat, Success : BOOLEAN, ConflictIndex : Nat,
     ConflictTerm : Nat \cup {-1}]

Message ==
    RequestVoteArgs \cup RequestVoteReply \cup AppendEntriesArgs \cup AppendEntriesReply

(* Every field of every Raft object and of every message has its type, and  *)
(* no log is ever empty.                                                    *)
TypeOK ==
    /\ rf \in [Server -> RaftObject]
    /\ \A i \in Server : rf[i].log # <<>> /\ rf[i].raftstate.log # <<>>
    /\ msgs \subseteq Message
    /\ restarts \in Nat
    /\ votes \subseteq (Nat \X Server \X Server)
    /\ elected \subseteq (Nat \X Server)
    /\ applied \subseteq [term : Nat, entry : logEntry]

(* No two servers ever collect a majority of votes for the same term, under *)
(* any schedule of the service goroutine and across crashes                 *)
(* (sendRequestVoteAndGetResponse, grantVote, persist).                     *)
OneWinnerPerTerm ==
    \A e, f \in elected : e[1] = f[1] => e[2] = f[2]

(* A server's term never goes back, and within a term it never withdraws or *)
(* moves its vote, a crash in the middle of a handler included.             *)
VotesAreFinal ==
    [][\A i \in Server :
        /\ rf'[i].currentTerm >= rf[i].currentTerm
        /\ \/ rf'[i].currentTerm > rf[i].currentTerm
           \/ rf[i].votedFor \in {Nil, rf'[i].votedFor}]_rf

(* At most one server at a time tells its service that it is the leader of  *)
(* a given term (GetState; checkOneLeader in raft/config.go).               *)
OneLeaderPerTerm ==
    \A i, j \in Server :
        (GetState(i) = GetState(j) /\ GetState(i).isLeader) => i = j

(* The service goroutine never receives a token that its role rules out, so *)
(* the panic of runAsLeader is not reached; with compaction, no goroutine   *)
(* of Compaction looks for an entry that the log does not hold.             *)
NoPanic == \A i \in Server : rf[i].service # "panic"

(* Two logs that agree on the term of an index agree up to that index.      *)
LogMatching ==
    \A i, j \in Server :
        \A n \in 1..getLastLogIndex(rf[i]) :
            (/\ n <= getLastLogIndex(rf[j])
             /\ getLogEntry(rf[i], n).Term = getLogEntry(rf[j], n).Term)
            => SubSeq(rf[i].log, 1, n + 1) = SubSeq(rf[j].log, 1, n + 1)

(* No two applyCh ever deliver different entries for the same index.        *)
StateMachineSafety ==
    \A a, b \in applied : a.entry.Index = b.entry.Index => a.entry = b.entry

(* A leader's log holds every entry that any peer delivered in an earlier   *)
(* term or in the leader's own.                                             *)
LeaderCompleteness ==
    \A i \in Server : rf[i].state = "leader" =>
        \A a \in applied : a.term <= rf[i].currentTerm =>
            /\ hasLogEntry(rf[i], a.entry.Index)
            /\ getLogEntry(rf[i], a.entry.Index) = a.entry

(* Once a leader runs its loop, its next index for a peer never points      *)
(* beyond its own log plus one, so sendAppendEntriesTo never falls into the *)
(* snapshot branch when nothing has been compacted.  (Before, nextIndex is  *)
(* that of an earlier reign, whose log may have been cut since.)            *)
NextIndexInLog ==
    \A i \in Server : rf[i].state = "leader" /\ rf[i].service = "leader" =>
        \A j \in Server : rf[i].nextIndex[j] <= getLastLogIndex(rf[i]) + 1

(* What a leader has started is committed in the end, unless it stops being *)
(* leader: the search for the point where a follower's log agrees (backUp)  *)
(* ends, and the retries of the ticker suffice.                             *)
StartedIsCommitted ==
    \A i \in Server :
        (rf[i].state = "leader" /\ getLastLogTerm(rf[i]) = rf[i].currentTerm)
        ~> (rf[i].state # "leader" \/ rf[i].commitIndex = getLastLogIndex(rf[i]))

(* Whoever holds rf.mu releases it, so that Start returns.                  *)
LockIsReleased == \A i \in Server : (rf[i].mutex # Nil) ~> (rf[i].mutex = Nil)

=============================================================================
