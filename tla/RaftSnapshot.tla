---------------------------- MODULE RaftSnapshot ----------------------------
(***************************************************************************)
(* Log compaction: the Raft peer together with the service that executes    *)
(* what it delivers (runServer of kvraft/server.go), saves snapshots and    *)
(* asks for compaction, and the InstallSnapshot RPC that brings a peer up   *)
(* to date when the leader has discarded what the peer needs.               *)
(*                                                                          *)
(* The service is used by one Clerk on one key, every operation of which    *)
(* enters the log once: a store is the sequence of the entries executed,    *)
(* seqCheck keeps an entry from being executed again, and decoding a        *)
(* snapshot over a store replaces it.  An election is one step, in which a  *)
(* majority votes; module Raft has its messages.                            *)
(*                                                                          *)
(* Two assumptions, both about how long goroutines take, are needed for     *)
(* what is checked here.  Overlap = FALSE: with compaction on, an exchange  *)
(* of a leader with a peer (request, answer) is over before the next one    *)
(* starts, though the ticker and the retries do not wait for it.            *)
(* PromptServer = TRUE: the service is through with an entry, and with the  *)
(* Compaction it asked for, before another goroutine of the peer obtains    *)
(* rf.mu.                                                                   *)
(***************************************************************************)
EXTENDS Raft, SequencesExt

CONSTANTS
    maxraftstates,  \* what maxraftstate may be: -1, or a number of log entries
    Overlap, PromptServer

ASSUME SnapshotAssumption ==
    /\ maxraftstates \subseteq Nat \cup {-1}
    /\ {Overlap, PromptServer} \subseteq BOOLEAN

VARIABLES
    maxraftstate,   \* -1: never compact
    kv              \* kv[i]: the service at peer i, and what compaction adds to rf

snapshotVars == <<vars, maxraftstate, kv>>

StartKVServer(snapshot) ==
    [db          |-> snapshot,
     busy        |-> Nil,       \* the entry that runServer has received
     lastIncludedLogEntry |-> zeroEntry,
     compactions |-> {},        \* goroutines of Compaction that wait for rf.mu
     snapshot    |-> snapshot]  \* the persister's; <<>>: none

SnapshotInit ==
    /\ Init
    /\ maxraftstate \in maxraftstates
    /\ kv = [i \in Server |-> StartKVServer(<<>>)]

-----------------------------------------------------------------------------
(* runServer.                                                               *)

(* Seeded fault: an entry delivered a second time is executed again.        *)
execute_Again(db, e) == Append(db, e)

execute(db, e) == IF db # <<>> /\ e.Index <= Last(db).Index THEN db ELSE Append(db, e)

(* Seeded fault: compaction is asked for, and no snapshot saved.            *)
finish_NoSnapshot(k, e, logSize) ==
    LET done == [k EXCEPT !.db = execute(@, e), !.busy = Nil]
    IN  IF maxraftstate = -1 \/ logSize < maxraftstate THEN done
        ELSE [done EXCEPT !.compactions = @ \cup {e.Index}]

(* runServer from an entry it has received to the next receive.             *)
finish(k, e, logSize) ==
    LET done == [k EXCEPT !.db = execute(@, e), !.busy = Nil]
    IN  IF maxraftstate = -1 \/ logSize < maxraftstate THEN done
        ELSE [done EXCEPT !.snapshot = done.db, !.compactions = @ \cup {e.Index}]

(* runServer, entry after entry.                                            *)
finishAll(k, entries, logSize) ==
    LET after[n \in 0..Len(entries)] ==
            IF n = 0 THEN k ELSE finish(after[n - 1], entries[n], logSize)
    IN  after[Len(entries)]

(* Nothing keeps the peer's other goroutines from rf.mu.                    *)
quiet(i) == PromptServer => kv[i].busy = Nil /\ kv[i].compactions = {}

logSize(i) == Len(rf[i].raftstate.log)

runServer(i) ==
    /\ kv[i].busy # Nil
    /\ kv' = [kv EXCEPT ![i] = finish(kv[i], kv[i].busy, logSize(i))]
    /\ UNCHANGED <<vars, maxraftstate>>

(* What applyLogToStateMachine sends on applyCh, which has no buffer: when  *)
(* the handler is through, runServer has finished all entries but the last. *)
(* It needs nothing of Raft for an entry, so a handler that waits for it is *)
(* one that comes after it.                                                 *)
Delivers(i) ==
    LET numbers == {n \in (rf[i].lastApplied + 1)..rf'[i].lastApplied :
                        hasLogEntry(rf'[i], n)}
        entries == [k \in 1..Cardinality(numbers) |->
                        getLogEntry(rf'[i], Min(numbers) + k - 1)]
    IN  IF numbers = {} THEN UNCHANGED kv
        ELSE /\ kv[i].busy = Nil
             /\ kv' = [kv EXCEPT ![i] =
                  [finishAll(@, Front(entries), Len(rf'[i].raftstate.log))
                   EXCEPT !.busy = Last(entries)]]

-----------------------------------------------------------------------------
(* Steps of module Raft.                                                    *)

mayOverlap == Overlap \/ maxraftstate = -1

(* The exchange between leader i and peer j.                                *)
exchange(i, j) ==
    {m \in msgs : \/ m.from = i /\ m.to = j /\ isRequest(m)
                  \/ m.from = j /\ m.to = i /\ ~isRequest(m)}

AppendEntriesDelivers(i, m) ==
    /\ AppendEntries(i, m) /\ quiet(i)
    /\ mayOverlap \/ m \notin msgs'
    /\ Delivers(i)
    /\ UNCHANGED maxraftstate

AppendReplyDelivers(i, m) ==
    /\ AppendReply(i, m) /\ quiet(i)
    /\ mayOverlap \/ m \notin msgs'
    /\ Delivers(i)
    /\ UNCHANGED maxraftstate

sendEntries(i, j) ==
    /\ sendAppendEntriesTo(i, j) /\ quiet(i)
    /\ mayOverlap \/ exchange(i, j) = {}
    /\ UNCHANGED <<maxraftstate, kv>>

(* The election of i by the peers in Q.                                     *)
Elect(i, Q) ==
    LET term == rf[i].currentTerm + 1
        m == [Term |-> term, CandidateId |-> i, LastLogIndex |-> getLastLogIndex(rf[i]),
              LastLogTerm |-> getLastLogTerm(rf[i])]
        s(j) == checkCurrentTerm(rf[j], term)
    IN  /\ i \in Q /\ Majority(Q)
        /\ \A j \in Q : CanLock(j) /\ quiet(j)
        /\ rf[i].state = "follower"
        /\ term <= MaxTerm
        /\ \A j \in Q \ {i} : mayVote(s(j), m)
        /\ rf' = [j \in Server |->
                    IF j = i
                    THEN persist([rf[i] EXCEPT
                            !.state = "leader", !.service = "leader",
                            !.currentTerm = term, !.votedFor = i,
                            !.nextIndex = [p \in Server |-> getLastLogIndex(rf[i]) + 1],
                            !.matchIndex = [p \in Server |-> 0]])
                    ELSE IF j \in Q THEN grantVote(s(j), i) ELSE rf[j]]
        /\ elected' = elected \cup {<<term, i>>}
        /\ votes' = votes \cup {<<term, j, i>> : j \in Q}
        /\ UNCHANGED <<msgs, restarts, applied, maxraftstate, kv>>

-----------------------------------------------------------------------------
(* Compaction and InstallSnapshot.                                          *)

(* Seeded fault: an older request is not told from a newer one.             *)
Compaction_Unchecked(i, n) ==
    /\ n \in kv[i].compactions
    /\ CanLock(i)
    /\ kv' = [kv EXCEPT ![i].compactions = @ \ {n},
                        ![i].lastIncludedLogEntry = getLogEntry(rf[i], n)]
    /\ Update(i, IF hasLogEntry(rf[i], n)
                 THEN persist([rf[i] EXCEPT !.log = getEntryFrom(rf[i], n)])
                 ELSE [rf[i] EXCEPT !.service = "panic"])
    /\ UNCHANGED <<msgs, restarts, votes, elected, applied, maxraftstate>>

(* The entry is looked up without checking that the log holds it: if it     *)
(* does not, the goroutine panics, and the process with it.                 *)
Compaction(i, n) ==
    /\ n \in kv[i].compactions
    /\ CanLock(i)
    /\ LET k == [kv[i] EXCEPT !.compactions = @ \ {n}]
       IN  \/ /\ n <= k.lastIncludedLogEntry.Index
              /\ kv' = [kv EXCEPT ![i] = k]
              /\ UNCHANGED rf
           \/ /\ n > k.lastIncludedLogEntry.Index
              /\ kv' = [kv EXCEPT ![i] =
                            [k EXCEPT !.lastIncludedLogEntry = getLogEntry(rf[i], n)]]
              /\ Update(i, IF hasLogEntry(rf[i], n)
                           THEN persist([rf[i] EXCEPT !.log = getEntryFrom(rf[i], n)])
                           ELSE [rf[i] EXCEPT !.service = "panic"])
    /\ UNCHANGED <<msgs, restarts, votes, elected, applied, maxraftstate>>

(* The branches of sendAppendEntriesTo that send a snapshot.  rf.mu is held *)
(* until the call returns.                                                  *)
sendInstallSnapshot(i, j) ==
    /\ i # j
    /\ CanLock(i) /\ quiet(i)
    /\ rf[i].state = "leader"
    /\ rf[i].nextIndex[j] > 0
    /\ needsSnapshot(rf[i], j)
    /\ mayOverlap \/ exchange(i, j) = {}
    /\ msgs' = msgs \cup
         {[type |-> "InstallSnapshot", to |-> j, from |-> i, Term |-> rf[i].currentTerm,
           LastLogEntry |-> kv[i].lastIncludedLogEntry, Data |-> kv[i].snapshot]}
    /\ Room(msgs')
    /\ Update(i, [rf[i] EXCEPT !.mutex = "snapshot"])
    /\ UNCHANGED <<restarts, votes, elected, applied, maxraftstate, kv>>

(* The handler saves the snapshot first and sends it to the service last.   *)
(* If runServer is busy with an entry then, it finishes that one in         *)
(* between, and may save the snapshot of an older store.                    *)
InstallSnapshot(i, m) ==
    /\ m.type = "InstallSnapshot" /\ m.to = i
    /\ CanLock(i) /\ quiet(i)
    /\ LET s == checkCurrentTerm(rf[i], m.Term)
           t == persist([followLeader(s) EXCEPT
                            !.log = <<m.LastLogEntry>>,
                            !.lastApplied = m.LastLogEntry.Index])
           k == [kv[i] EXCEPT !.snapshot = m.Data,
                              !.lastIncludedLogEntry = m.LastLogEntry]
           f == IF k.busy = Nil THEN k ELSE finish(k, k.busy, Len(t.raftstate.log))
       IN  /\ \/ /\ m.Term < s.currentTerm
                 /\ Update(i, s)
                 /\ UNCHANGED kv
              \/ /\ m.Term >= s.currentTerm
                 /\ Update(i, t)
                 /\ kv' = [kv EXCEPT ![i] =
                        [f EXCEPT !.db = IF m.Data = <<>> THEN @ ELSE m.Data]]
           /\ Deliver(m, Reply(m, [type |-> "InstallSnapshotReply", to |-> m.from,
                                   from |-> i, Term |-> s.currentTerm]))
    /\ UNCHANGED <<restarts, votes, elected, applied, maxraftstate>>

InstallSnapshotReply(i, m) ==
    /\ m.type = "InstallSnapshotReply" /\ m.to = i
    /\ rf[i].mutex = "snapshot"
    /\ Deliver(m, {})
    /\ LET last == kv[i].lastIncludedLogEntry.Index
       IN  Update(i, [checkCurrentTerm(rf[i], m.Term) EXCEPT
                        !.nextIndex[m.from] = last + 1,
                        !.matchIndex[m.from] = last,
                        !.mutex = Nil])
    /\ UNCHANGED <<restarts, votes, elected, applied, maxraftstate, kv>>

(* The request or the reply is lost, or the connection is cut while the     *)
(* handler is yet to run: the call returns false.                           *)
InstallSnapshotFails(i) ==
    /\ rf[i].mutex = "snapshot"
    /\ \E m \in UNION {exchange(i, j) : j \in Server} :
         /\ m.type \in {"InstallSnapshot", "InstallSnapshotReply"}
         /\ \E late \in IF mayOverlap /\ isRequest(m) THEN BOOLEAN ELSE {FALSE} :
              msgs' = (msgs \ {m}) \cup (IF late THEN {[m EXCEPT !.from = Nil]} ELSE {})
    /\ Update(i, [rf[i] EXCEPT !.mutex = Nil])
    /\ UNCHANGED <<restarts, votes, elected, applied, maxraftstate, kv>>

-----------------------------------------------------------------------------
(* lastIncludedLogEntry is not saved.  The crash may come between the two   *)
(* saves of InstallSnapshot.                                                *)
RestartKVServer(i) ==
    /\ Restart(i)
    /\ \E data \in {kv[i].snapshot} \cup
            {m.Data : m \in {n \in msgs :
                /\ n.type = "InstallSnapshot" /\ n.to = i /\ n.Term >= rf[i].currentTerm
                /\ rf'[i].raftstate = checkCurrentTerm(rf[i], n.Term).raftstate
                /\ CanLock(i)}} :
         kv' = [kv EXCEPT ![i] = StartKVServer(data)]
    /\ UNCHANGED maxraftstate

(* What the service goroutine does with a token, and what the network loses.*)
RaftStep(i) ==
    /\ \/ FollowerResetsTimer(i) \/ LeaderConverts(i) \/ runAsFollower(i)
       \/ \E m \in msgs : Lose(m) /\ m.type \in {"AppendEntries", "AppendEntriesReply"}
       \/ \E command \in Command : Start(i, command) /\ quiet(i)
    /\ UNCHANGED <<maxraftstate, kv>>

SnapshotNext ==
    \E i \in Server :
        \/ RaftStep(i)
        \/ \E Q \in SUBSET Server : Elect(i, Q)
        \/ \E j \in Server : sendEntries(i, j) \/ sendInstallSnapshot(i, j)
        \/ \E m \in msgs :
              \/ AppendEntriesDelivers(i, m) \/ AppendReplyDelivers(i, m)
              \/ InstallSnapshot(i, m) \/ InstallSnapshotReply(i, m)
        \/ InstallSnapshotFails(i)
        \/ runServer(i)
        \/ \E n \in kv[i].compactions : Compaction(i, n)
        \/ RestartKVServer(i)

SnapshotSpec == SnapshotInit /\ [][SnapshotNext]_snapshotVars

-----------------------------------------------------------------------------
InstallSnapshotMessage ==
    [type : {"InstallSnapshot"}, to : Server, from : Server \cup {Nil}, Term : Nat,
     LastLogEntry : logEntry, Data : Seq(logEntry)]
    \cup [type : {"InstallSnapshotReply"}, to : Server, from : Server, Term : Nat]

(* Every field of the services and of the Raft objects has its type.        *)
SnapshotTypeOK ==
    /\ \A i \in Server : [rf[i] EXCEPT !.mutex = Nil] \in RaftObject
    /\ \A i \in Server : /\ rf[i].log # <<>> /\ rf[i].raftstate.log # <<>>
                         /\ rf[i].mutex \in {Nil, "vote", "snapshot"}
    /\ msgs \subseteq Message \cup InstallSnapshotMessage
    /\ maxraftstate \in maxraftstates
    /\ kv \in [Server -> [db : Seq(logEntry), busy : logEntry \cup {Nil},
                          lastIncludedLogEntry : logEntry,
                          compactions : SUBSET Nat, snapshot : Seq(logEntry)]]

(* A store holds every entry up to the last one executed, once and in       *)
(* order, and of two stores one is a beginning of the other, whether the    *)
(* entries came one by one, with a snapshot of another peer, or again after *)
(* a restart (runServer, InstallSnapshot, StartKVServer).                   *)
StoresAgree ==
    \A i, j \in Server :
        /\ \A n \in 1..Len(kv[i].db) : kv[i].db[n].Index = n
        /\ IsPrefix(kv[i].db, kv[j].db) \/ IsPrefix(kv[j].db, kv[i].db)

(* What a peer would rebuild after a crash has no gap: the snapshot saved   *)
(* reaches the first entry of the log saved (SaveSnapshot in runServer and  *)
(* InstallSnapshot, persist in Compaction).                                 *)
SnapshotReachesLog ==
    \A i \in Server : Len(kv[i].snapshot) >= rf[i].raftstate.log[1].Index

(* An entry that has been delivered anywhere is in the log saved by a       *)
(* majority of the peers, or before its beginning.                          *)
DeliveredOnMajority ==
    \A a \in applied :
        Majority({i \in Server :
            LET log == [log |-> rf[i].raftstate.log]
            IN  \/ a.entry.Index < log.log[1].Index
                \/ hasLogEntry(log, a.entry.Index) /\ getLogEntry(log, a.entry.Index) = a.entry})


(* Without compaction, and until a crash, neither the commit index nor the  *)
(* delivered beginning of a log changes but by growing, however late        *)
(* AppendEntries arrives (deleteEntryFrom and the min with the last new     *)
(* entry).  With compaction a peer whose answer was lost may well be set    *)
(* back by InstallSnapshot; see DeliveredOnMajority.                        *)
CommittedIsFinal ==
    [][maxraftstate = -1 /\ restarts' = restarts =>
        \A i \in Server :
            /\ rf'[i].commitIndex >= rf[i].commitIndex
            /\ rf'[i].commitIndex <= getLastLogIndex(rf'[i])
            /\ \A n \in 1..rf[i].commitIndex :
                  getLogEntry(rf'[i], n) = getLogEntry(rf[i], n)]_snapshotVars

=============================================================================
