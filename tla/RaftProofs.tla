----------------------------- MODULE RaftProofs -----------------------------
(***************************************************************************)
(* Type correctness of the Raft peer, and the fate of terms and votes.      *)
(*                                                                          *)
(* TypeOK is not inductive as it stands: that no log is ever empty rests on *)
(* every entry of a log carrying its own position as index, and that in     *)
(* turn on the entries of every AppendEntries in flight being numbered from *)
(* PrevLogIndex on.  TypeInv adds both, and that what is on disk is what is *)
(* in memory whenever rf.mu is free.                                        *)
(***************************************************************************)
EXTENDS Raft, WellFoundedInduction, FiniteSetTheorems, TLAPS

(* A log that starts with entry 0 and misses no index.                      *)
Indexed(log) == Len(log) >= 1 /\ \A k \in 1..Len(log) : log[k].Index = k - 1

(* A well-typed Raft object with such a log, and nothing unsaved.           *)
Good(s) == /\ s \in RaftObject
           /\ Indexed(s.log)
           /\ s.raftstate = [currentTerm |-> s.currentTerm,
                             votedFor    |-> s.votedFor,
                             log         |-> s.log]

(* Min picks the least element of a set of numbers.                         *)
LEMMA MinNat ==
  ASSUME NEW S \in SUBSET Nat, S # {}
  PROVE  Min(S) \in S /\ \A n \in S : Min(S) <= n
<1> DEFINE R == {ss \in Nat \X Nat : ss[1] < ss[2]}
<1>1. IsWellFoundedOn(R, Nat)
  BY NatLessThanWellFounded DEF OpToRel
<1> HIDE DEF R
<1>2. PICK n \in S : \A k \in S : <<k, n>> \notin R
  BY <1>1, WFMin
<1>3. ASSUME NEW k \in S
      PROVE  n <= k
  <2>1. k \in Nat /\ n \in Nat /\ <<k, n>> \notin R
    BY <1>2
  <2>2. k < n => <<k, n>> \in R
    BY <2>1 DEF R
  <2> QED
    BY <2>1, <2>2
<1> QED
  BY <1>3 DEF Min

(* The types of the fields of a good object.                                *)
LEMMA GoodFields ==
  ASSUME NEW s, Good(s)
  PROVE  /\ s.state \in {"follower", "candidate", "leader"}
         /\ s.currentTerm \in Nat
         /\ s.votedFor \in Server \cup {Nil}
         /\ s.log \in Seq(logEntry)
         /\ s.commitIndex \in Nat
         /\ s.lastApplied \in Nat
         /\ s.nextIndex \in [Server -> Nat]
         /\ s.matchIndex \in [Server -> Nat]
         /\ s.convertState \in {Nil, "follower", "leader"}
         /\ s.vote \in [term : Nat, voteRecord : SUBSET Server]
         /\ s.mutex \in {Nil, "vote"}
         /\ s.raftstate \in RaftState
  BY DEF Good, RaftObject

(* Looking up an index in a good object's log.                              *)
LEMMA LogShape ==
  ASSUME NEW s, Good(s)
  PROVE  /\ Len(s.log) \in Nat \ {0}
         /\ s.log[1].Index = 0
         /\ getLastLogIndex(s) = Len(s.log) - 1
         /\ getLastLogTerm(s) \in Nat
         /\ \A n \in Nat : hasLogEntry(s, n) <=> n < Len(s.log)
         /\ \A n \in Nat : getLogEntry(s, n) = IF n < Len(s.log) THEN s.log[n + 1] ELSE zeroEntry
         /\ \A n \in Nat : getLogEntry(s, n) \in logEntry
<1>1. s.log \in Seq(logEntry) /\ Len(s.log) >= 1 /\ \A k \in 1..Len(s.log) : s.log[k].Index = k - 1
  BY GoodFields DEF Good, Indexed
<1>2. Len(s.log) \in Nat \ {0} /\ s.log[1].Index = 0 /\ getLastLogIndex(s) = Len(s.log) - 1
  BY <1>1 DEF getLastLogIndex
<1>3. \A k \in 1..Len(s.log) : s.log[k] \in logEntry
  BY <1>1
<1>4. getLastLogTerm(s) \in Nat
  BY <1>2, <1>3 DEF getLastLogTerm, logEntry
<1>5. \A n \in Nat : hasLogEntry(s, n) <=> n < Len(s.log)
  BY <1>2 DEF hasLogEntry
<1>6. \A n \in Nat : getLogEntry(s, n) = IF n < Len(s.log) THEN s.log[n + 1] ELSE zeroEntry
  BY <1>2, <1>5 DEF getLogEntry
<1>7. zeroEntry \in logEntry
  BY DEF zeroEntry, logEntry
<1>8. \A n \in Nat : getLogEntry(s, n) \in logEntry
  <2> TAKE n \in Nat
  <2>1. CASE n < Len(s.log)
    <3>1. n + 1 \in 1..Len(s.log)
      BY <1>2, <2>1
    <3> QED
      BY <1>3, <1>6, <2>1, <3>1
  <2>2. CASE ~(n < Len(s.log))
    BY <1>6, <1>7, <2>2
  <2> QED
    BY <2>1, <2>2
<1> QED
  BY <1>2, <1>4, <1>5, <1>6, <1>8

(* getLogEntry returns an entry, the zero entry if need be.                 *)
LEMMA EntryType ==
  ASSUME NEW s, Good(s), NEW n \in Nat
  PROVE  getLogEntry(s, n) \in logEntry
  BY LogShape

(* persist saves term, vote and log, and changes nothing else.              *)
LEMMA PersistGood ==
  ASSUME NEW s, s \in RaftObject, Indexed(s.log)
  PROVE  /\ Good(persist(s))
         /\ persist(s).state = s.state
         /\ persist(s).currentTerm = s.currentTerm
         /\ persist(s).votedFor = s.votedFor
         /\ persist(s).log = s.log
         /\ persist(s).commitIndex = s.commitIndex
         /\ persist(s).lastApplied = s.lastApplied
         /\ persist(s).nextIndex = s.nextIndex
         /\ persist(s).matchIndex = s.matchIndex
         /\ persist(s).convertState = s.convertState
         /\ persist(s).service = s.service
         /\ persist(s).vote = s.vote
         /\ persist(s).mutex = s.mutex
  BY DEF Good, persist, RaftObject, RaftState

(* Two objects that differ at most in state, convertState and raftstate.   *)
Untouched(s, u) ==
  /\ u.currentTerm = s.currentTerm
  /\ u.votedFor = s.votedFor
  /\ u.log = s.log
  /\ u.commitIndex = s.commitIndex
  /\ u.lastApplied = s.lastApplied
  /\ u.nextIndex = s.nextIndex
  /\ u.matchIndex = s.matchIndex
  /\ u.service = s.service
  /\ u.vote = s.vote
  /\ u.mutex = s.mutex

(* The transitions a handler makes by putting a follower token.             *)
LEMMA StepDown ==
  ASSUME NEW s, Good(s)
  PROVE  /\ Good([s EXCEPT !.state = "follower", !.convertState = "follower"])
         /\ Untouched(s, [s EXCEPT !.state = "follower", !.convertState = "follower"])
         /\ [s EXCEPT !.state = "follower", !.convertState = "follower"].state = "follower"
         /\ [s EXCEPT !.state = "follower", !.convertState = "follower"].convertState = "follower"
  BY DEF Good, RaftObject, Untouched

(* Resetting the election timer.                                            *)
LEMMA PutToken ==
  ASSUME NEW s, Good(s)
  PROVE  /\ Good([s EXCEPT !.convertState = "follower"])
         /\ Untouched(s, [s EXCEPT !.convertState = "follower"])
         /\ [s EXCEPT !.convertState = "follower"].state = s.state
         /\ [s EXCEPT !.convertState = "follower"].convertState = "follower"
  BY DEF Good, RaftObject, Untouched

(* checkCurrentTerm, field by field: a newer term is adopted and saved with  *)
(* no vote; a peer that is not a follower steps down if the channel is free.*)
LEMMA CheckTerm ==
  ASSUME NEW s, Good(s), NEW t \in Nat
  PROVE  LET u == checkCurrentTerm(s, t)
         IN  /\ Good(u)
             /\ u.currentTerm = IF t <= s.currentTerm THEN s.currentTerm ELSE t
             /\ u.votedFor = IF t <= s.currentTerm THEN s.votedFor ELSE Nil
             /\ u.state = IF t > s.currentTerm /\ s.convertState = Nil THEN "follower" ELSE s.state
             /\ u.convertState = IF /\ t > s.currentTerm /\ s.convertState = Nil
                                    /\ s.state # "follower"
                                 THEN "follower" ELSE s.convertState
             /\ u.log = s.log
             /\ u.commitIndex = s.commitIndex
             /\ u.lastApplied = s.lastApplied
             /\ u.nextIndex = s.nextIndex
             /\ u.matchIndex = s.matchIndex
             /\ u.service = s.service
             /\ u.vote = s.vote
             /\ u.mutex = s.mutex
<1> DEFINE p == [s EXCEPT !.currentTerm = t, !.votedFor = Nil]
           q == persist(p)
           r == [q EXCEPT !.state = "follower", !.convertState = "follower"]
<1>1. /\ p \in RaftObject /\ Indexed(p.log) /\ p.currentTerm = t /\ p.votedFor = Nil
      /\ p.log = s.log /\ p.commitIndex = s.commitIndex /\ p.lastApplied = s.lastApplied
      /\ p.nextIndex = s.nextIndex /\ p.matchIndex = s.matchIndex /\ p.service = s.service
      /\ p.vote = s.vote /\ p.mutex = s.mutex /\ p.state = s.state
      /\ p.convertState = s.convertState
  BY DEF Good, RaftObject
<1>2. checkCurrentTerm(s, t) =
          IF t <= s.currentTerm THEN s
          ELSE IF q.convertState = Nil /\ q.state # "follower" THEN r ELSE q
  BY DEF checkCurrentTerm
<1>3. s.currentTerm \in Nat
  BY GoodFields
<1> HIDE DEF p
<1>4. /\ Good(q) /\ q.currentTerm = t /\ q.votedFor = Nil
      /\ q.log = s.log /\ q.commitIndex = s.commitIndex /\ q.lastApplied = s.lastApplied
      /\ q.nextIndex = s.nextIndex /\ q.matchIndex = s.matchIndex /\ q.service = s.service
      /\ q.vote = s.vote /\ q.mutex = s.mutex /\ q.state = s.state
      /\ q.convertState = s.convertState
  BY <1>1, PersistGood
<1> HIDE DEF q
<1>5. Good(r) /\ Untouched(q, r) /\ r.state = "follower" /\ r.convertState = "follower"
  BY <1>4, StepDown
<1> HIDE DEF r
<1>6. CASE t <= s.currentTerm
  BY <1>2, <1>3, <1>6
<1>7. CASE ~(t <= s.currentTerm) /\ q.convertState = Nil /\ q.state # "follower"
  BY <1>2, <1>3, <1>4, <1>5, <1>7 DEF Untouched
<1>8. CASE ~(t <= s.currentTerm) /\ ~(q.convertState = Nil /\ q.state # "follower")
  BY <1>2, <1>3, <1>4, <1>8
<1> QED
  BY <1>6, <1>7, <1>8

(* grantVote, field by field: the vote is saved.                            *)
LEMMA Grant ==
  ASSUME NEW s, Good(s), NEW c \in Server
  PROVE  LET u == grantVote(s, c)
         IN  /\ Good(u)
             /\ u.currentTerm = s.currentTerm
             /\ u.votedFor = c
             /\ u.state = s.state
             /\ u.convertState = IF s.state = "follower" /\ s.convertState = Nil
                                 THEN "follower" ELSE s.convertState
             /\ u.log = s.log
             /\ u.service = s.service
             /\ u.vote = s.vote
             /\ u.mutex = s.mutex
<1> DEFINE p == [s EXCEPT !.votedFor = c]
           q == persist(p)
           r == [q EXCEPT !.convertState = "follower"]
<1>1. /\ p \in RaftObject /\ Indexed(p.log) /\ p.currentTerm = s.currentTerm
      /\ p.votedFor = c /\ p.log = s.log /\ p.service = s.service
      /\ p.vote = s.vote /\ p.mutex = s.mutex /\ p.state = s.state
      /\ p.convertState = s.convertState
  BY DEF Good, RaftObject
<1>2. grantVote(s, c) =
          IF q.state = "follower" /\ q.convertState = Nil THEN r ELSE q
  BY DEF grantVote
<1> HIDE DEF p
<1>3. /\ Good(q) /\ q.currentTerm = s.currentTerm
      /\ q.votedFor = c /\ q.log = s.log /\ q.service = s.service
      /\ q.vote = s.vote /\ q.mutex = s.mutex /\ q.state = s.state
      /\ q.convertState = s.convertState
  BY <1>1, PersistGood
<1> HIDE DEF q
<1>4. Good(r) /\ Untouched(q, r) /\ r.state = q.state /\ r.convertState = "follower"
  BY <1>3, PutToken
<1> HIDE DEF r
<1> QED
  BY <1>2, <1>3, <1>4 DEF Untouched

(* The reaction to a leader of the current term.                            *)
LEMMA Follow ==
  ASSUME NEW s, Good(s)
  PROVE  LET u == followLeader(s)
         IN  /\ Good(u) /\ Untouched(s, u)
             /\ u.state = IF s.state \in {"follower", "candidate"} /\ s.convertState = Nil
                          THEN "follower" ELSE s.state
             /\ u.convertState = IF s.state \in {"follower", "candidate"} /\ s.convertState = Nil
                                 THEN "follower" ELSE s.convertState
<1> DEFINE r == [s EXCEPT !.state = "follower", !.convertState = "follower"]
<1>1. Good(r) /\ Untouched(s, r) /\ r.state = "follower" /\ r.convertState = "follower"
  BY StepDown
<1>2. followLeader(s) = IF s.state \in {"follower", "candidate"} /\ s.convertState = Nil
                        THEN r ELSE s
  BY DEF followLeader
<1>3. Untouched(s, s)
  BY DEF Untouched
<1> HIDE DEF r
<1> QED
  BY <1>1, <1>2, <1>3

(* Concatenation of logs.                                                   *)
LEMMA Concat ==
  ASSUME NEW a \in Seq(logEntry), NEW b \in Seq(logEntry)
  PROVE  /\ a \o b \in Seq(logEntry)
         /\ Len(a \o b) = Len(a) + Len(b)
         /\ \A k \in 1..Len(a) : (a \o b)[k] = a[k]
         /\ \A k \in 1..Len(b) : (a \o b)[Len(a) + k] = b[k]
  OBVIOUS

(* Subsequences of logs.                                                    *)
LEMMA Slice ==
  ASSUME NEW a \in Seq(logEntry), NEW m \in Nat \ {0}, NEW n \in Nat,
         m <= n + 1, n <= Len(a)
  PROVE  /\ SubSeq(a, m, n) \in Seq(logEntry)
         /\ Len(SubSeq(a, m, n)) = n - m + 1
         /\ \A k \in 1..(n - m + 1) : SubSeq(a, m, n)[k] = a[m + k - 1]
  OBVIOUS

(* Replacing the log.                                                       *)
LEMMA ReplaceLog ==
  ASSUME NEW s \in RaftObject, NEW l \in Seq(logEntry)
  PROVE  /\ [s EXCEPT !.log = l] \in RaftObject
         /\ [s EXCEPT !.log = l].log = l
  BY DEF RaftObject

(* Replacing the log twice.                                                 *)
LEMMA ReplaceLogTwice ==
  ASSUME NEW s \in RaftObject, NEW l, NEW k, NEW c, c = [s EXCEPT !.log = l]
  PROVE  [c EXCEPT !.log = k] = [s EXCEPT !.log = k]
  BY DEF RaftObject

(* The two loops of AppendEntries keep the log indexed if the entry before  *)
(* the first one received is in the log.                                    *)
LEMMA MergeType ==
  ASSUME NEW s, Good(s), NEW entries \in Seq(logEntry), NEW prev \in Nat,
         prev < Len(s.log), \A k \in 1..Len(entries) : entries[k].Index = prev + k
  PROVE  \E l \in Seq(logEntry) :
            Indexed(l) /\ mergeEntries(s, entries) = [s EXCEPT !.log = l]
<1> DEFINE C == {e \in {entries[k] : k \in 1..Len(entries)} :
                    /\ hasLogEntry(s, e.Index)
                    /\ getLogEntry(s, e.Index).Term # e.Term}
           D == {e.Index : e \in C}
           cut == IF C = {} THEN s ELSE deleteEntryFrom(s, Min(D))
           new == {k \in 1..Len(entries) : entries[k].Index > getLastLogIndex(cut)}
<1>0. /\ s \in RaftObject /\ s.log \in Seq(logEntry) /\ Len(s.log) \in Nat \ {0}
      /\ \A k \in 1..Len(s.log) : s.log[k].Index = k - 1
      /\ s.log[1].Index = 0 /\ getLastLogIndex(s) = Len(s.log) - 1
      /\ \A n \in Nat : hasLogEntry(s, n) <=> n < Len(s.log)
  BY LogShape, GoodFields DEF Good, Indexed
<1>1. \E l \in Seq(logEntry) :
          /\ cut = [s EXCEPT !.log = l] /\ prev + 1 <= Len(l)
          /\ \A k \in 1..Len(l) : l[k].Index = k - 1
  <2>1. CASE C = {}
    <3>1. s = [s EXCEPT !.log = s.log]
      BY <1>0 DEF RaftObject
    <3>2. cut = [s EXCEPT !.log = s.log]
      BY <2>1, <3>1
    <3>3. prev + 1 <= Len(s.log)
      BY <1>0
    <3> HIDE DEF cut
    <3> QED
      BY <1>0, <3>2, <3>3
  <2>2. CASE C # {}
    <3>1. \A e \in C : e.Index \in Nat /\ e.Index > prev /\ e.Index < Len(s.log)
      <4> SUFFICES ASSUME NEW k \in 1..Len(entries), hasLogEntry(s, entries[k].Index)
                   PROVE  /\ entries[k].Index \in Nat /\ entries[k].Index > prev
                          /\ entries[k].Index < Len(s.log)
        OBVIOUS
      <4> QED
        BY <1>0
    <3> DEFINE n == Min(D)
    <3>2. D \in SUBSET Nat /\ D # {}
      BY <2>2, <3>1
    <3>3. n \in D
      BY <3>2, MinNat
    <3>4. n \in Nat /\ n > prev /\ n < Len(s.log)
      BY <3>1, <3>3
    <3>5. cut = deleteEntryFrom(s, n)
      BY <2>2
    <3> HIDE DEF n, cut
    <3>6. cut = [s EXCEPT !.log = SubSeq(s.log, 1, n)]
      <4>1. ~(getLastLogIndex(s) < n) /\ n - s.log[1].Index = n
        BY <1>0, <3>4
      <4> QED
        BY <3>5, <4>1 DEF deleteEntryFrom
    <3>7. /\ SubSeq(s.log, 1, n) \in Seq(logEntry) /\ Len(SubSeq(s.log, 1, n)) = n
          /\ \A k \in 1..n : SubSeq(s.log, 1, n)[k] = s.log[k]
      BY <1>0, <3>4, Slice
    <3> DEFINE L == SubSeq(s.log, 1, n)
    <3>8. \A k \in 1..Len(L) : L[k].Index = k - 1
      BY <1>0, <3>4, <3>7
    <3>9. cut = [s EXCEPT !.log = L] /\ prev + 1 <= Len(L) /\ L \in Seq(logEntry)
      BY <3>4, <3>6, <3>7
    <3> HIDE DEF L
    <3> QED
      BY <3>8, <3>9
  <2> QED
    BY <2>1, <2>2
<1>2. mergeEntries(s, entries) =
        IF new = {} THEN cut
        ELSE [cut EXCEPT !.log = @ \o SubSeq(entries, Min(new), Len(entries))]
  BY DEF mergeEntries
<1> HIDE DEF cut
<1>3. PICK l \in Seq(logEntry) :
          /\ cut = [s EXCEPT !.log = l] /\ prev + 1 <= Len(l)
          /\ \A k \in 1..Len(l) : l[k].Index = k - 1
  BY <1>1
<1>3a. /\ cut = [s EXCEPT !.log = l] /\ prev + 1 <= Len(l)
       /\ \A k \in 1..Len(l) : l[k].Index = k - 1
  BY <1>3
<1>3b. s \in RaftObject
  BY <1>0
<1>4. cut.log = l /\ getLastLogIndex(cut) = Len(l) - 1 /\ Len(l) \in Nat \ {0}
  <2>1. cut.log = l
    BY <1>3a, <1>3b, ReplaceLog
  <2>2. Len(l) \in Nat \ {0}
    BY <1>3a
  <2>3. l[Len(l)].Index = Len(l) - 1
    <3>1. Len(l) \in 1..Len(l)
      BY <2>2
    <3> QED
      BY <1>3a, <3>1
  <2> QED
    BY <2>1, <2>2, <2>3 DEF getLastLogIndex
<1>5. CASE new = {}
  <2>1. mergeEntries(s, entries) = [s EXCEPT !.log = l]
    BY <1>2, <1>3a, <1>5
  <2>2. Indexed(l)
    BY <1>3a, <1>4 DEF Indexed
  <2> QED
    BY <2>1, <2>2
<1>6. CASE new # {}
  <2> DEFINE j == Min(new)
             tail == SubSeq(entries, j, Len(entries))
  <2>1. new \in SUBSET Nat /\ Len(entries) \in Nat
    OBVIOUS
  <2>2. j \in new /\ \A k \in new : j <= k
    BY <1>6, <2>1, MinNat
  <2>3. \A k \in 1..Len(entries) : k \in new <=> prev + k > Len(l) - 1
    BY <1>4
  <2> HIDE DEF new, j
  <2>4. j \in 1..Len(entries) /\ prev + j > Len(l) - 1
    BY <2>2, <2>3 DEF new
  <2>5. j = Len(l) - prev
    <3>1. Len(l) - prev \in 1..Len(entries)
      BY <2>1, <2>4, <1>3a, <1>4
    <3>2. Len(l) - prev \in new
      BY <2>3, <3>1, <1>4
    <3>3. j <= Len(l) - prev
      BY <2>2, <3>2
    <3> QED
      BY <3>3, <2>1, <2>4, <1>4
  <2>6. /\ tail \in Seq(logEntry) /\ Len(tail) = Len(entries) - j + 1
        /\ \A k \in 1..Len(tail) : tail[k] = entries[j + k - 1]
    BY SMTT(30), <2>1, <2>4, Slice
  <2>7. mergeEntries(s, entries) = [s EXCEPT !.log = l \o tail]
    <3>1. mergeEntries(s, entries) = [cut EXCEPT !.log = cut.log \o tail]
      BY <1>2, <1>6 DEF j
    <3>2. l \o tail \in Seq(logEntry)
      BY <2>6
    <3> HIDE DEF tail
    <3> QED
      BY <3>1, <1>3a, <1>3b, <1>4, ReplaceLogTwice
  <2> HIDE DEF tail
  <2>8. /\ l \o tail \in Seq(logEntry) /\ Len(l \o tail) = Len(l) + Len(tail)
        /\ \A k \in 1..Len(l) : (l \o tail)[k] = l[k]
        /\ \A k \in 1..Len(tail) : (l \o tail)[Len(l) + k] = tail[k]
    <3>1. tail \in Seq(logEntry)
      BY <2>6
    <3> QED
      BY <3>1, Concat
  <2>9. ASSUME NEW k \in 1..Len(l \o tail)
        PROVE  (l \o tail)[k].Index = k - 1
    <3>1. CASE k <= Len(l)
      BY <3>1, <2>8, <1>3a, <1>4
    <3>2. CASE k > Len(l)
      <4> DEFINE d == k - Len(l)
      <4>1. d \in 1..Len(tail) /\ k = Len(l) + d
        BY <3>2, <2>8, <2>6, <2>4, <2>1, <1>4
      <4>2. (l \o tail)[k] = entries[j + d - 1]
        BY <4>1, <2>8, <2>6
      <4>3. j + d - 1 \in 1..Len(entries)
        BY <4>1, <2>6, <2>4, <2>1
      <4> HIDE DEF d
      <4> QED
        BY <4>1, <4>2, <4>3, <2>5, <2>4, <1>4
    <3> QED
      BY <3>1, <3>2, <1>4
  <2>10. Len(l \o tail) >= 1
    BY <2>8, <2>6, <2>4, <2>1, <1>4
  <2> QED
    BY <2>7, <2>8, <2>9, <2>10 DEF Indexed
<1> QED
  BY <1>5, <1>6

-----------------------------------------------------------------------------
(* The inductive invariant behind TypeOK.                                   *)

TypeRf == rf = [i \in Server |-> rf[i]] /\ \A i \in Server : Good(rf[i])

(* The entries of an AppendEntries are numbered from PrevLogIndex on.       *)
MsgOK(m) ==
  /\ m \in Message
  /\ m.type = "AppendEntries" =>
        \A k \in 1..Len(m.Entries) : m.Entries[k].Index = m.PrevLogIndex + k

TypeRest ==
  /\ \A m \in msgs : MsgOK(m)
  /\ restarts \in Nat
  /\ votes \subseteq (Nat \X Server \X Server)
  /\ elected \subseteq (Nat \X Server)
  /\ applied \subseteq [term : Nat, entry : logEntry]

TypeInv == TypeRf /\ TypeRest

(* What may become of a Raft object's term and vote.                        *)
Fate(s, u) ==
  /\ u.currentTerm >= s.currentTerm
  /\ u.currentTerm > s.currentTerm \/ s.votedFor \in {Nil, u.votedFor}

Fates == \A j \in Server : Fate(rf[j], rf'[j])

(* Replacing one Raft object by a good one with a lawful fate keeps every   *)
(* object good and every fate lawful (each critical section of raft.go      *)
(* touches one peer).                                                       *)
LEMMA Touch ==
  ASSUME TypeRf, NEW i \in Server, NEW u, Good(u), Fate(rf[i], u), Update(i, u)
  PROVE  /\ TypeRf' /\ Fates
         /\ rf'[i] = u /\ \A j \in Server : j # i => rf'[j] = rf[j]
<1>1. rf'[i] = u /\ \A j \in Server : j # i => rf'[j] = rf[j]
  BY DEF TypeRf, Update
<1>2. rf' = [j \in Server |-> rf'[j]]
  BY DEF TypeRf, Update
<1>3. \A j \in Server : Fate(rf[j], rf[j])
  <2> TAKE j \in Server
  <2>1. rf[j].currentTerm \in Nat
    BY GoodFields DEF TypeRf
  <2> QED
    BY <2>1 DEF Fate
<1>4. \A j \in Server : Good(rf'[j]) /\ Fate(rf[j], rf'[j])
  BY <1>1, <1>3 DEF TypeRf
<1> QED
  BY <1>1, <1>2, <1>4 DEF TypeRf, Fates

(* A step that touches no peer.                                             *)
LEMMA TouchNone ==
  ASSUME TypeRf, rf' = rf
  PROVE  TypeRf' /\ Fates
<1>1. \A j \in Server : rf[j].currentTerm \in Nat
  BY GoodFields DEF TypeRf
<1> QED
  BY <1>1 DEF TypeRf, Fates, Fate

(* Fates compose.                                                           *)
LEMMA FateTrans ==
  ASSUME NEW s, Good(s), NEW u, Good(u), NEW w, Good(w), Fate(s, u), Fate(u, w)
  PROVE  Fate(s, w)
<1>1. s.currentTerm \in Nat /\ u.currentTerm \in Nat /\ w.currentTerm \in Nat
  BY GoodFields
<1> QED
  BY <1>1 DEF Fate

(* checkCurrentTerm forgets the vote only with the term it was cast in.     *)
LEMMA CheckFate ==
  ASSUME NEW s, Good(s), NEW t \in Nat
  PROVE  Fate(s, checkCurrentTerm(s, t))
<1>1. s.currentTerm \in Nat
  BY GoodFields
<1> QED
  BY SMTT(30), <1>1, CheckTerm DEF Fate

(* What Deliver leaves in flight.                                           *)
LEMMA Delivered ==
  ASSUME NEW m, NEW R, \A x \in msgs : MsgOK(x), \A x \in R : MsgOK(x), Deliver(m, R)
  PROVE  msgs' \subseteq msgs \cup R /\ \A x \in msgs' : MsgOK(x)
  BY DEF Deliver

(* The steps of the service goroutine that change only state, convertState  *)
(* and service of a peer.                                                   *)
LEMMA RoleStep ==
  ASSUME NEW s, Good(s), NEW st \in {"follower", "candidate", "leader"},
         NEW cs \in {Nil, "follower", "leader"},
         NEW sv \in {"asFollower", "follower", "asCandidate", "startElection",
                     "candidate", "asLeader", "leader", "panic"}
  PROVE  /\ Good([s EXCEPT !.state = st, !.service = sv])
         /\ Fate(s, [s EXCEPT !.state = st, !.service = sv])
         /\ Good([s EXCEPT !.service = sv])
         /\ Fate(s, [s EXCEPT !.service = sv])
         /\ Good([s EXCEPT !.convertState = cs])
         /\ Fate(s, [s EXCEPT !.convertState = cs])
         /\ Good([s EXCEPT !.convertState = cs, !.service = sv])
         /\ Fate(s, [s EXCEPT !.convertState = cs, !.service = sv])
<1>0. s.currentTerm \in Nat
  BY GoodFields
<1>1. Good([s EXCEPT !.state = st, !.service = sv])
  BY DEF Good, RaftObject
<1>2. Good([s EXCEPT !.service = sv])
  BY DEF Good, RaftObject
<1>3. Good([s EXCEPT !.convertState = cs])
  BY DEF Good, RaftObject
<1>4. Good([s EXCEPT !.convertState = cs, !.service = sv])
  BY DEF Good, RaftObject
<1>5. /\ Fate(s, [s EXCEPT !.state = st, !.service = sv])
      /\ Fate(s, [s EXCEPT !.service = sv])
      /\ Fate(s, [s EXCEPT !.convertState = cs])
      /\ Fate(s, [s EXCEPT !.convertState = cs, !.service = sv])
  BY <1>0 DEF Fate, Good, RaftObject
<1> QED
  BY <1>1, <1>2, <1>3, <1>4, <1>5

(* A service step leaves everything but its own peer alone.                 *)
LEMMA ServiceStepType ==
  ASSUME TypeInv, NEW i \in Server,
         \/ runAsFollower(i) \/ FollowerTimeout(i) \/ FollowerResetsTimer(i)
         \/ runAsCandidate(i) \/ CandidateTimeout(i) \/ CandidateConverts(i)
         \/ LeaderConverts(i)
  PROVE  TypeInv' /\ Fates
<1>1. Good(rf[i]) /\ TypeRf /\ TypeRest
  BY DEF TypeInv, TypeRf
<1>2. UNCHANGED <<msgs, restarts, votes, elected, applied>>
  BY DEF runAsFollower, FollowerTimeout, FollowerResetsTimer, runAsCandidate,
         CandidateTimeout, CandidateConverts, LeaderConverts
<1>3. TypeRest'
  BY <1>1, <1>2 DEF TypeRest
<1>4. \E u : Good(u) /\ Fate(rf[i], u) /\ Update(i, u)
  <2>1. CASE runAsFollower(i)
    BY <1>1, <2>1, RoleStep DEF runAsFollower
  <2>2. CASE FollowerTimeout(i)
    BY <1>1, <2>2, RoleStep DEF FollowerTimeout
  <2>3. CASE FollowerResetsTimer(i)
    BY <1>1, <2>3, RoleStep DEF FollowerResetsTimer
  <2>4. CASE runAsCandidate(i)
    BY <1>1, <2>4, RoleStep DEF runAsCandidate
  <2>5. CASE CandidateTimeout(i)
    BY <1>1, <2>5, RoleStep DEF CandidateTimeout
  <2>6. CASE CandidateConverts(i)
    BY <1>1, <2>6, RoleStep DEF CandidateConverts
  <2>7. CASE LeaderConverts(i)
    BY <1>1, <2>7, RoleStep DEF LeaderConverts
  <2> QED
    BY <2>1, <2>2, <2>3, <2>4, <2>5, <2>6, <2>7
<1> QED
  BY <1>1, <1>3, <1>4, Touch DEF TypeInv

(* New bookkeeping for a new leader.                                        *)
LEMMA LeaderObject ==
  ASSUME NEW s, Good(s), NEW n \in [Server -> Nat], NEW k \in [Server -> Nat]
  PROVE  Good([s EXCEPT !.state = "leader", !.service = "leader",
                        !.nextIndex = n, !.matchIndex = k])
  BY DEF Good, RaftObject

(* runAsLeader sets up nextIndex and matchIndex.                            *)
LEMMA RunAsLeaderType ==
  ASSUME TypeInv, NEW i \in Server, runAsLeader(i)
  PROVE  TypeInv' /\ Fates
<1> DEFINE n == [j \in Server |-> getLastLogIndex(rf[i]) + 1]
           k == [j \in Server |-> 0]
           u == [rf[i] EXCEPT !.state = "leader", !.service = "leader",
                              !.nextIndex = n, !.matchIndex = k]
<1>1. Good(rf[i]) /\ TypeRf /\ TypeRest
  BY DEF TypeInv, TypeRf
<1>2. n \in [Server -> Nat] /\ k \in [Server -> Nat]
  <2>1. getLastLogIndex(rf[i]) \in Nat
    BY <1>1, LogShape
  <2> QED
    BY <2>1
<1>3. Update(i, u) /\ UNCHANGED <<msgs, restarts, votes, elected, applied>>
  BY DEF runAsLeader
<1> HIDE DEF n, k
<1>4. Good(u)
  BY <1>1, <1>2, LeaderObject
<1>5. Fate(rf[i], u)
  <2>1. rf[i].currentTerm \in Nat
    BY <1>1, GoodFields
  <2> QED
    BY <1>1, <2>1 DEF Fate, Good, RaftObject
<1> HIDE DEF u
<1>6. TypeRest'
  BY <1>1, <1>3 DEF TypeRest
<1> QED
  BY <1>1, <1>3, <1>4, <1>5, <1>6, Touch DEF TypeInv

(* The four kinds of message the actions build are well formed.             *)
LEMMA VoteArgsOK ==
  ASSUME NEW j \in Server, NEW i \in Server, NEW t \in Nat, NEW n \in Nat, NEW lt \in Nat
  PROVE  MsgOK([type |-> "RequestVote", to |-> j, from |-> i, Term |-> t,
                CandidateId |-> i, LastLogIndex |-> n, LastLogTerm |-> lt])
  BY DEF MsgOK, Message, RequestVoteArgs

(* A reply to RequestVote.                                                  *)
LEMMA VoteReplyOK ==
  ASSUME NEW j \in Server, NEW i \in Server, NEW a \in Nat, NEW t \in Nat, NEW g \in BOOLEAN
  PROVE  MsgOK([type |-> "RequestVoteReply", to |-> j, from |-> i,
                argsTerm |-> a, Term |-> t, VoteGranted |-> g])
  BY DEF MsgOK, Message, RequestVoteReply

(* A request to append entries.                                             *)
LEMMA AppendArgsOK ==
  ASSUME NEW j \in Server, NEW i \in Server, NEW t \in Nat, NEW p \in Nat, NEW pt \in Nat,
         NEW es \in Seq(logEntry), \A k \in 1..Len(es) : es[k].Index = p + k, NEW c \in Nat
  PROVE  MsgOK([type |-> "AppendEntries", to |-> j, from |-> i, Term |-> t,
                PrevLogIndex |-> p, PrevLogTerm |-> pt, Entries |-> es,
                LeaderCommit |-> c])
  BY DEF MsgOK, Message, AppendEntriesArgs

(* The fields of well-formed messages.                                      *)
LEMMA VoteArgsFields ==
  ASSUME NEW m, MsgOK(m), m.type = "RequestVote"
  PROVE  /\ m.to \in Server /\ m.from \in Server \cup {Nil} /\ m.Term \in Nat
         /\ m.CandidateId \in Server
  BY DEF MsgOK, Message, RequestVoteArgs, RequestVoteReply, AppendEntriesArgs, AppendEntriesReply

(* A reply to RequestVote.                                                  *)
LEMMA VoteReplyFields ==
  ASSUME NEW m, MsgOK(m), m.type = "RequestVoteReply"
  PROVE  /\ m.to \in Server /\ m.from \in Server /\ m.Term \in Nat /\ m.argsTerm \in Nat
         /\ m.VoteGranted \in BOOLEAN
  BY DEF MsgOK, Message, RequestVoteArgs, RequestVoteReply, AppendEntriesArgs, AppendEntriesReply

(* A request to append entries.                                             *)
LEMMA AppendArgsFields ==
  ASSUME NEW m, MsgOK(m), m.type = "AppendEntries"
  PROVE  /\ m.to \in Server /\ m.from \in Server \cup {Nil} /\ m.Term \in Nat
         /\ m.PrevLogIndex \in Nat /\ m.PrevLogTerm \in Nat
         /\ m.Entries \in Seq(logEntry) /\ m.LeaderCommit \in Nat
         /\ \A k \in 1..Len(m.Entries) : m.Entries[k].Index = m.PrevLogIndex + k
  BY DEF MsgOK, Message, RequestVoteArgs, RequestVoteReply, AppendEntriesArgs, AppendEntriesReply

(* A reply to AppendEntries.                                                *)
LEMMA AppendReplyFields ==
  ASSUME NEW m, MsgOK(m), m.type = "AppendEntriesReply"
  PROVE  /\ m.to \in Server /\ m.from \in Server /\ m.Term \in Nat /\ m.argsTerm \in Nat
         /\ m.argsMatch \in Nat /\ m.Success \in BOOLEAN /\ m.ConflictIndex \in Nat
  BY DEF MsgOK, Message, RequestVoteArgs, RequestVoteReply, AppendEntriesArgs, AppendEntriesReply

(* What AppendEntries answers is well formed.                               *)
LEMMA AppendReplyOK ==
  ASSUME NEW m, MsgOK(m), m.type = "AppendEntries", m.from # Nil, NEW i \in Server,
         NEW t \in Nat, NEW g \in BOOLEAN, NEW ci \in Nat, NEW ct \in Nat \cup {-1}
  PROVE  MsgOK(appendReply(i, m, t, g, ci, ct))
<1>1. m.from \in Server /\ m.Term \in Nat /\ m.PrevLogIndex + Len(m.Entries) \in Nat
  BY AppendArgsFields
<1> DEFINE n == m.PrevLogIndex + Len(m.Entries)
<1>2. appendReply(i, m, t, g, ci, ct) =
        [type |-> "AppendEntriesReply", to |-> m.from, from |-> i,
         argsTerm |-> m.Term, argsMatch |-> n, Term |-> t, Success |-> g,
         ConflictIndex |-> ci, ConflictTerm |-> ct]
  BY DEF appendReply
<1> HIDE DEF n
<1> QED
  BY <1>1, <1>2 DEF MsgOK, Message, AppendEntriesReply, n

(* The candidate of a new election.                                         *)
Candidacy(s, i, t) ==
  persist([s EXCEPT !.state = "candidate", !.currentTerm = t,
                    !.votedFor = i, !.service = "candidate",
                    !.vote = [term |-> t, voteRecord |-> {}]])

(* A candidacy is a good object, saved before any request is sent.          *)
LEMMA ElectionObject ==
  ASSUME NEW s, Good(s), NEW i \in Server, NEW t \in Nat
  PROVE  LET u == Candidacy(s, i, t)
         IN  /\ Good(u) /\ u.currentTerm = t /\ u.votedFor = i /\ u.state = "candidate"
             /\ u.service = "candidate" /\ u.vote = [term |-> t, voteRecord |-> {}]
             /\ u.convertState = s.convertState /\ u.mutex = s.mutex /\ u.log = s.log
<1> DEFINE v == [term |-> t, voteRecord |-> {}]
           p == [s EXCEPT !.state = "candidate", !.currentTerm = t, !.votedFor = i,
                          !.service = "candidate", !.vote = v]
<1>1. v \in [term : Nat, voteRecord : SUBSET Server]
  OBVIOUS
<1> HIDE DEF v
<1>2. p \in RaftObject /\ Indexed(p.log)
  BY <1>1 DEF Good, RaftObject
<1>3. /\ p.currentTerm = t /\ p.votedFor = i /\ p.state = "candidate"
      /\ p.service = "candidate" /\ p.vote = v /\ p.convertState = s.convertState
      /\ p.mutex = s.mutex /\ p.log = s.log
  BY DEF Good, RaftObject
<1> HIDE DEF p
<1>4. /\ Good(persist(p)) /\ persist(p).currentTerm = t /\ persist(p).votedFor = i
      /\ persist(p).state = "candidate" /\ persist(p).service = "candidate"
      /\ persist(p).vote = v /\ persist(p).convertState = s.convertState
      /\ persist(p).mutex = s.mutex /\ persist(p).log = s.log
  BY <1>2, <1>3, PersistGood
<1> QED
  BY <1>4 DEF Candidacy, p, v

(* What StartElection makes of the peer, and what it sends.                 *)
NewTerm(i) == rf[i].currentTerm + 1

Candidate(i) == Candidacy(rf[i], i, NewTerm(i))

Ballot(i, j) ==
  [type |-> "RequestVote", to |-> j, from |-> i, Term |-> NewTerm(i), CandidateId |-> i,
   LastLogIndex |-> getLastLogIndex(Candidate(i)),
   LastLogTerm  |-> IF getLastLogIndex(Candidate(i)) = 0 THEN 0
                    ELSE getLastLogTerm(Candidate(i))]

(* The effect of StartElection, field by field.                             *)
LEMMA StartElectionEffect ==
  ASSUME TypeRf, NEW i \in Server, StartElection(i)
  PROVE  /\ Good(Candidate(i)) /\ NewTerm(i) \in Nat
         /\ Update(i, Candidate(i))
         /\ Candidate(i).currentTerm = NewTerm(i) /\ Candidate(i).votedFor = i
         /\ Candidate(i).state = "candidate" /\ Candidate(i).service = "candidate"
         /\ Candidate(i).vote = [term |-> NewTerm(i), voteRecord |-> {}]
         /\ Candidate(i).convertState = rf[i].convertState
         /\ Candidate(i).mutex = rf[i].mutex
         /\ \A m \in msgs' \ msgs : \E j \in Server : m = Ballot(i, j)
         /\ \A j \in Server : MsgOK(Ballot(i, j))
         /\ votes' = votes \cup {<<NewTerm(i), i, i>>}
         /\ UNCHANGED <<restarts, elected, applied>>
<1>1. Good(rf[i]) /\ NewTerm(i) \in Nat
  BY GoodFields DEF TypeRf, NewTerm
<1>2. /\ Update(i, Candidate(i))
      /\ \E peers \in SUBSET (Server \ {i}) : msgs' = msgs \cup {Ballot(i, j) : j \in peers}
      /\ votes' = votes \cup {<<NewTerm(i), i, i>>}
      /\ UNCHANGED <<restarts, elected, applied>>
  BY DEF StartElection, Candidate, Candidacy, Ballot, NewTerm
<1>3. /\ Good(Candidate(i)) /\ Candidate(i).currentTerm = NewTerm(i)
      /\ Candidate(i).votedFor = i
      /\ Candidate(i).state = "candidate" /\ Candidate(i).service = "candidate"
      /\ Candidate(i).vote = [term |-> NewTerm(i), voteRecord |-> {}]
      /\ Candidate(i).convertState = rf[i].convertState
      /\ Candidate(i).mutex = rf[i].mutex
  BY <1>1, ElectionObject DEF Candidate
<1>4. /\ getLastLogIndex(Candidate(i)) \in Nat
      /\ (IF getLastLogIndex(Candidate(i)) = 0 THEN 0 ELSE getLastLogTerm(Candidate(i))) \in Nat
  BY <1>3, LogShape
<1>5. \A j \in Server : MsgOK(Ballot(i, j))
  <2> TAKE j \in Server
  <2> DEFINE n == getLastLogIndex(Candidate(i))
             lt == IF getLastLogIndex(Candidate(i)) = 0 THEN 0 ELSE getLastLogTerm(Candidate(i))
  <2>1. Ballot(i, j) = [type |-> "RequestVote", to |-> j, from |-> i, Term |-> NewTerm(i),
                        CandidateId |-> i, LastLogIndex |-> n, LastLogTerm |-> lt]
    BY DEF Ballot
  <2>2. n \in Nat /\ lt \in Nat
    BY <1>4
  <2> HIDE DEF n, lt
  <2> QED
    BY <1>1, <2>1, <2>2, VoteArgsOK
<1>6. \A m \in msgs' \ msgs : \E j \in Server : m = Ballot(i, j)
  BY <1>2
<1> QED
  BY <1>1, <1>2, <1>3, <1>5, <1>6

(* Starting an election.                                                    *)
LEMMA StartElectionType ==
  ASSUME TypeInv, NEW i \in Server, StartElection(i)
  PROVE  TypeInv' /\ Fates
<1>1. Good(rf[i]) /\ TypeRf /\ TypeRest /\ rf[i].currentTerm \in Nat
  BY GoodFields DEF TypeInv, TypeRf
<1>2. /\ Good(Candidate(i)) /\ NewTerm(i) \in Nat
      /\ Update(i, Candidate(i))
      /\ Candidate(i).currentTerm = NewTerm(i)
      /\ \A m \in msgs' \ msgs : \E j \in Server : m = Ballot(i, j)
      /\ \A j \in Server : MsgOK(Ballot(i, j))
      /\ votes' = votes \cup {<<NewTerm(i), i, i>>}
      /\ UNCHANGED <<restarts, elected, applied>>
  BY <1>1, StartElectionEffect
<1>3. Fate(rf[i], Candidate(i))
  BY <1>1, <1>2 DEF Fate, NewTerm
<1>4. \A m \in msgs' : MsgOK(m)
  BY <1>1, <1>2 DEF TypeRest
<1>5. TypeRest'
  BY <1>1, <1>2, <1>4 DEF TypeRest
<1> QED
  BY <1>1, <1>2, <1>3, <1>5, Touch DEF TypeInv

(* What RequestVote makes of the peer, and what it answers.                 *)
Checked(i, m) == checkCurrentTerm(rf[i], m.Term)

Voter(i, m) ==
  IF mayVote(Checked(i, m), m) THEN grantVote(Checked(i, m), m.CandidateId) ELSE Checked(i, m)

VoteAnswer(i, m) ==
  [type |-> "RequestVoteReply", to |-> m.from, from |-> i, argsTerm |-> m.Term,
   Term |-> Checked(i, m).currentTerm, VoteGranted |-> mayVote(Checked(i, m), m)]

(* A handler first adopts a newer term.                                     *)
LEMMA CheckedGood ==
  ASSUME TypeRf, NEW i \in Server, NEW m, m.Term \in Nat
  PROVE  /\ Good(rf[i]) /\ Good(Checked(i, m)) /\ Fate(rf[i], Checked(i, m))
         /\ Checked(i, m).currentTerm \in Nat /\ Checked(i, m).currentTerm >= m.Term
<1>1. Good(rf[i])
  BY DEF TypeRf
<1>2. rf[i].currentTerm \in Nat
  BY <1>1, GoodFields
<1>3. Good(Checked(i, m)) /\ Fate(rf[i], Checked(i, m))
  BY <1>1, CheckTerm, CheckFate DEF Checked
<1>4. Checked(i, m).currentTerm = IF m.Term <= rf[i].currentTerm THEN rf[i].currentTerm ELSE m.Term
  BY <1>1, CheckTerm DEF Checked
<1> QED
  BY <1>1, <1>2, <1>3, <1>4

(* The effect of RequestVote, field by field: a vote is granted only in the *)
(* voter's own term, and only if it has not been given to someone else.     *)
LEMMA RequestVoteEffect ==
  ASSUME TypeInv, NEW i \in Server, NEW m \in msgs, RequestVote(i, m)
  PROVE  LET s == Checked(i, m)
             u == Voter(i, m)
             g == mayVote(s, m)
         IN  /\ Good(u) /\ Fate(rf[i], u) /\ Update(i, u)
             /\ u.currentTerm = s.currentTerm /\ u.vote = rf[i].vote
             /\ g => /\ u.votedFor = m.CandidateId /\ m.CandidateId \in Server
                     /\ s.votedFor \in {Nil, m.CandidateId} /\ s.currentTerm = m.Term
             /\ votes' = votes \cup (IF g THEN {<<s.currentTerm, i, m.CandidateId>>} ELSE {})
             /\ \A x \in msgs' : x \in msgs \/ (x = VoteAnswer(i, m) /\ m.from \in Server)
             /\ m.from \in Server => MsgOK(VoteAnswer(i, m))
             /\ UNCHANGED <<restarts, elected, applied>>
<1>0. MsgOK(m) /\ TypeRf /\ TypeRest
  BY DEF TypeInv, TypeRest
<1>1. /\ m.from \in Server \cup {Nil} /\ m.Term \in Nat /\ m.CandidateId \in Server
  BY <1>0, VoteArgsFields DEF RequestVote
<1>2. /\ Good(rf[i]) /\ Good(Checked(i, m)) /\ Fate(rf[i], Checked(i, m))
      /\ Checked(i, m).currentTerm \in Nat /\ Checked(i, m).currentTerm >= m.Term
  BY <1>0, <1>1, CheckedGood
<1> DEFINE s == Checked(i, m)
           g == mayVote(s, m)
           u == Voter(i, m)
           w == grantVote(s, m.CandidateId)
<1>3. /\ Update(i, u)
      /\ votes' = votes \cup (IF g THEN {<<s.currentTerm, i, m.CandidateId>>} ELSE {})
      /\ Deliver(m, Reply(m, VoteAnswer(i, m)))
      /\ UNCHANGED <<restarts, elected, applied>>
  BY DEF RequestVote, Checked, Voter, VoteAnswer
<1>4. s.vote = rf[i].vote
  BY <1>1, <1>2, CheckTerm DEF Checked
<1>5. g \in BOOLEAN
  BY DEF mayVote
<1>6. g => s.votedFor \in {Nil, m.CandidateId} /\ s.currentTerm = m.Term
  BY <1>1, <1>2 DEF mayVote
<1>7. u = IF g THEN w ELSE s
  BY DEF Voter
<1>8. m.from \in Server => MsgOK(VoteAnswer(i, m))
  BY <1>1, <1>2, <1>5, VoteReplyOK DEF VoteAnswer
<1>9. \A x \in msgs' : x \in msgs \/ (x = VoteAnswer(i, m) /\ m.from \in Server)
  BY <1>1, <1>3 DEF Deliver, Reply
<1> HIDE DEF s, g, u
<1>10. Good(s) /\ Fate(rf[i], s) /\ Good(rf[i]) /\ s.currentTerm \in Nat
  BY <1>2 DEF s
<1>11. Good(w) /\ w.currentTerm = s.currentTerm /\ w.votedFor = m.CandidateId /\ w.vote = s.vote
  BY <1>1, <1>10, Grant
<1> HIDE DEF w
<1>12. g => Fate(rf[i], w)
  <2>1. g => Fate(s, w)
    BY <1>6, <1>10, <1>11 DEF Fate
  <2> QED
    BY <2>1, <1>10, <1>11, FateTrans
<1>13. /\ Good(u) /\ Fate(rf[i], u) /\ u.currentTerm = s.currentTerm
       /\ u.vote = rf[i].vote
       /\ g => u.votedFor = m.CandidateId
  BY <1>4, <1>7, <1>10, <1>11, <1>12
<1> QED
  BY <1>1, <1>3, <1>6, <1>8, <1>9, <1>13 DEF s, g, u

(* Answering a request for a vote.                                          *)
LEMMA RequestVoteType ==
  ASSUME TypeInv, NEW i \in Server, NEW m \in msgs, RequestVote(i, m)
  PROVE  TypeInv' /\ Fates
<1> DEFINE s == Checked(i, m)
           u == Voter(i, m)
           g == mayVote(s, m)
<1>1. TypeRf /\ TypeRest /\ Good(rf[i])
  BY DEF TypeInv, TypeRf
<1>2. /\ Good(u) /\ Fate(rf[i], u) /\ Update(i, u)
      /\ u.currentTerm = s.currentTerm
      /\ g => m.CandidateId \in Server
      /\ votes' = votes \cup (IF g THEN {<<s.currentTerm, i, m.CandidateId>>} ELSE {})
      /\ \A x \in msgs' : x \in msgs \/ (x = VoteAnswer(i, m) /\ m.from \in Server)
      /\ m.from \in Server => MsgOK(VoteAnswer(i, m))
      /\ UNCHANGED <<restarts, elected, applied>>
  BY RequestVoteEffect
<1> HIDE DEF s, u, g
<1>3. s.currentTerm \in Nat
  BY <1>2, GoodFields
<1>4. TypeRest'
  BY <1>1, <1>2, <1>3 DEF TypeRest
<1> QED
  BY <1>1, <1>2, <1>4, Touch DEF TypeInv

(* A vote more.                                                             *)
WithVote(s, j) == [s EXCEPT !.vote.voteRecord = @ \cup {j}]

(* Recording a vote changes vote.voteRecord alone.                          *)
LEMMA WithVoteGood ==
  ASSUME NEW s, Good(s), NEW j \in Server
  PROVE  LET u == WithVote(s, j)
         IN  /\ Good(u) /\ u.currentTerm = s.currentTerm /\ u.votedFor = s.votedFor
             /\ u.vote.term = s.vote.term /\ u.vote.voteRecord = s.vote.voteRecord \cup {j}
             /\ u.state = s.state /\ u.convertState = s.convertState /\ u.service = s.service
             /\ u.mutex = s.mutex
<1> DEFINE v == [s.vote EXCEPT !.voteRecord = s.vote.voteRecord \cup {j}]
           u == [s EXCEPT !.vote = v]
<1>1. s.vote \in [term : Nat, voteRecord : SUBSET Server]
  BY GoodFields
<1>2. /\ v \in [term : Nat, voteRecord : SUBSET Server]
      /\ v.term = s.vote.term /\ v.voteRecord = s.vote.voteRecord \cup {j}
  BY <1>1
<1>3. WithVote(s, j) = u
  BY DEF WithVote
<1> HIDE DEF v
<1>4. /\ Good(u) /\ u.vote = v
  BY <1>2 DEF Good, RaftObject
<1>5. /\ u.currentTerm = s.currentTerm /\ u.votedFor = s.votedFor
      /\ u.state = s.state /\ u.convertState = s.convertState /\ u.service = s.service
      /\ u.mutex = s.mutex
  BY DEF Good, RaftObject
<1> HIDE DEF u
<1> QED
  BY <1>2, <1>3, <1>4, <1>5

(* Putting a leader token, or waiting for the channel, touches nothing else.*)
LEMMA WinnerGood ==
  ASSUME NEW s, Good(s), NEW x \in {Nil, "vote"}
  PROVE  /\ LET u == [s EXCEPT !.state = "leader", !.convertState = "leader"]
            IN  /\ Good(u) /\ u.currentTerm = s.currentTerm /\ u.votedFor = s.votedFor
                /\ u.vote = s.vote /\ u.service = s.service /\ u.state = "leader"
                /\ u.convertState = "leader" /\ u.mutex = s.mutex
         /\ LET u == [s EXCEPT !.mutex = x]
            IN  /\ Good(u) /\ u.currentTerm = s.currentTerm /\ u.votedFor = s.votedFor
                /\ u.vote = s.vote /\ u.service = s.service /\ u.state = s.state
                /\ u.convertState = s.convertState /\ u.mutex = x
         /\ LET u == [s EXCEPT !.state = "leader", !.convertState = "leader", !.mutex = x]
            IN  /\ Good(u) /\ u.currentTerm = s.currentTerm /\ u.votedFor = s.votedFor
                /\ u.vote = s.vote
<1>1. LET u == [s EXCEPT !.state = "leader", !.convertState = "leader"]
      IN  /\ Good(u) /\ u.currentTerm = s.currentTerm /\ u.votedFor = s.votedFor
          /\ u.vote = s.vote /\ u.service = s.service /\ u.state = "leader"
          /\ u.convertState = "leader" /\ u.mutex = s.mutex
  BY DEF Good, RaftObject
<1>2. LET u == [s EXCEPT !.mutex = x]
      IN  /\ Good(u) /\ u.currentTerm = s.currentTerm /\ u.votedFor = s.votedFor
          /\ u.vote = s.vote /\ u.service = s.service /\ u.state = s.state
          /\ u.convertState = s.convertState /\ u.mutex = x
  BY DEF Good, RaftObject
<1>3. LET u == [s EXCEPT !.state = "leader", !.convertState = "leader", !.mutex = x]
      IN  /\ Good(u) /\ u.currentTerm = s.currentTerm /\ u.votedFor = s.votedFor
          /\ u.vote = s.vote
  BY DEF Good, RaftObject
<1> QED
  BY <1>1, <1>2, <1>3

(* The four outcomes of a reply to a request for a vote.                    *)
Counted(i, m) == WithVote(Checked(i, m), m.from)

Outcome(i, m, u) ==
  LET s      == Checked(i, m)
      t      == Counted(i, m)
      counts == countsVote(s, m)
      wins   == Majority({i} \cup t.vote.voteRecord)
  IN  \/ ~counts /\ u = s /\ UNCHANGED elected
      \/ counts /\ ~wins /\ u = t /\ UNCHANGED elected
      \/ /\ counts /\ wins /\ s.convertState = Nil
         /\ u = [t EXCEPT !.state = "leader", !.convertState = "leader"]
         /\ elected' = elected \cup {<<s.currentTerm, i>>}
      \/ /\ counts /\ wins /\ s.convertState # Nil
         /\ u = [t EXCEPT !.mutex = "vote"]
         /\ elected' = elected \cup {<<s.currentTerm, i>>}

(* The effect of a reply: term and vote as after checkCurrentTerm, at most  *)
(* one vote more, and a winner only if it has a majority.                   *)
LEMMA VoteReplyEffect ==
  ASSUME TypeInv, NEW i \in Server, NEW m \in msgs, VoteReply(i, m)
  PROVE  \E u :
            /\ Good(u) /\ Fate(rf[i], u) /\ Update(i, u) /\ Outcome(i, m, u)
            /\ u.currentTerm = Checked(i, m).currentTerm
            /\ u.vote.term = rf[i].vote.term
            /\ \/ u.vote.voteRecord = rf[i].vote.voteRecord /\ UNCHANGED elected
               \/ /\ u.vote.voteRecord = rf[i].vote.voteRecord \cup {m.from}
                  /\ countsVote(Checked(i, m), m)
                  /\ \/ UNCHANGED elected
                     \/ /\ elected' = elected \cup {<<Checked(i, m).currentTerm, i>>}
                        /\ Majority({i} \cup u.vote.voteRecord)
            /\ msgs' \subseteq msgs
            /\ UNCHANGED <<restarts, votes, applied>>
<1> DEFINE s == Checked(i, m)
           t == Counted(i, m)
           counts == countsVote(s, m)
           wins == Majority({i} \cup t.vote.voteRecord)
           t1 == [t EXCEPT !.state = "leader", !.convertState = "leader"]
           t2 == [t EXCEPT !.mutex = "vote"]
<1>0. MsgOK(m) /\ TypeRf /\ TypeRest
  BY DEF TypeInv, TypeRest
<1>1. m.from \in Server /\ m.Term \in Nat
  BY <1>0, VoteReplyFields DEF VoteReply
<1>2. Good(rf[i]) /\ Good(s) /\ Fate(rf[i], s) /\ s.currentTerm \in Nat
  BY <1>0, <1>1, CheckedGood
<1>3. s.vote = rf[i].vote
  BY <1>1, <1>2, CheckTerm DEF Checked
<1>4. Deliver(m, {}) /\ UNCHANGED <<restarts, votes, applied>>
  BY DEF VoteReply
<1>5. msgs' \subseteq msgs
  BY <1>4 DEF Deliver
<1>6. PICK u : Update(i, u) /\ Outcome(i, m, u)
  BY DEF VoteReply, Outcome, Checked, Counted, WithVote
<1>7. \/ ~counts /\ u = s /\ UNCHANGED elected
      \/ counts /\ ~wins /\ u = t /\ UNCHANGED elected
      \/ counts /\ wins /\ u = t1 /\ elected' = elected \cup {<<s.currentTerm, i>>}
      \/ counts /\ wins /\ u = t2 /\ elected' = elected \cup {<<s.currentTerm, i>>}
  BY <1>6 DEF Outcome
<1> HIDE DEF s
<1>8. /\ Good(t) /\ t.currentTerm = s.currentTerm /\ t.votedFor = s.votedFor
      /\ t.vote.term = s.vote.term /\ t.vote.voteRecord = s.vote.voteRecord \cup {m.from}
  BY <1>1, <1>2, WithVoteGood DEF Counted, s
<1> HIDE DEF t, counts
<1>9. /\ Good(t1) /\ t1.currentTerm = s.currentTerm /\ t1.votedFor = s.votedFor /\ t1.vote = t.vote
      /\ Good(t2) /\ t2.currentTerm = s.currentTerm /\ t2.votedFor = s.votedFor /\ t2.vote = t.vote
  BY <1>8, WinnerGood
<1> HIDE DEF t1, t2
<1>10. /\ Good(u) /\ u.currentTerm = s.currentTerm /\ u.votedFor = s.votedFor
       /\ u.vote.term = rf[i].vote.term
  BY <1>2, <1>3, <1>7, <1>8, <1>9
<1>11. \/ u.vote.voteRecord = rf[i].vote.voteRecord /\ UNCHANGED elected
       \/ /\ u.vote.voteRecord = rf[i].vote.voteRecord \cup {m.from}
          /\ counts
          /\ \/ UNCHANGED elected
             \/ /\ elected' = elected \cup {<<s.currentTerm, i>>}
                /\ Majority({i} \cup u.vote.voteRecord)
  BY <1>3, <1>7, <1>8, <1>9
<1>12. Fate(rf[i], u)
  BY <1>2, <1>10 DEF Fate
<1> QED
  BY <1>4, <1>5, <1>6, <1>10, <1>11, <1>12 DEF s, counts

(* Counting a vote.                                                         *)
LEMMA VoteReplyType ==
  ASSUME TypeInv, NEW i \in Server, NEW m \in msgs, VoteReply(i, m)
  PROVE  TypeInv' /\ Fates
<1>1. TypeRf /\ TypeRest
  BY DEF TypeInv
<1>2. PICK u : /\ Good(u) /\ Fate(rf[i], u) /\ Update(i, u)
               /\ u.currentTerm = Checked(i, m).currentTerm
               /\ \/ UNCHANGED elected
                  \/ elected' = elected \cup {<<Checked(i, m).currentTerm, i>>}
               /\ msgs' \subseteq msgs
               /\ UNCHANGED <<restarts, votes, applied>>
  BY VoteReplyEffect
<1>3. u.currentTerm \in Nat
  BY <1>2, GoodFields
<1>4. TypeRest'
  BY <1>1, <1>2, <1>3 DEF TypeRest
<1> QED
  BY <1>1, <1>2, <1>4, Touch DEF TypeInv

(* The vote counter takes the old token out and puts its own in.            *)
LEMMA VoteReplacesTokenType ==
  ASSUME TypeInv, NEW i \in Server, VoteReplacesToken(i)
  PROVE  TypeInv' /\ Fates /\ rf'[i].vote = rf[i].vote
<1> DEFINE u == [rf[i] EXCEPT !.state = "leader", !.convertState = "leader", !.mutex = Nil]
<1>1. TypeRf /\ TypeRest /\ Good(rf[i])
  BY DEF TypeInv, TypeRf
<1>2. Update(i, u) /\ UNCHANGED <<msgs, restarts, votes, elected, applied>>
  BY DEF VoteReplacesToken
<1>3. /\ Good(u) /\ u.currentTerm = rf[i].currentTerm /\ u.votedFor = rf[i].votedFor
      /\ u.vote = rf[i].vote /\ rf[i].currentTerm \in Nat
  BY <1>1, WinnerGood, GoodFields
<1> HIDE DEF u
<1>4. Fate(rf[i], u)
  BY <1>3 DEF Fate
<1>5. TypeRest'
  BY <1>1, <1>2 DEF TypeRest
<1> QED
  BY <1>1, <1>2, <1>3, <1>4, <1>5, Touch DEF TypeInv

(* A lost message changes nothing else.                                     *)
LEMMA LoseType ==
  ASSUME TypeInv, NEW m \in msgs, Lose(m)
  PROVE  TypeInv' /\ Fates
<1>1. TypeRf /\ TypeRest
  BY DEF TypeInv
<1>2. rf' = rf /\ msgs' \subseteq msgs /\ UNCHANGED <<restarts, votes, elected, applied>>
  BY DEF Lose
<1>3. TypeRest'
  BY <1>1, <1>2 DEF TypeRest
<1> QED
  BY <1>1, <1>2, <1>3, TouchNone DEF TypeInv

(* Saving after a change of the log alone.                                  *)
LEMMA SaveLog ==
  ASSUME NEW s, Good(s), NEW l \in Seq(logEntry), Indexed(l)
  PROVE  LET u == persist([s EXCEPT !.log = l])
         IN  /\ Good(u) /\ u.log = l /\ u.currentTerm = s.currentTerm
             /\ u.votedFor = s.votedFor /\ u.vote = s.vote /\ u.state = s.state
             /\ u.convertState = s.convertState /\ u.service = s.service /\ u.mutex = s.mutex
<1> DEFINE p == [s EXCEPT !.log = l]
<1>1. p \in RaftObject /\ p.log = l
  BY DEF Good, RaftObject
<1>2. /\ p.currentTerm = s.currentTerm
      /\ p.votedFor = s.votedFor /\ p.vote = s.vote /\ p.state = s.state
      /\ p.convertState = s.convertState /\ p.service = s.service /\ p.mutex = s.mutex
  BY DEF Good, RaftObject
<1> HIDE DEF p
<1>3. /\ Good(persist(p)) /\ persist(p).log = l
      /\ persist(p).currentTerm = s.currentTerm
      /\ persist(p).votedFor = s.votedFor /\ persist(p).vote = s.vote
      /\ persist(p).state = s.state /\ persist(p).convertState = s.convertState
      /\ persist(p).service = s.service /\ persist(p).mutex = s.mutex
  BY <1>1, <1>2, PersistGood
<1> QED
  BY <1>3 DEF p

(* The leader appends a command to its log.                                 *)
LEMMA StartEffect ==
  ASSUME TypeInv, NEW i \in Server, NEW command \in Command, Start(i, command)
  PROVE  \E u : /\ Good(u) /\ Update(i, u)
                /\ u.currentTerm = rf[i].currentTerm
                /\ u.votedFor = rf[i].votedFor /\ u.vote = rf[i].vote /\ u.state = rf[i].state
                /\ u.convertState = rf[i].convertState /\ u.service = rf[i].service
                /\ u.mutex = rf[i].mutex
<1> DEFINE n == getLastLogIndex(rf[i]) + 1
           e == [Term |-> rf[i].currentTerm, Index |-> n, Command |-> command]
           l == Append(rf[i].log, e)
<1>1. Good(rf[i])
  BY DEF TypeInv, TypeRf
<1>2. /\ rf[i].log \in Seq(logEntry) /\ rf[i].currentTerm \in Nat
      /\ Len(rf[i].log) \in Nat \ {0} /\ n = Len(rf[i].log)
      /\ \A k \in 1..Len(rf[i].log) : rf[i].log[k].Index = k - 1
  <2>1. rf[i].log \in Seq(logEntry) /\ rf[i].currentTerm \in Nat
    BY <1>1, GoodFields
  <2>2. Len(rf[i].log) \in Nat \ {0} /\ getLastLogIndex(rf[i]) = Len(rf[i].log) - 1
    BY <1>1, LogShape
  <2>3. \A k \in 1..Len(rf[i].log) : rf[i].log[k].Index = k - 1
    BY <1>1 DEF Good, Indexed
  <2> QED
    BY <2>1, <2>2, <2>3
<1>3. Update(i, persist([rf[i] EXCEPT !.log = l]))
  BY DEF Start
<1> HIDE DEF n
<1>4. e \in logEntry
  BY <1>2 DEF logEntry
<1>5. e.Index = Len(rf[i].log)
  BY <1>2
<1> HIDE DEF e
<1>6. /\ l \in Seq(logEntry) /\ Len(l) = Len(rf[i].log) + 1
      /\ \A k \in 1..Len(rf[i].log) : l[k] = rf[i].log[k]
      /\ l[Len(l)] = e
  BY <1>2, <1>4
<1> HIDE DEF l
<1>7. Indexed(l)
  <2>1. ASSUME NEW k \in 1..Len(l)
        PROVE  l[k].Index = k - 1
    <3>1. CASE k \in 1..Len(rf[i].log)
      BY <3>1, <1>2, <1>6
    <3>2. CASE k = Len(l)
      BY <3>2, <1>2, <1>5, <1>6
    <3> QED
      BY <3>1, <3>2, <1>2, <1>6
  <2> QED
    BY <2>1, <1>2, <1>6 DEF Indexed
<1> QED
  BY <1>1, <1>3, <1>6, <1>7, SaveLog

(* Starting a command.                                                      *)
LEMMA StartType ==
  ASSUME TypeInv, NEW i \in Server, NEW command \in Command, Start(i, command)
  PROVE  TypeInv' /\ Fates
<1>1. TypeRf /\ TypeRest /\ rf[i].currentTerm \in Nat
  BY GoodFields DEF TypeInv, TypeRf
<1>2. PICK u : /\ Good(u) /\ Update(i, u) /\ u.currentTerm = rf[i].currentTerm
               /\ u.votedFor = rf[i].votedFor
  BY StartEffect
<1>3. Fate(rf[i], u)
  BY <1>1, <1>2 DEF Fate
<1>4. TypeRest'
  BY <1>1 DEF TypeRest, Start
<1> QED
  BY <1>1, <1>2, <1>3, <1>4, Touch DEF TypeInv

(* The entries a leader sends are numbered from the index it names on.      *)
LEMMA SendType ==
  ASSUME TypeInv, NEW i \in Server, NEW j \in Server, sendAppendEntriesTo(i, j)
  PROVE  TypeInv' /\ Fates
<1> DEFINE s == rf[i]
           prev == s.nextIndex[j] - 1
           pt == IF prev = 0 THEN 0 ELSE getLogEntry(s, prev).Term
           es == IF getLastLogIndex(s) >= s.nextIndex[j]
                 THEN getEntryFrom(s, prev + 1) ELSE <<>>
           a == [type |-> "AppendEntries", to |-> j, from |-> i, Term |-> s.currentTerm,
                 PrevLogIndex |-> prev, PrevLogTerm |-> pt, Entries |-> es,
                 LeaderCommit |-> s.commitIndex]
<1>1. TypeRf /\ TypeRest /\ Good(s)
  BY DEF TypeInv, TypeRf
<1>2. s.currentTerm \in Nat /\ s.commitIndex \in Nat /\ s.nextIndex[j] \in Nat
  BY <1>1, GoodFields
<1>3. /\ rf' = rf /\ msgs' = msgs \cup {a} /\ s.nextIndex[j] > 0
      /\ UNCHANGED <<restarts, votes, elected, applied>>
  BY DEF sendAppendEntriesTo
<1>4. prev \in Nat /\ s.nextIndex[j] = prev + 1
  BY <1>2, <1>3
<1> HIDE DEF prev
<1>5. pt \in Nat
  BY <1>1, <1>4, LogShape DEF logEntry
<1>6. es \in Seq(logEntry) /\ \A k \in 1..Len(es) : es[k].Index = prev + k
  <2>1. /\ s.log \in Seq(logEntry) /\ Len(s.log) \in Nat \ {0} /\ s.log[1].Index = 0
        /\ getLastLogIndex(s) = Len(s.log) - 1
        /\ \A k \in 1..Len(s.log) : s.log[k].Index = k - 1
    BY <1>1, GoodFields, LogShape DEF Good, Indexed
  <2>2. CASE getLastLogIndex(s) >= s.nextIndex[j]
    <3>1. es = SubSeq(s.log, prev + 2, Len(s.log))
      <4>1. (prev + 1) - s.log[1].Index + 1 = prev + 2
        BY <1>4, <2>1
      <4> QED
        BY <2>2, <4>1 DEF getEntryFrom
    <3>2. prev + 2 \in Nat \ {0} /\ Len(s.log) \in Nat /\ prev + 2 <= Len(s.log) + 1
      BY <2>1, <2>2, <1>4
    <3>3. /\ es \in Seq(logEntry) /\ Len(es) = Len(s.log) - (prev + 2) + 1
          /\ \A k \in 1..(Len(s.log) - (prev + 2) + 1) : es[k] = s.log[(prev + 2) + k - 1]
      <4> DEFINE lo == prev + 2
                 hi == Len(s.log)
                 lg == s.log
      <4>1. /\ lg \in Seq(logEntry) /\ lo \in Nat \ {0} /\ hi \in Nat
            /\ lo <= hi + 1 /\ hi <= Len(lg) /\ es = SubSeq(lg, lo, hi)
        BY <2>1, <3>1, <3>2
      <4> HIDE DEF lo, hi, lg, es
      <4>2. /\ es \in Seq(logEntry) /\ Len(es) = hi - lo + 1
            /\ \A k \in 1..(hi - lo + 1) : es[k] = lg[lo + k - 1]
        BY <4>1, Slice
      <4> QED
        BY <4>2 DEF lo, hi, lg
    <3> HIDE DEF es
    <3>4. ASSUME NEW k \in 1..Len(es)
          PROVE  es[k].Index = prev + k
      <4>0. k \in 1..(Len(s.log) - (prev + 2) + 1)
        BY <3>3
      <4>1. es[k] = s.log[(prev + 2) + k - 1]
        BY <3>3, <4>0
      <4>2. (prev + 2) + k - 1 \in 1..Len(s.log)
        BY <3>2, <4>0, <1>4
      <4>3. s.log[(prev + 2) + k - 1].Index = ((prev + 2) + k - 1) - 1
        BY <2>1, <4>2
      <4> QED
        BY <4>0, <4>1, <4>3, <1>4
    <3> QED
      BY <3>3, <3>4
  <2>3. CASE ~(getLastLogIndex(s) >= s.nextIndex[j])
    BY <2>3
  <2> QED
    BY <2>2, <2>3
<1> HIDE DEF pt, es
<1>7. MsgOK(a)
  BY <1>2, <1>4, <1>5, <1>6, AppendArgsOK
<1> HIDE DEF a
<1>8. TypeRest'
  BY <1>1, <1>3, <1>7 DEF TypeRest
<1> QED
  BY <1>1, <1>3, <1>8, TouchNone DEF TypeInv

(* Two objects that differ at most in log, saved state and the bookkeeping  *)
(* of replication.                                                          *)
SameRole(s, u) ==
  /\ u.currentTerm = s.currentTerm /\ u.votedFor = s.votedFor /\ u.vote = s.vote
  /\ u.state = s.state /\ u.convertState = s.convertState /\ u.service = s.service
  /\ u.mutex = s.mutex

(* Moving commitIndex, lastApplied, nextIndex or matchIndex.                *)
LEMMA IndexGood ==
  ASSUME NEW s, Good(s), NEW n \in Nat, NEW f \in [Server -> Nat], NEW g \in [Server -> Nat]
  PROVE  /\ Good([s EXCEPT !.commitIndex = n]) /\ SameRole(s, [s EXCEPT !.commitIndex = n])
         /\ Good([s EXCEPT !.lastApplied = n]) /\ SameRole(s, [s EXCEPT !.lastApplied = n])
         /\ Good([s EXCEPT !.nextIndex = f]) /\ SameRole(s, [s EXCEPT !.nextIndex = f])
         /\ Good([s EXCEPT !.nextIndex = f, !.matchIndex = g])
         /\ SameRole(s, [s EXCEPT !.nextIndex = f, !.matchIndex = g])
<1>1. Good([s EXCEPT !.commitIndex = n]) /\ SameRole(s, [s EXCEPT !.commitIndex = n])
  BY DEF Good, RaftObject, SameRole
<1>2. Good([s EXCEPT !.lastApplied = n]) /\ SameRole(s, [s EXCEPT !.lastApplied = n])
  BY DEF Good, RaftObject, SameRole
<1>3. Good([s EXCEPT !.nextIndex = f]) /\ SameRole(s, [s EXCEPT !.nextIndex = f])
  BY DEF Good, RaftObject, SameRole
<1>4. Good([s EXCEPT !.nextIndex = f, !.matchIndex = g])
  BY DEF Good, RaftObject
<1>5. SameRole(s, [s EXCEPT !.nextIndex = f, !.matchIndex = g])
  BY DEF Good, RaftObject, SameRole
<1> QED
  BY <1>1, <1>2, <1>3, <1>4, <1>5

(* Applying moves lastApplied, and delivers entries of the log.             *)
LEMMA ApplyGood ==
  ASSUME NEW s, Good(s)
  PROVE  /\ Good(applyLogToStateMachine(s)) /\ SameRole(s, applyLogToStateMachine(s))
         /\ toApply(s) \subseteq [term : Nat, entry : logEntry]
<1> DEFINE n == IF s.commitIndex > s.lastApplied THEN s.commitIndex ELSE s.lastApplied
<1>1. s.commitIndex \in Nat /\ s.lastApplied \in Nat /\ s.currentTerm \in Nat
  BY GoodFields
<1>2. n \in Nat
  BY <1>1
<1>3. applyLogToStateMachine(s) = [s EXCEPT !.lastApplied = n]
  BY DEF applyLogToStateMachine
<1> HIDE DEF n
<1>4. Good(applyLogToStateMachine(s)) /\ SameRole(s, applyLogToStateMachine(s))
  <2>1. [j \in Server |-> 0] \in [Server -> Nat]
    OBVIOUS
  <2>2. Good([s EXCEPT !.lastApplied = n]) /\ SameRole(s, [s EXCEPT !.lastApplied = n])
    BY <1>2, <2>1, IndexGood
  <2> QED
    BY <1>3, <2>2
<1>5. ASSUME NEW k \in (s.lastApplied + 1)..s.commitIndex
      PROVE  [term |-> s.currentTerm, entry |-> getLogEntry(s, k)]
                \in [term : Nat, entry : logEntry]
  <2>1. k \in Nat
    BY <1>1
  <2>2. getLogEntry(s, k) \in logEntry
    BY <2>1, EntryType
  <2> QED
    BY <1>1, <2>2
<1>6. toApply(s) \subseteq [term : Nat, entry : logEntry]
  BY <1>5 DEF toApply
<1> QED
  BY <1>4, <1>6

(* Following the leader's commit index.                                     *)
LEMMA AdvanceGood ==
  ASSUME NEW s, Good(s), NEW m, MsgOK(m), m.type = "AppendEntries"
  PROVE  Good(advanceCommit(s, m)) /\ SameRole(s, advanceCommit(s, m))
<1> DEFINE lastNew == IF m.Entries = <<>> THEN m.PrevLogIndex
                      ELSE m.Entries[Len(m.Entries)].Index
           n == IF m.LeaderCommit > lastNew THEN lastNew ELSE m.LeaderCommit
<1>1. /\ m.PrevLogIndex \in Nat /\ m.Entries \in Seq(logEntry) /\ m.LeaderCommit \in Nat
  BY AppendArgsFields
<1>2. lastNew \in Nat
  <2>1. CASE m.Entries = <<>>
    BY <1>1, <2>1
  <2>2. CASE m.Entries # <<>>
    <3>1. m.Entries[Len(m.Entries)] \in logEntry
      BY <1>1, <2>2
    <3> QED
      BY <2>2, <3>1 DEF logEntry
  <2> QED
    BY <2>1, <2>2
<1>3. n \in Nat
  BY <1>1, <1>2
<1>4. advanceCommit(s, m) = IF m.LeaderCommit <= s.commitIndex THEN s
                            ELSE [s EXCEPT !.commitIndex = n]
  BY DEF advanceCommit
<1> HIDE DEF n
<1>5. Good([s EXCEPT !.commitIndex = n]) /\ SameRole(s, [s EXCEPT !.commitIndex = n])
  <2>1. [j \in Server |-> 0] \in [Server -> Nat]
    OBVIOUS
  <2> QED
    BY <1>3, <2>1, IndexGood
<1>6. SameRole(s, s)
  BY DEF SameRole
<1> QED
  BY <1>4, <1>5, <1>6

(* Where a term begins in a log.                                            *)
LEMMA FirstTermNat ==
  ASSUME NEW s, Good(s), NEW t
  PROVE  getIndexOfLogEntryFirstTerm(s, t) \in Nat
<1> DEFINE found == {k \in 1..Len(s.log) : s.log[k].Term = t}
<1>1. s.log \in Seq(logEntry) /\ Len(s.log) \in Nat
  BY GoodFields
<1>2. getIndexOfLogEntryFirstTerm(s, t) = IF found = {} THEN 0 ELSE s.log[Min(found)].Index
  BY DEF getIndexOfLogEntryFirstTerm
<1>3. ASSUME found # {}
      PROVE  s.log[Min(found)].Index \in Nat
  <2>1. found \in SUBSET Nat
    BY <1>1
  <2> HIDE DEF found
  <2>2. Min(found) \in found
    BY <1>3, <2>1, MinNat
  <2>3. Min(found) \in 1..Len(s.log)
    BY <2>2 DEF found
  <2>4. s.log[Min(found)] \in logEntry
    BY <1>1, <2>3
  <2> QED
    BY <2>4 DEF logEntry
<1> QED
  BY <1>2, <1>3

(* The outcome of a matching AppendEntries before it is applied.            *)
Merged(t, m) == advanceCommit(persist(mergeEntries(t, m.Entries)), m)

(* Merging the entries of a message whose previous entry is in the log      *)
(* keeps the log indexed.                                                   *)
LEMMA MergedGood ==
  ASSUME NEW t, Good(t), NEW m, MsgOK(m), m.type = "AppendEntries", prevMatches(t, m)
  PROVE  Good(Merged(t, m)) /\ SameRole(t, Merged(t, m))
<1> DEFINE p == persist(mergeEntries(t, m.Entries))
<1>1. /\ m.PrevLogIndex \in Nat /\ m.Entries \in Seq(logEntry)
      /\ \A k \in 1..Len(m.Entries) : m.Entries[k].Index = m.PrevLogIndex + k
  BY AppendArgsFields
<1>2. m.PrevLogIndex < Len(t.log)
  BY <1>1, LogShape DEF prevMatches
<1>3. PICK l \in Seq(logEntry) :
          Indexed(l) /\ mergeEntries(t, m.Entries) = [t EXCEPT !.log = l]
  <2> DEFINE es == m.Entries
             pr == m.PrevLogIndex
  <2>1. /\ es \in Seq(logEntry) /\ pr \in Nat /\ pr < Len(t.log)
        /\ \A k \in 1..Len(es) : es[k].Index = pr + k
    BY <1>1, <1>2
  <2> HIDE DEF es, pr
  <2>2. \E l \in Seq(logEntry) : Indexed(l) /\ mergeEntries(t, es) = [t EXCEPT !.log = l]
    BY <2>1, MergeType
  <2> QED
    BY <2>2 DEF es
<1>4. Good(p) /\ SameRole(t, p)
  <2>1. /\ Good(persist([t EXCEPT !.log = l]))
        /\ SameRole(t, persist([t EXCEPT !.log = l]))
    BY <1>3, SaveLog DEF SameRole
  <2> QED
    BY <1>3, <2>1
<1>5. Merged(t, m) = advanceCommit(p, m)
  BY DEF Merged
<1> HIDE DEF p
<1>6. Good(advanceCommit(p, m)) /\ SameRole(p, advanceCommit(p, m))
  BY <1>4, AdvanceGood
<1> QED
  BY <1>4, <1>5, <1>6 DEF SameRole

(* The effect of AppendEntries: the peer steps down or not, its term and    *)
(* vote are those of checkCurrentTerm, and what it applies are log entries. *)
LEMMA AppendEntriesEffect ==
  ASSUME TypeInv, NEW i \in Server, NEW m \in msgs, AppendEntries(i, m)
  PROVE  LET s == Checked(i, m)
             t == followLeader(s)
         IN  /\ m.Term \in Nat /\ Good(s) /\ Fate(rf[i], s)
             /\ \E u : Good(u) /\ Update(i, u) /\ (SameRole(s, u) \/ SameRole(t, u))
             /\ applied' \subseteq applied \cup [term : Nat, entry : logEntry]
             /\ \A x \in msgs' : MsgOK(x)
             /\ \A x \in msgs' : x \in msgs \/ x.type = "AppendEntriesReply"
             /\ UNCHANGED <<restarts, votes, elected>>
<1> DEFINE s == Checked(i, m)
           t == followLeader(s)
           c == Merged(t, m)
           e == getLogEntry(t, m.PrevLogIndex)
           no == IF hasLogEntry(t, m.PrevLogIndex)
                 THEN appendReply(i, m, t.currentTerm, FALSE,
                                  getIndexOfLogEntryFirstTerm(t, e.Term), e.Term)
                 ELSE appendReply(i, m, t.currentTerm, FALSE, getLastLogIndex(t) + 1, -1)
           stale == appendReply(i, m, s.currentTerm, FALSE, 0, 0)
           yes == appendReply(i, m, t.currentTerm, TRUE, 0, 0)
<1>0. MsgOK(m) /\ TypeRf /\ TypeRest /\ m.type = "AppendEntries"
  BY DEF TypeInv, TypeRest, AppendEntries
<1>1. m.Term \in Nat /\ m.from \in Server \cup {Nil} /\ m.PrevLogIndex \in Nat
  BY <1>0, AppendArgsFields
<1>2. Good(s) /\ Fate(rf[i], s) /\ s.currentTerm \in Nat
  BY <1>0, <1>1, CheckedGood
<1>3. /\ \/ /\ Update(i, s) /\ Deliver(m, Reply(m, stale)) /\ UNCHANGED applied
         \/ /\ Update(i, t) /\ Deliver(m, Reply(m, no)) /\ UNCHANGED applied
         \/ /\ prevMatches(t, m)
            /\ \/ /\ Update(i, applyLogToStateMachine(c))
                  /\ applied' = applied \cup toApply(c)
               \/ Update(i, c) /\ UNCHANGED applied
            /\ Deliver(m, Reply(m, yes))
      /\ UNCHANGED <<restarts, votes, elected>>
  BY DEF AppendEntries, Checked, Merged
<1> HIDE DEF s
<1>4. Good(t) /\ t.currentTerm = s.currentTerm
  BY <1>2, Follow DEF Untouched
<1> HIDE DEF t
<1>5. SameRole(s, s) /\ SameRole(t, t)
  BY DEF SameRole
<1>6. m.from # Nil => MsgOK(stale) /\ MsgOK(yes) /\ MsgOK(no)
  <2>1. /\ e.Term \in Nat /\ getIndexOfLogEntryFirstTerm(t, e.Term) \in Nat
        /\ getLastLogIndex(t) + 1 \in Nat
    <3>1. e \in logEntry
      BY <1>1, <1>4, EntryType
    <3>2. e.Term \in Nat
      BY <3>1 DEF logEntry
    <3>3. getIndexOfLogEntryFirstTerm(t, e.Term) \in Nat
      BY <1>4, FirstTermNat
    <3>4. getLastLogIndex(t) + 1 \in Nat
      BY <1>4, LogShape
    <3> QED
      BY <3>2, <3>3, <3>4
  <2>2. t.currentTerm \in Nat
    BY <1>2, <1>4
  <2>3. m.from # Nil => MsgOK(stale)
    BY <1>0, <1>2, AppendReplyOK
  <2>4. m.from # Nil => MsgOK(yes)
    BY <1>0, <2>2, AppendReplyOK
  <2>5. m.from # Nil => MsgOK(no)
    <3> HIDE DEF e
    <3> DEFINE f == getIndexOfLogEntryFirstTerm(t, e.Term)
               et == e.Term
               n1 == getLastLogIndex(t) + 1
               mo == -1
    <3>1. f \in Nat /\ et \in Nat \cup {-1} /\ n1 \in Nat /\ mo \in Nat \cup {-1}
      BY <2>1
    <3>2. no = IF hasLogEntry(t, m.PrevLogIndex)
               THEN appendReply(i, m, t.currentTerm, FALSE, f, et)
               ELSE appendReply(i, m, t.currentTerm, FALSE, n1, mo)
      OBVIOUS
    <3> HIDE DEF f, et, n1, mo, no
    <3>3. m.from # Nil => /\ MsgOK(appendReply(i, m, t.currentTerm, FALSE, f, et))
                          /\ MsgOK(appendReply(i, m, t.currentTerm, FALSE, n1, mo))
      BY <1>0, <2>2, <3>1, AppendReplyOK
    <3> QED
      BY <3>2, <3>3
  <2> QED
    BY <2>3, <2>4, <2>5
<1>7. stale.type = "AppendEntriesReply" /\ yes.type = "AppendEntriesReply"
      /\ no.type = "AppendEntriesReply"
  BY DEF appendReply
<1> HIDE DEF stale, yes, no
<1>8. /\ \A x \in msgs' : MsgOK(x)
      /\ \A x \in msgs' : x \in msgs \/ x.type = "AppendEntriesReply"
  BY <1>0, <1>3, <1>6, <1>7 DEF Deliver, Reply, TypeRest
<1>9. /\ \E u : Good(u) /\ Update(i, u) /\ (SameRole(s, u) \/ SameRole(t, u))
      /\ applied' \subseteq applied \cup [term : Nat, entry : logEntry]
  <2>1. CASE Update(i, s) /\ UNCHANGED applied
    BY <1>2, <1>5, <2>1
  <2>2. CASE Update(i, t) /\ UNCHANGED applied
    BY <1>4, <1>5, <2>2
  <2>3. CASE /\ prevMatches(t, m)
             /\ \/ /\ Update(i, applyLogToStateMachine(c))
                   /\ applied' = applied \cup toApply(c)
                \/ Update(i, c) /\ UNCHANGED applied
    <3>1. Good(c) /\ SameRole(t, c)
      BY <1>0, <1>4, <2>3, MergedGood
    <3> HIDE DEF c
    <3>2. /\ Good(applyLogToStateMachine(c)) /\ SameRole(c, applyLogToStateMachine(c))
          /\ toApply(c) \subseteq [term : Nat, entry : logEntry]
      BY <3>1, ApplyGood
    <3>3. SameRole(t, applyLogToStateMachine(c))
      BY <3>1, <3>2 DEF SameRole
    <3> QED
      BY <2>3, <3>1, <3>2, <3>3
  <2> QED
    BY <1>3, <2>1, <2>2, <2>3
<1> QED
  BY <1>1, <1>2, <1>3, <1>8, <1>9 DEF s, t

(* Answering AppendEntries.                                                 *)
LEMMA AppendEntriesType ==
  ASSUME TypeInv, NEW i \in Server, NEW m \in msgs, AppendEntries(i, m)
  PROVE  TypeInv' /\ Fates
<1> DEFINE s == Checked(i, m)
           t == followLeader(s)
<1>1. TypeRf /\ TypeRest
  BY DEF TypeInv
<1>2. /\ Good(s) /\ Fate(rf[i], s)
      /\ \E u : Good(u) /\ Update(i, u) /\ (SameRole(s, u) \/ SameRole(t, u))
      /\ applied' \subseteq applied \cup [term : Nat, entry : logEntry]
      /\ \A x \in msgs' : MsgOK(x)
      /\ UNCHANGED <<restarts, votes, elected>>
  BY AppendEntriesEffect
<1> HIDE DEF s
<1>3. t.currentTerm = s.currentTerm /\ t.votedFor = s.votedFor
  BY <1>2, Follow DEF Untouched
<1> HIDE DEF t
<1>4. PICK u : /\ Good(u) /\ Update(i, u)
               /\ u.currentTerm = s.currentTerm /\ u.votedFor = s.votedFor
  BY <1>2, <1>3 DEF SameRole
<1>5. Fate(rf[i], u)
  BY <1>2, <1>4 DEF Fate
<1>6. TypeRest'
  BY <1>1, <1>2 DEF TypeRest
<1> QED
  BY <1>1, <1>4, <1>5, <1>6, Touch DEF TypeInv

(* Where a leader resumes after a rejection is an index.                    *)
LEMMA BackUpNat ==
  ASSUME NEW s, Good(s), NEW m, m.ConflictIndex \in Nat
  PROVE  backUp(s, m) \in Nat
<1> DEFINE last == getLastLogIndex(s)
           same == {n \in 1..last : getLogEntry(s, n).Term = m.ConflictTerm}
           after == {n \in 1..(last + 1) :
                       /\ n > Min(same)
                       /\ n = last + 1 \/ getLogEntry(s, n).Term # m.ConflictTerm}
<1>1. last \in Nat
  BY LogShape
<1>2. backUp(s, m) = IF m.ConflictTerm = -1 \/ same = {} THEN m.ConflictIndex ELSE Min(after)
  BY DEF backUp
<1>3. ASSUME same # {}
      PROVE  Min(after) \in Nat
  <2> HIDE DEF last
  <2>1. same \in SUBSET Nat
    BY <1>1
  <2> HIDE DEF same
  <2>2. Min(same) \in same
    BY <1>3, <2>1, MinNat
  <2>3. Min(same) \in 1..last
    BY <2>2 DEF same
  <2>4. last + 1 \in after /\ after \in SUBSET Nat
    BY <1>1, <2>3
  <2> HIDE DEF after
  <2> QED
    BY <2>4, MinNat
<1> QED
  BY <1>2, <1>3

(* Counting copies moves the commit index alone.                            *)
LEMMA LeaderCommitGood ==
  ASSUME NEW s, Good(s), NEW n \in Nat
  PROVE  Good(advanceLeaderCommit(s, n)) /\ SameRole(s, advanceLeaderCommit(s, n))
<1>1. Good([s EXCEPT !.commitIndex = n]) /\ SameRole(s, [s EXCEPT !.commitIndex = n])
  <2>1. [j \in Server |-> 0] \in [Server -> Nat]
    OBVIOUS
  <2> QED
    BY <2>1, IndexGood
<1>2. advanceLeaderCommit(s, n) \in {s, [s EXCEPT !.commitIndex = n]}
  BY DEF advanceLeaderCommit
<1>3. SameRole(s, s)
  BY DEF SameRole
<1> QED
  BY <1>1, <1>2, <1>3

(* The peer after checkCurrentTerm in the reply of an AppendEntries, which  *)
(* a reply of an older term does not reach.                                 *)
Heard(i, m) == IF m.argsTerm < rf[i].currentTerm THEN rf[i] ELSE Checked(i, m)

Progress(s, j, n) == [s EXCEPT !.nextIndex[j] = n + 1, !.matchIndex[j] = n]

(* The effect of a reply to AppendEntries: indices and deliveries only,     *)
(* once the term has been checked.                                          *)
LEMMA AppendReplyEffect ==
  ASSUME TypeInv, NEW i \in Server, NEW m \in msgs, AppendReply(i, m)
  PROVE  LET s == Heard(i, m)
         IN  /\ m.Term \in Nat /\ m.argsTerm \in Nat /\ Good(s) /\ Fate(rf[i], s)
             /\ \E u : Good(u) /\ Update(i, u) /\ SameRole(s, u)
             /\ applied' \subseteq applied \cup [term : Nat, entry : logEntry]
             /\ msgs' \subseteq msgs
             /\ UNCHANGED <<restarts, votes, elected>>
<1> DEFINE s == Heard(i, m)
           d == Progress(s, m.from, m.argsMatch)
           c == advanceLeaderCommit(d, m.argsMatch)
           b == [s EXCEPT !.nextIndex[m.from] = backUp(s, m)]
<1>0. MsgOK(m) /\ TypeRf /\ TypeRest /\ m.type = "AppendEntriesReply" /\ Good(rf[i])
  BY DEF TypeInv, TypeRf, TypeRest, AppendReply
<1>1. /\ m.from \in Server /\ m.Term \in Nat /\ m.argsTerm \in Nat /\ m.argsMatch \in Nat
      /\ m.ConflictIndex \in Nat
  BY <1>0, AppendReplyFields
<1>2. Good(s) /\ Fate(rf[i], s)
  <2>1. Good(Checked(i, m)) /\ Fate(rf[i], Checked(i, m))
    BY <1>0, <1>1, CheckedGood
  <2>2. Fate(rf[i], rf[i])
    <3>1. rf[i].currentTerm \in Nat
      BY <1>0, GoodFields
    <3> QED
      BY <3>1 DEF Fate
  <2> QED
    BY <1>0, <2>1, <2>2 DEF Heard
<1>3. /\ \/ Update(i, s) /\ UNCHANGED applied
         \/ Update(i, applyLogToStateMachine(c)) /\ applied' = applied \cup toApply(c)
         \/ Update(i, c) /\ UNCHANGED applied
         \/ Update(i, b) /\ UNCHANGED applied
      /\ Deliver(m, {})
      /\ UNCHANGED <<restarts, votes, elected>>
  BY DEF AppendReply, Heard, Checked, Progress
<1>4. msgs' \subseteq msgs
  BY <1>3 DEF Deliver
<1> HIDE DEF s
<1>5. s.nextIndex \in [Server -> Nat] /\ s.matchIndex \in [Server -> Nat]
  BY <1>2, GoodFields
<1>6. Good(d) /\ SameRole(s, d)
  <2> DEFINE f == [s.nextIndex EXCEPT ![m.from] = m.argsMatch + 1]
             g == [s.matchIndex EXCEPT ![m.from] = m.argsMatch]
  <2>1. f \in [Server -> Nat] /\ g \in [Server -> Nat]
    BY <1>1, <1>5
  <2>2. d = [s EXCEPT !.nextIndex = f, !.matchIndex = g]
    BY DEF Progress
  <2> HIDE DEF f, g
  <2>3. /\ Good([s EXCEPT !.nextIndex = f, !.matchIndex = g])
        /\ SameRole(s, [s EXCEPT !.nextIndex = f, !.matchIndex = g])
    BY <1>2, <2>1, IndexGood
  <2> QED
    BY <2>2, <2>3
<1>7. Good(b) /\ SameRole(s, b)
  <2> DEFINE n == backUp(s, m)
             f == [s.nextIndex EXCEPT ![m.from] = n]
  <2>1. n \in Nat
    BY <1>1, <1>2, BackUpNat
  <2>2. b = [s EXCEPT !.nextIndex = f]
    OBVIOUS
  <2> HIDE DEF n
  <2>3. f \in [Server -> Nat]
    BY <1>5, <2>1
  <2> HIDE DEF f
  <2>4. Good([s EXCEPT !.nextIndex = f]) /\ SameRole(s, [s EXCEPT !.nextIndex = f])
    BY <1>2, <2>3, IndexGood
  <2> QED
    BY <2>2, <2>4
<1> HIDE DEF d, b
<1>8. Good(c) /\ SameRole(d, c)
  BY <1>1, <1>6, LeaderCommitGood
<1> HIDE DEF c
<1>9. /\ Good(applyLogToStateMachine(c)) /\ SameRole(c, applyLogToStateMachine(c))
      /\ toApply(c) \subseteq [term : Nat, entry : logEntry]
  BY <1>8, ApplyGood
<1>10. SameRole(s, applyLogToStateMachine(c)) /\ SameRole(s, c) /\ SameRole(s, s)
  BY <1>6, <1>8, <1>9 DEF SameRole
<1>11. /\ \E u : Good(u) /\ Update(i, u) /\ SameRole(s, u)
       /\ applied' \subseteq applied \cup [term : Nat, entry : logEntry]
  BY <1>2, <1>3, <1>7, <1>8, <1>9, <1>10
<1> QED
  BY <1>1, <1>2, <1>3, <1>4, <1>11 DEF s

(* A reply to AppendEntries.                                                *)
LEMMA AppendReplyType ==
  ASSUME TypeInv, NEW i \in Server, NEW m \in msgs, AppendReply(i, m)
  PROVE  TypeInv' /\ Fates
<1> DEFINE s == Heard(i, m)
<1>1. TypeRf /\ TypeRest
  BY DEF TypeInv
<1>2. /\ Good(s) /\ Fate(rf[i], s)
      /\ \E u : Good(u) /\ Update(i, u) /\ SameRole(s, u)
      /\ applied' \subseteq applied \cup [term : Nat, entry : logEntry]
      /\ msgs' \subseteq msgs
      /\ UNCHANGED <<restarts, votes, elected>>
  BY AppendReplyEffect
<1> HIDE DEF s
<1>3. PICK u : Good(u) /\ Update(i, u) /\ SameRole(s, u)
  BY <1>2
<1>4. Fate(rf[i], u)
  BY <1>2, <1>3 DEF Fate, SameRole
<1>5. TypeRest'
  BY <1>1, <1>2 DEF TypeRest
<1> QED
  BY <1>1, <1>3, <1>4, <1>5, Touch DEF TypeInv

(* What is on disk after a crash: the saved state, or the one a handler     *)
(* saved last; it is a good object's, with a lawful fate.                   *)
LEMMA RestartEffect ==
  ASSUME TypeInv, NEW i \in Server, Restart(i)
  PROVE  \E u : /\ Good(u) /\ Update(i, u) /\ Fate(rf[i], u)
                /\ u.state = "follower" /\ u.convertState = Nil /\ u.service = "asFollower"
                /\ u.vote = [term |-> 0, voteRecord |-> {}] /\ u.mutex = Nil
<1>0. TypeRf /\ TypeRest /\ Good(rf[i])
  BY DEF TypeInv, TypeRf
<1>1. PICK saved \in CrashStates(i) : Update(i, readPersist(saved))
  BY DEF Restart
<1>2. \E w : Good(w) /\ Fate(rf[i], w) /\ saved = w.raftstate
  <2>1. CASE saved = rf[i].raftstate
    <3>1. rf[i].currentTerm \in Nat
      BY <1>0, GoodFields
    <3>2. Fate(rf[i], rf[i])
      BY <3>1 DEF Fate
    <3> QED
      BY <1>0, <2>1, <3>2
  <2>2. CASE \E m \in msgs : saved = Checked(i, m).raftstate
    <3>1. PICK m \in msgs : saved = Checked(i, m).raftstate
      BY <2>2
    <3>2. m.Term \in Nat
      <4>1. MsgOK(m)
        BY <1>0 DEF TypeRest
      <4> QED
        BY <4>1 DEF MsgOK, Message, RequestVoteArgs, RequestVoteReply, AppendEntriesArgs,
                    AppendEntriesReply
    <3> QED
      BY <1>0, <3>1, <3>2, CheckedGood
  <2> QED
    BY <2>1, <2>2 DEF CrashStates, Checked
<1>3. PICK w : Good(w) /\ Fate(rf[i], w) /\ saved = w.raftstate
  BY <1>2
<1>4. /\ saved = [currentTerm |-> w.currentTerm, votedFor |-> w.votedFor, log |-> w.log]
      /\ Indexed(w.log) /\ saved \in RaftState
      /\ w.currentTerm \in Nat /\ w.votedFor \in Server \cup {Nil} /\ w.log \in Seq(logEntry)
  BY <1>3, GoodFields DEF Good
<1> DEFINE u == readPersist(saved)
<1>5. /\ u.currentTerm = w.currentTerm /\ u.votedFor = w.votedFor /\ u.log = w.log
      /\ u.state = "follower" /\ u.convertState = Nil /\ u.service = "asFollower"
      /\ u.vote = [term |-> 0, voteRecord |-> {}] /\ u.mutex = Nil /\ u.raftstate = saved
  BY <1>4 DEF readPersist
<1>6. Good(u)
  <2>1. u \in RaftObject
    BY <1>4 DEF readPersist, RaftObject
  <2> HIDE DEF u
  <2> QED
    BY <1>4, <1>5, <2>1 DEF Good
<1>7. Fate(rf[i], u)
  BY <1>3, <1>5 DEF Fate
<1> HIDE DEF u
<1> QED
  BY <1>1, <1>5, <1>6, <1>7 DEF u

(* A request that outlives its caller.                                      *)
Orphan(m) == [m EXCEPT !.from = Nil]

(* Nothing but the caller's identity changes.                               *)
LEMMA OrphanOK ==
  ASSUME NEW m, MsgOK(m), isRequest(m)
  PROVE  MsgOK(Orphan(m)) /\ Orphan(m).type = m.type /\ Orphan(m).from = Nil
<1>1. CASE m.type = "RequestVote"
  <2>1. m \in RequestVoteArgs
    BY <1>1 DEF MsgOK, Message, RequestVoteArgs, RequestVoteReply, AppendEntriesArgs,
                AppendEntriesReply
  <2>2. Orphan(m) \in RequestVoteArgs /\ Orphan(m).type = m.type /\ Orphan(m).from = Nil
    BY <2>1 DEF Orphan, RequestVoteArgs
  <2> QED
    BY <1>1, <2>2 DEF MsgOK, Message
<1>2. CASE m.type = "AppendEntries"
  <2>1. m \in AppendEntriesArgs
    BY <1>2 DEF MsgOK, Message, RequestVoteArgs, RequestVoteReply, AppendEntriesArgs,
                AppendEntriesReply
  <2>2. /\ Orphan(m) \in AppendEntriesArgs /\ Orphan(m).type = m.type /\ Orphan(m).from = Nil
        /\ Orphan(m).Entries = m.Entries /\ Orphan(m).PrevLogIndex = m.PrevLogIndex
    BY <2>1 DEF Orphan, AppendEntriesArgs
  <2> QED
    BY <1>2, <2>2 DEF MsgOK, Message
<1>3. m.type # "InstallSnapshot"
  BY DEF MsgOK, Message, RequestVoteArgs, RequestVoteReply, AppendEntriesArgs,
         AppendEntriesReply
<1> QED
  BY <1>1, <1>2, <1>3 DEF isRequest

(* What is in flight after a crash of i.                                    *)
LEMMA RestartMsgs ==
  ASSUME NEW i \in Server, Restart(i)
  PROVE  \A x \in msgs' :
            \/ x \in msgs /\ (x.to = i => isRequest(x)) /\ ~(x.from = i /\ isRequest(x))
            \/ \E m \in msgs : isRequest(m) /\ x = Orphan(m)
  BY DEF Restart, isRequest, Orphan

(* A crash and restart.                                                     *)
LEMMA RestartType ==
  ASSUME TypeInv, NEW i \in Server, Restart(i)
  PROVE  TypeInv' /\ Fates
<1>1. TypeRf /\ TypeRest
  BY DEF TypeInv
<1>2. PICK u : Good(u) /\ Update(i, u) /\ Fate(rf[i], u)
  BY RestartEffect
<1>3. \A x \in msgs' : MsgOK(x)
  BY <1>1, RestartMsgs, OrphanOK DEF TypeRest
<1>4. restarts' = restarts + 1 /\ UNCHANGED <<votes, elected, applied>>
  BY DEF Restart
<1>5. TypeRest'
  BY <1>1, <1>3, <1>4 DEF TypeRest
<1> QED
  BY <1>1, <1>2, <1>5, Touch DEF TypeInv

(* Initially every peer is as Make leaves it.                               *)
LEMMA InitType ==
  ASSUME Init
  PROVE  TypeInv
<1> DEFINE l == <<zeroEntry>>
           d == [currentTerm |-> 0, votedFor |-> Nil, log |-> l]
<1>1. zeroEntry \in logEntry
  BY DEF zeroEntry, logEntry
<1>2. l \in Seq(logEntry) /\ Len(l) = 1 /\ l[1] = zeroEntry
  BY <1>1
<1>3. Indexed(l)
  BY <1>2 DEF Indexed, zeroEntry
<1> HIDE DEF l
<1>4. d \in RaftState
  BY <1>2 DEF RaftState
<1>5. Make = readPersist(d)
  BY DEF Make, l
<1>6. Make \in RaftObject
  BY <1>2, <1>4, <1>5 DEF readPersist, RaftObject
<1>7. Good(Make)
  BY <1>3, <1>5, <1>6 DEF readPersist, Good
<1>8. TypeRf
  BY <1>7 DEF Init, TypeRf
<1>9. TypeRest
  BY DEF Init, TypeRest
<1> QED
  BY <1>8, <1>9 DEF TypeInv

(* Every step keeps the invariant, and every peer's fate is lawful.         *)
LEMMA NextType ==
  ASSUME TypeInv, [Next]_vars
  PROVE  TypeInv' /\ Fates
<1>1. CASE UNCHANGED vars
  <2>1. TypeRf /\ TypeRest /\ rf' = rf
    BY <1>1 DEF TypeInv, vars
  <2>2. TypeRest'
    BY <1>1, <2>1 DEF vars, TypeRest
  <2> QED
    BY <2>1, <2>2, TouchNone DEF TypeInv
<1>2. CASE Next
  <2> SUFFICES ASSUME NEW i \in Server,
                      \/ ServiceSteps(i) \/ FollowerTimeout(i) \/ CandidateTimeout(i)
                      \/ \E m \in msgs : Receive(i, m) \/ Lose(m)
                      \/ VoteReplacesToken(i)
                      \/ Ticks(i)
                      \/ \E command \in Command : Start(i, command)
                      \/ Restart(i)
               PROVE  TypeInv' /\ Fates
    BY <1>2 DEF Next
  <2>1. CASE ServiceSteps(i) \/ FollowerTimeout(i) \/ CandidateTimeout(i)
    BY <2>1, ServiceStepType, RunAsLeaderType, StartElectionType DEF ServiceSteps
  <2>2. CASE \E m \in msgs : Receive(i, m) \/ Lose(m)
    BY <2>2, RequestVoteType, AppendEntriesType, VoteReplyType, AppendReplyType, LoseType
       DEF Receive
  <2>3. CASE VoteReplacesToken(i)
    BY <2>3, VoteReplacesTokenType
  <2>4. CASE Ticks(i)
    BY <2>4, SendType DEF Ticks
  <2>5. CASE \E command \in Command : Start(i, command)
    BY <2>5, StartType
  <2>6. CASE Restart(i)
    BY <2>6, RestartType
  <2> QED
    BY <2>1, <2>2, <2>3, <2>4, <2>5, <2>6
<1> QED
  BY <1>1, <1>2

(* The invariant gives the types, and logs that are never empty.            *)
LEMMA TypeInvOK ==
  ASSUME TypeInv
  PROVE  TypeOK
<1>1. \A i \in Server : rf[i] \in RaftObject /\ rf[i].log # <<>> /\ rf[i].raftstate.log # <<>>
  <2> TAKE i \in Server
  <2>1. Good(rf[i])
    BY DEF TypeInv, TypeRf
  <2>2. rf[i].log \in Seq(logEntry) /\ Len(rf[i].log) >= 1 /\ rf[i].raftstate.log = rf[i].log
    BY <2>1, GoodFields DEF Good, Indexed
  <2>3. rf[i].log # <<>>
    BY <2>2
  <2> QED
    BY <2>1, <2>2, <2>3 DEF Good
<1>2. rf \in [Server -> RaftObject]
  BY <1>1 DEF TypeInv, TypeRf
<1>3. msgs \subseteq Message
  BY DEF TypeInv, TypeRest, MsgOK
<1> QED
  BY <1>1, <1>2, <1>3 DEF TypeInv, TypeRest, TypeOK

(* Every Raft object and every message keeps its type, no log is ever       *)
(* empty, in memory or on disk, and every log entry carries its own index:  *)
(* for any number of peers, terms, entries, crashes and messages.           *)
THEOREM TypeCorrect == Spec => [](TypeInv /\ TypeOK)
<1>1. Init => TypeInv
  BY InitType
<1>2. TypeInv /\ [Next]_vars => TypeInv'
  BY NextType
<1>3. TypeInv => TypeOK
  BY TypeInvOK
<1> QED
  BY <1>1, <1>2, <1>3, PTL DEF Spec

(* A peer's term never goes back and its vote in a term never changes, a    *)
(* crash in the middle of a handler included.                               *)
THEOREM VotesFinal == Spec => VotesAreFinal
<1>1. ASSUME TypeInv, [Next]_vars
      PROVE  [\A i \in Server :
                /\ rf'[i].currentTerm >= rf[i].currentTerm
                /\ \/ rf'[i].currentTerm > rf[i].currentTerm
                   \/ rf[i].votedFor \in {Nil, rf'[i].votedFor}]_rf
  BY <1>1, NextType DEF Fates, Fate
<1> QED
  BY <1>1, TypeCorrect, PTL DEF Spec, VotesAreFinal

=============================================================================
