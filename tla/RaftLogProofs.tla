---------------------------- MODULE RaftLogProofs ---------------------------
(***************************************************************************)
(* Why logs match.  With a prompt service goroutine a term has one leader,  *)
(* so there is one history of its log: L[t] is the log that the leader of   *)
(* term t had when it last led, empty if nobody has won t.  L is no         *)
(* variable of the model: the inductive invariant says that some L exists,  *)
(* and every step that elects a leader or lets one append extends it.  All  *)
(* that is in a log or in flight is a copy of some L[t] up to some index.   *)
(***************************************************************************)
EXTENDS RaftElectionProofs

(* The first n entries of two logs are the same.                            *)
Agree(a, b, n) == n <= Len(a) /\ n <= Len(b) /\ \A p \in 1..n : a[p] = b[p]

(* Every entry of l is what the leader of its term had there, and so is     *)
(* everything before it.                                                    *)
Copied(L, l) == \A p \in 1..Len(l) : Agree(l, L[l[p].Term], p)

(* Terms do not decrease along a log.                                       *)
Ordered(l) == \A p, q \in 1..Len(l) : p <= q => l[p].Term <= l[q].Term

-----------------------------------------------------------------------------
(* Agreement of logs.                                                       *)
LEMMA AgreeFacts ==
  ASSUME NEW a \in Seq(logEntry), NEW b \in Seq(logEntry), NEW c \in Seq(logEntry),
         NEW n \in Nat, NEW k \in Nat, k <= n, Agree(a, b, n)
  PROVE  /\ Agree(b, a, n) /\ Agree(a, b, k)
         /\ Agree(b, c, k) => Agree(a, c, k)
         /\ Agree(a, c, k) => Agree(b, c, k)
  BY DEF Agree

(* What agrees with the beginning of b agrees with what extends b.          *)
LEMMA AgreeChain ==
  ASSUME NEW a \in Seq(logEntry), NEW b \in Seq(logEntry), NEW c \in Seq(logEntry),
         NEW n \in Nat, Agree(a, b, n), Agree(b, c, Len(b))
  PROVE  Agree(a, c, n)
  BY DEF Agree

(* Logs that agree up to an index have the same beginning.                  *)
LEMMA AgreeSub ==
  ASSUME NEW a \in Seq(logEntry), NEW b \in Seq(logEntry), NEW n \in Nat, Agree(a, b, n)
  PROVE  SubSeq(a, 1, n) = SubSeq(b, 1, n)
  BY DEF Agree

(* A sequence that has the entries of the beginning of b is that beginning. *)
LEMMA IsPrefixOf ==
  ASSUME NEW a \in Seq(logEntry), NEW b \in Seq(logEntry), NEW n \in Nat,
         Agree(a, b, n), Len(a) = n
  PROVE  a = SubSeq(b, 1, n)
  BY DEF Agree

(* The two loops of AppendEntries, when the log agrees with a leader's log  *)
(* K up to the previous entry and the entries received are those of K that  *)
(* follow it: the outcome is the log as it was, if it already agrees with   *)
(* K up to the last entry received, or else the beginning of K up to that   *)
(* entry.  No agreement with K is lost.                                     *)
LEMMA MergeCopies ==
  ASSUME NEW s, Good(s), NEW K \in Seq(logEntry), NEW prev \in Nat,
         NEW entries \in Seq(logEntry), prev + 1 + Len(entries) <= Len(K),
         \A k \in 1..Len(entries) : entries[k] = K[prev + 1 + k],
         \A k \in 1..Len(entries) : entries[k].Index = prev + k,
         Agree(s.log, K, prev + 1),
         \A p \in 1..Len(s.log) :
            p <= Len(K) /\ s.log[p].Term = K[p].Term => Agree(s.log, K, p)
  PROVE  \E l \in Seq(logEntry) :
            /\ mergeEntries(s, entries) = [s EXCEPT !.log = l]
            /\ \/ l = s.log
               \/ l = SubSeq(K, 1, prev + 1 + Len(entries))
            /\ Agree(l, K, prev + 1 + Len(entries))
            /\ \A n \in Nat : Agree(s.log, K, n) => Agree(l, K, n)
<1> DEFINE C == {e \in {entries[k] : k \in 1..Len(entries)} :
                    /\ hasLogEntry(s, e.Index)
                    /\ getLogEntry(s, e.Index).Term # e.Term}
           D == {e.Index : e \in C}
           cut == IF C = {} THEN s ELSE deleteEntryFrom(s, Min(D))
           new == {k \in 1..Len(entries) : entries[k].Index > getLastLogIndex(cut)}
           q == prev + 1 + Len(entries)
<1>0. /\ s \in RaftObject /\ s.log \in Seq(logEntry) /\ Len(s.log) \in Nat \ {0}
      /\ \A k \in 1..Len(s.log) : s.log[k].Index = k - 1
      /\ s.log[1].Index = 0 /\ getLastLogIndex(s) = Len(s.log) - 1
      /\ \A n \in Nat : hasLogEntry(s, n) <=> n < Len(s.log)
      /\ \A n \in Nat : getLogEntry(s, n) = IF n < Len(s.log) THEN s.log[n + 1] ELSE zeroEntry
  BY LogShape, GoodFields DEF Good, Indexed
<1>0a. /\ Len(s.log) \in Nat \ {0} /\ Len(entries) \in Nat /\ Len(K) \in Nat
       /\ prev + 1 <= Len(s.log) /\ prev + 1 <= q /\ q <= Len(K) /\ q \in Nat
  BY <1>0 DEF Agree
<1>1. \A k \in 1..Len(entries) :
          entries[k] \in C <=> prev + k < Len(s.log) /\ s.log[prev + k + 1].Term # K[prev + 1 + k].Term
  <2> TAKE k \in 1..Len(entries)
  <2>1. /\ entries[k].Index = prev + k /\ prev + k \in Nat
        /\ entries[k].Term = K[prev + 1 + k].Term
    OBVIOUS
  <2> QED
    BY <1>0, <2>1
<1>2. \E l \in Seq(logEntry) :
          /\ cut = [s EXCEPT !.log = l] /\ prev + 1 <= Len(l)
          /\ \A k \in 1..Len(l) : l[k].Index = k - 1
          /\ \/ l = s.log /\ Agree(l, K, IF Len(l) <= q THEN Len(l) ELSE q)
             \/ /\ Len(l) < q /\ Agree(l, K, Len(l))
                /\ \A n \in Nat : Agree(s.log, K, n) => n <= Len(l)
  <2>1. CASE C = {}
    <3>1. s = [s EXCEPT !.log = s.log]
      BY <1>0 DEF RaftObject
    <3>2. cut = [s EXCEPT !.log = s.log]
      BY <2>1, <3>1
    <3> DEFINE r == IF Len(s.log) <= q THEN Len(s.log) ELSE q
    <3>3. Agree(s.log, K, r)
      <4>1. r \in Nat /\ prev + 1 <= r /\ r <= Len(s.log) /\ r <= prev + 1 + Len(entries)
        BY <1>0a
      <4> HIDE DEF r
      <4>2. CASE r = prev + 1
        BY <4>2
      <4>3. CASE r # prev + 1
        <5> DEFINE k == r - prev - 1
        <5>1. k \in 1..Len(entries) /\ prev + k < Len(s.log) /\ prev + 1 + k = r /\ prev + k + 1 = r
          BY <1>0a, <4>1, <4>3
        <5> HIDE DEF k
        <5>2. s.log[r].Term = K[r].Term
          BY <1>1, <2>1, <5>1
        <5>3. r \in 1..Len(s.log) /\ r <= Len(K)
          BY <1>0a, <4>1
        <5> QED
          BY <5>2, <5>3
      <4> QED
        BY <4>2, <4>3
    <3> HIDE DEF cut
    <3> QED
      BY <1>0, <1>0a, <3>2, <3>3
  <2>2. CASE C # {}
    <3>1. \A d \in D : \E k \in 1..Len(entries) :
            d = prev + k /\ d < Len(s.log) /\ s.log[d + 1].Term # K[d + 1].Term
      <4> SUFFICES ASSUME NEW e \in C
                   PROVE  \E k \in 1..Len(entries) :
                            /\ e.Index = prev + k /\ e.Index < Len(s.log)
                            /\ s.log[e.Index + 1].Term # K[e.Index + 1].Term
        BY ZenonT(60)
      <4>1. PICK k \in 1..Len(entries) : e = entries[k]
        OBVIOUS
      <4>2. e.Index = prev + k /\ prev + k + 1 = prev + 1 + k
        BY <4>1
      <4>3. prev + k < Len(s.log) /\ s.log[prev + k + 1].Term # K[prev + k + 1].Term
        BY <1>1, <4>1, <4>2
      <4> QED
        BY <4>2, <4>3
    <3> DEFINE n == Min(D)
    <3>2. D \in SUBSET Nat /\ D # {}
      BY SMTT(30), <2>2, <3>1
    <3>3. n \in D /\ \A d \in D : n <= d
      BY <3>2, MinNat
    <3>4. /\ n \in Nat /\ n > prev /\ n < Len(s.log) /\ n <= prev + Len(entries)
          /\ s.log[n + 1].Term # K[n + 1].Term
      <4>1. PICK k \in 1..Len(entries) :
                n = prev + k /\ n < Len(s.log) /\ s.log[n + 1].Term # K[n + 1].Term
        BY <3>1, <3>3
      <4> HIDE DEF n
      <4>2. n \in Nat /\ n > prev /\ n <= prev + Len(entries)
        BY <1>0a, <4>1
      <4> QED
        BY <4>1, <4>2
    <3>5. cut = deleteEntryFrom(s, n)
      BY <2>2
    <3>5a. \A k \in 1..Len(entries) : entries[k] \in C => n <= prev + k
      <4> TAKE k \in 1..Len(entries)
      <4>1. entries[k] \in C => entries[k].Index \in D
        OBVIOUS
      <4> HIDE DEF D, n, C
      <4> QED
        BY <3>3, <4>1
    <3> HIDE DEF n, cut, C, D
    <3>6. cut = [s EXCEPT !.log = SubSeq(s.log, 1, n)]
      <4>1. ~(getLastLogIndex(s) < n) /\ n - s.log[1].Index = n
        BY <1>0, <3>4
      <4> QED
        BY <3>5, <4>1 DEF deleteEntryFrom
    <3> DEFINE l == SubSeq(s.log, 1, n)
    <3>7. /\ l \in Seq(logEntry) /\ Len(l) = n
          /\ \A k \in 1..n : l[k] = s.log[k]
      BY <1>0, <3>4, Slice
    <3>8. Agree(s.log, K, n)
      <4>1. CASE n = prev + 1
        BY <4>1
      <4>2. CASE n # prev + 1
        <5> DEFINE k == n - prev - 1
        <5>1. k \in 1..Len(entries) /\ prev + k < Len(s.log) /\ prev + 1 + k = n /\ prev + k + 1 = n
          BY <1>0, <3>4, <4>2
        <5> HIDE DEF k
        <5>2. ~(n <= prev + k)
          BY <5>1, <3>4
        <5>3. s.log[n].Term = K[n].Term
          BY <1>1, <3>5a, <5>1, <5>2
        <5>4. n \in 1..Len(s.log) /\ n <= Len(K)
          BY SMTT(30), <1>0, <3>4
        <5> QED
          BY <5>3, <5>4
      <4> QED
        BY <4>1, <4>2
    <3>9. Agree(l, K, Len(l))
      BY <1>0, <3>7, <3>8 DEF Agree
    <3>10. ASSUME NEW d \in Nat, Agree(s.log, K, d)
           PROVE  d <= n
      <4>1. CASE d > n
        <5>1. n + 1 \in 1..d
          BY <3>4, <4>1
        <5>2. s.log[n + 1] = K[n + 1]
          BY <3>10, <5>1 DEF Agree
        <5> QED
          BY <3>4, <5>2
      <4> QED
        BY <4>1, <3>4
    <3>11. \A k \in 1..Len(l) : l[k].Index = k - 1
      BY <1>0, <3>4, <3>7
    <3>12. cut = [s EXCEPT !.log = l] /\ prev + 1 <= Len(l) /\ Len(l) < q
      BY <3>4, <3>6, <3>7
    <3> HIDE DEF l
    <3> QED
      BY <3>7, <3>9, <3>10, <3>11, <3>12
  <2> QED
    BY <2>1, <2>2
<1>3. mergeEntries(s, entries) =
        IF new = {} THEN cut
        ELSE [cut EXCEPT !.log = @ \o SubSeq(entries, Min(new), Len(entries))]
  BY DEF mergeEntries
<1> HIDE DEF cut, C, D
<1>4. PICK l \in Seq(logEntry) :
          /\ cut = [s EXCEPT !.log = l] /\ prev + 1 <= Len(l)
          /\ \A k \in 1..Len(l) : l[k].Index = k - 1
          /\ \/ l = s.log /\ Agree(l, K, IF Len(l) <= q THEN Len(l) ELSE q)
             \/ /\ Len(l) < q /\ Agree(l, K, Len(l))
                /\ \A n \in Nat : Agree(s.log, K, n) => n <= Len(l)
  BY <1>2
<1>4a. /\ cut = [s EXCEPT !.log = l] /\ prev + 1 <= Len(l)
       /\ \A k \in 1..Len(l) : l[k].Index = k - 1
       /\ s \in RaftObject
  BY <1>0, <1>4
<1>5. cut.log = l /\ getLastLogIndex(cut) = Len(l) - 1 /\ Len(l) \in Nat \ {0}
  <2>1. cut.log = l
    BY <1>4a, ReplaceLog
  <2>2. Len(l) \in Nat \ {0}
    BY <1>4a
  <2>3. l[Len(l)].Index = Len(l) - 1
    <3>1. Len(l) \in 1..Len(l)
      BY <2>2
    <3> QED
      BY <1>4a, <3>1
  <2> QED
    BY <2>1, <2>2, <2>3 DEF getLastLogIndex
<1>6. \A k \in 1..Len(entries) : k \in new <=> prev + k > Len(l) - 1
  BY <1>5
<1>7. CASE new = {}
  <2>1. mergeEntries(s, entries) = [s EXCEPT !.log = l]
    BY <1>3, <1>4a, <1>7
  <2>2. q <= Len(l)
    <3>1. CASE Len(entries) = 0
      BY <3>1, <1>4a
    <3>2. CASE Len(entries) # 0
      <4>1. Len(entries) \in 1..Len(entries)
        BY <1>0, <3>2
      <4>2. ~(prev + Len(entries) > Len(l) - 1)
        BY <1>6, <1>7, <4>1
      <4> QED
        BY <4>2, <1>0, <1>5
    <3> QED
      BY <3>1, <3>2
  <2>3. l = s.log /\ Agree(l, K, q)
    <3>1. ~(Len(l) < q) /\ (IF Len(l) <= q THEN Len(l) ELSE q) = q
      BY <2>2, <1>0, <1>5
    <3> QED
      BY <3>1, <1>4
  <2> QED
    BY <2>1, <2>3
<1>8. CASE new # {}
  <2> DEFINE j == Min(new)
             tail == SubSeq(entries, j, Len(entries))
             r == l \o tail
  <2>1. new \in SUBSET Nat /\ Len(entries) \in Nat
    OBVIOUS
  <2>2. j \in new /\ \A k \in new : j <= k
    BY <1>8, <2>1, MinNat
  <2> HIDE DEF new, j
  <2>4. j \in 1..Len(entries) /\ prev + j > Len(l) - 1
    BY <2>2, <1>6 DEF new
  <2>5. j = Len(l) - prev
    <3>1. Len(l) - prev \in 1..Len(entries)
      BY <2>1, <2>4, <1>4a, <1>5
    <3>2. Len(l) - prev \in new
      BY <1>6, <3>1, <1>5
    <3>3. j <= Len(l) - prev
      BY <2>2, <3>2
    <3>4. j \in Int /\ Len(l) \in Int
      BY <2>4, <1>5
    <3> QED
      BY <3>3, <3>4, <2>4
  <2>6. /\ tail \in Seq(logEntry) /\ Len(tail) = Len(entries) - j + 1
        /\ \A k \in 1..Len(tail) : tail[k] = entries[j + k - 1]
    BY <2>1, <2>4, Slice
  <2>7. mergeEntries(s, entries) = [s EXCEPT !.log = r]
    <3>1. mergeEntries(s, entries) = [cut EXCEPT !.log = cut.log \o tail]
      BY <1>3, <1>8 DEF j
    <3> HIDE DEF tail
    <3> QED
      BY <3>1, <1>4a, <1>5, ReplaceLogTwice
  <2> HIDE DEF tail
  <2>8. /\ r \in Seq(logEntry) /\ Len(r) = Len(l) + Len(tail)
        /\ \A k \in 1..Len(l) : r[k] = l[k]
        /\ \A k \in 1..Len(tail) : r[Len(l) + k] = tail[k]
    <3>1. tail \in Seq(logEntry)
      BY <2>6
    <3> QED
      BY <3>1, Concat
  <2> HIDE DEF r
  <2>9. Len(r) = q /\ Len(l) < q /\ q \in Nat
    BY <2>8, <2>6, <2>5, <2>4, <2>1, <1>5
  <2>10. Agree(l, K, Len(l))
    <3>1. Len(l) <= q
      BY <2>9, <1>5
    <3> QED
      BY <3>1, <1>4
  <2>11. ASSUME NEW k \in 1..q
         PROVE  r[k] = K[k]
    <3>1. CASE k <= Len(l)
      BY <3>1, <2>8, <2>10, <1>5 DEF Agree
    <3>2. CASE k > Len(l)
      <4> DEFINE d == k - Len(l)
      <4>1. d \in 1..Len(tail) /\ k = Len(l) + d
        BY <3>2, <2>8, <2>9, <2>6, <2>4, <2>1, <1>5
      <4>2. r[k] = entries[j + d - 1]
        BY <4>1, <2>8, <2>6
      <4>3. j + d - 1 \in 1..Len(entries) /\ prev + 1 + (j + d - 1) = k
        BY <4>1, <2>6, <2>5, <2>4, <2>1, <1>5
      <4> HIDE DEF d
      <4> QED
        BY <4>2, <4>3
    <3> QED
      BY <3>1, <3>2, <1>5
  <2>12. Agree(r, K, q)
    BY <2>9, <2>11 DEF Agree
  <2>13. r = SubSeq(K, 1, q)
    BY <2>8, <2>9, <2>12, IsPrefixOf
  <2>14. ASSUME NEW n \in Nat, Agree(s.log, K, n)
         PROVE  Agree(r, K, n)
    <3>1. n <= q
      <4>1. CASE l = s.log
        BY <4>1, <2>14, <2>9, <1>5 DEF Agree
      <4>2. CASE \A d \in Nat : Agree(s.log, K, d) => d <= Len(l)
        BY <4>2, <2>14, <2>9, <1>5
      <4> QED
        BY <4>1, <4>2, <1>4
    <3> HIDE DEF q
    <3> QED
      BY <3>1, <2>8, <2>9, <2>12, AgreeFacts
  <2> QED
    BY <2>7, <2>8, <2>12, <2>13, <2>14
<1> QED
  BY <1>7, <1>8

-----------------------------------------------------------------------------
(* The inductive invariant.                                                 *)

(* One log for every term.                                                  *)
Histories == [Nat -> Seq(logEntry)]

(* A log that a peer in term t may have: it starts with the sentinel.       *)
LogOK(L, l, t) ==
  /\ Copied(L, l) /\ Ordered(l)
  /\ Len(l) > 0 => l[1] = zeroEntry
  /\ \A p \in 1..Len(l) : l[p].Term <= t

(* A candidate in its loop; a leader in its loop.                           *)
Standing(s) == s.state = "candidate" /\ s.service = "candidate"
Leading(s) == s.state = "leader" /\ s.service = "leader"

(* The histories of the leaders' logs, given who has won (E).               *)
Ledger(L, E) ==
  /\ L \in Histories
  /\ L[0] = <<zeroEntry>>
  /\ \A t \in Nat : LogOK(L, L[t], t) /\ (L[t] # <<>> => Indexed(L[t]))
  /\ \A t \in Nat \ {0} : L[t] # <<>> <=> \E i \in Server : <<t, i>> \in E
  /\ \A e \in E : e[1] > 0

(* The log of peer i: a leader's is the history of its term; a candidate    *)
(* has not won yet and has no entry of the term it stands for.              *)
PeerLog(L, E, i, s) ==
  /\ LogOK(L, s.log, s.currentTerm)
  /\ s.state = "leader" => s.log = L[s.currentTerm]
  /\ Standing(s) => /\ <<s.currentTerm, i>> \notin E
                    /\ \A p \in 1..Len(s.log) : s.log[p].Term < s.currentTerm
  /\ Leading(s) => \A j \in Server : s.nextIndex[j] <= Len(s.log)
  /\ \A t \in Nat : <<t, i>> \in E => t <= s.currentTerm

(* What an AppendEntries carries is a piece of its leader's log, sent to    *)
(* somebody else; what comes back never points beyond that log.             *)
MsgLog(L, E, m) ==
  /\ m.type = "AppendEntries" =>
        /\ m.PrevLogIndex + 1 + Len(m.Entries) <= Len(L[m.Term])
        /\ m.PrevLogTerm = L[m.Term][m.PrevLogIndex + 1].Term
        /\ \A k \in 1..Len(m.Entries) : m.Entries[k] = L[m.Term][m.PrevLogIndex + 1 + k]
        /\ \E i \in Server : i # m.to /\ <<m.Term, i>> \in E
        /\ m.from # m.to
        /\ m.from # Nil => <<m.Term, m.from>> \in E
  /\ m.type = "AppendEntriesReply" =>
        /\ m.argsMatch + 1 <= Len(L[m.argsTerm])
        /\ m.ConflictIndex <= m.argsMatch
        /\ m.from # m.to
        /\ <<m.argsTerm, m.to>> \in E

LogInv(L) ==
  /\ Ledger(L, elected)
  /\ \A i \in Server : PeerLog(L, elected, i, rf[i])
  /\ \A m \in msgs : MsgLog(L, elected, m)

(* Histories only grow.                                                     *)
Grows(L, M) == \A t \in Nat : Agree(L[t], M[t], Len(L[t]))

-----------------------------------------------------------------------------
(* Lawful logs.                                                             *)

(* Entry terms are numbers.                                                 *)
LEMMA EntryFields ==
  ASSUME NEW l \in Seq(logEntry), NEW p \in 1..Len(l)
  PROVE  l[p] \in logEntry /\ l[p].Term \in Nat /\ l[p].Index \in Nat
<1>1. l[p] \in logEntry
  OBVIOUS
<1> QED
  BY <1>1 DEF logEntry

(* A history is a log.                                                      *)
LEMMA HistoryType ==
  ASSUME NEW L \in Histories, NEW t \in Nat
  PROVE  L[t] \in Seq(logEntry) /\ Len(L[t]) \in Nat
  BY DEF Histories

(* Two copies that agree on the term of an entry agree up to it.            *)
LEMMA TermTells ==
  ASSUME NEW L \in Histories, NEW a \in Seq(logEntry), NEW b \in Seq(logEntry),
         Copied(L, a), Copied(L, b), NEW p \in Nat, p <= Len(a), p <= Len(b),
         p > 0 => a[p].Term = b[p].Term
  PROVE  Agree(a, b, p)
<1>1. CASE p = 0
  <2>1. 0 <= Len(a) /\ 0 <= Len(b) /\ 1..0 = {}
    OBVIOUS
  <2> QED
    BY <1>1, <2>1 DEF Agree
<1>2. CASE p > 0
  <2>1. p \in 1..Len(a) /\ p \in 1..Len(b)
    BY <1>2
  <2> DEFINE w == a[p].Term
  <2>2. Agree(a, L[w], p) /\ Agree(b, L[w], p)
    BY <1>2, <2>1 DEF Copied
  <2>3. L[w] \in Seq(logEntry)
    BY <2>1, EntryFields, HistoryType
  <2> HIDE DEF w
  <2>4. Agree(L[w], b, p)
    BY <2>2, <2>3, AgreeFacts
  <2> QED
    BY <2>2, <2>3, <2>4, AgreeFacts
<1> QED
  BY <1>1, <1>2

(* A log stays lawful when histories grow and the term rises.               *)
LEMMA LogOKGrows ==
  ASSUME NEW L \in Histories, NEW M \in Histories, Grows(L, M),
         NEW l \in Seq(logEntry), NEW t \in Nat, NEW u \in Nat, t <= u, LogOK(L, l, t)
  PROVE  LogOK(M, l, u)
<1>1. ASSUME NEW p \in 1..Len(l)
      PROVE  Agree(l, M[l[p].Term], p) /\ l[p].Term <= u
  <2> DEFINE w == l[p].Term
  <2>1. w \in Nat /\ w <= t
    BY EntryFields DEF LogOK
  <2>2. Agree(l, L[w], p) /\ Agree(L[w], M[w], Len(L[w]))
    BY <2>1 DEF LogOK, Copied, Grows
  <2>3. L[w] \in Seq(logEntry) /\ M[w] \in Seq(logEntry) /\ Len(L[w]) \in Nat
    BY <2>1, HistoryType
  <2>4. w <= u
    BY <2>1
  <2> HIDE DEF w
  <2>5. Agree(l, M[w], p)
    BY <2>2, <2>3, AgreeChain
  <2> QED
    BY <2>4, <2>5 DEF w
<1> QED
  BY <1>1 DEF LogOK, Copied

(* The beginning of a lawful log is lawful.                                 *)
LEMMA LogOKPrefix ==
  ASSUME NEW L \in Histories, NEW l \in Seq(logEntry), NEW t \in Nat,
         LogOK(L, l, t), NEW n \in Nat, n <= Len(l)
  PROVE  LogOK(L, SubSeq(l, 1, n), t)
<1> DEFINE a == SubSeq(l, 1, n)
<1>1. a \in Seq(logEntry) /\ Len(a) = n /\ \A k \in 1..n : a[k] = l[k]
  <2>1. 1 <= n + 1 /\ 1 \in Nat \ {0} /\ n - 1 + 1 = n /\ \A k \in 1..n : 1 + k - 1 = k
    OBVIOUS
  <2> QED
    BY <2>1, Slice
<1> HIDE DEF a
<1>2. ASSUME NEW p \in 1..Len(a)
      PROVE  Agree(a, L[a[p].Term], p) /\ a[p].Term <= t
  <2>1. p \in 1..Len(l) /\ a[p] = l[p] /\ p \in Nat /\ p <= n
    BY <1>1
  <2>2. Agree(l, L[l[p].Term], p) /\ l[p].Term <= t
    BY <2>1 DEF LogOK, Copied
  <2>3. L[l[p].Term] \in Seq(logEntry)
    BY <2>1, EntryFields, HistoryType
  <2>4. Agree(a, l, p)
    BY <1>1, <2>1 DEF Agree
  <2>5. Agree(a, L[l[p].Term], p)
    BY <1>1, <2>1, <2>2, <2>3, <2>4, AgreeFacts
  <2> QED
    BY <2>1, <2>2, <2>5
<1>3. Ordered(a)
  <2> SUFFICES ASSUME NEW p \in 1..Len(a), NEW q \in 1..Len(a), p <= q
               PROVE  a[p].Term <= a[q].Term
    BY DEF Ordered
  <2>1. p \in 1..Len(l) /\ q \in 1..Len(l) /\ a[p] = l[p] /\ a[q] = l[q]
    BY <1>1
  <2> QED
    BY <2>1 DEF LogOK, Ordered
<1>4. Len(a) > 0 => a[1] = zeroEntry
  <2>1. Len(a) > 0 => Len(l) > 0 /\ 1 \in 1..n
    BY <1>1
  <2> QED
    BY <1>1, <2>1 DEF LogOK
<1> QED
  BY <1>2, <1>3, <1>4 DEF LogOK, Copied, a

(* The history of a term that has been won.                                 *)
LEMMA LedgerFacts ==
  ASSUME NEW L, NEW E, Ledger(L, E), NEW t \in Nat
  PROVE  /\ L \in Histories /\ L[t] \in Seq(logEntry) /\ Len(L[t]) \in Nat
         /\ LogOK(L, L[t], t) /\ (Len(L[t]) > 0 => Indexed(L[t]))
         /\ Copied(L, L[t]) /\ Ordered(L[t]) /\ \A p \in 1..Len(L[t]) : L[t][p].Term <= t
         /\ \A i \in Server : <<t, i>> \in E => t > 0 /\ L[t] # <<>> /\ Len(L[t]) > 0
<1>1. L \in Histories /\ L[t] \in Seq(logEntry) /\ Len(L[t]) \in Nat
  BY HistoryType DEF Ledger
<1>2. Copied(L, L[t]) /\ Ordered(L[t]) /\ \A p \in 1..Len(L[t]) : L[t][p].Term <= t
  BY DEF Ledger, LogOK
<1>2a. LogOK(L, L[t], t) /\ (Len(L[t]) > 0 => Indexed(L[t]))
  <2>1. Len(L[t]) > 0 => L[t] # <<>>
    BY <1>1
  <2> QED
    BY <2>1 DEF Ledger
<1>3. ASSUME NEW i \in Server, <<t, i>> \in E
      PROVE  t > 0 /\ L[t] # <<>> /\ Len(L[t]) > 0
  <2>1. t > 0
    BY <1>3 DEF Ledger
  <2>2. L[t] # <<>>
    <3>1. t \in Nat \ {0}
      BY <2>1
    <3> QED
      BY <1>3, <3>1 DEF Ledger
  <2>3. Len(L[t]) # 0
    BY <1>1, <2>2
  <2> QED
    BY <1>1, <2>1, <2>2, <2>3
<1> QED
  BY <1>1, <1>2, <1>2a, <1>3

(* A peer's log stays lawful when the histories grow, unless it leads the   *)
(* term whose history grows.                                                *)
LEMMA PeerLogGrows ==
  ASSUME NEW L \in Histories, NEW M \in Histories, Grows(L, M), NEW E, NEW F,
         NEW i, NEW s, Good(s), PeerLog(L, E, i, s),
         s.state = "leader" => M[s.currentTerm] = L[s.currentTerm],
         \A t \in Nat : <<t, i>> \in F => t <= s.currentTerm,
         Standing(s) => <<s.currentTerm, i>> \notin F
  PROVE  PeerLog(M, F, i, s)
<1>1. s.log \in Seq(logEntry) /\ s.currentTerm \in Nat
  BY GoodFields
<1>2. s.currentTerm <= s.currentTerm
  BY <1>1
<1>3. LogOK(M, s.log, s.currentTerm)
  BY <1>1, <1>2, LogOKGrows DEF PeerLog
<1> QED
  BY <1>3 DEF PeerLog

(* What is in flight stays a piece of a history.                            *)
LEMMA MsgLogGrows ==
  ASSUME NEW L \in Histories, NEW M \in Histories, Grows(L, M), NEW E, NEW F, E \subseteq F,
         NEW m, MsgOK(m), MsgLog(L, E, m)
  PROVE  MsgLog(M, F, m)
<1>1. ASSUME m.type = "AppendEntries"
      PROVE  /\ m.PrevLogIndex + 1 + Len(m.Entries) <= Len(M[m.Term])
             /\ m.PrevLogTerm = M[m.Term][m.PrevLogIndex + 1].Term
             /\ \A k \in 1..Len(m.Entries) : m.Entries[k] = M[m.Term][m.PrevLogIndex + 1 + k]
             /\ \E i \in Server : i # m.to /\ <<m.Term, i>> \in F
             /\ m.from # m.to /\ (m.from # Nil => <<m.Term, m.from>> \in F)
  <2> DEFINE a == L[m.Term]
             b == M[m.Term]
             n == m.PrevLogIndex
             es == m.Entries
  <2>1. m.Term \in Nat /\ n \in Nat /\ es \in Seq(logEntry)
    BY <1>1, AppendArgsFields
  <2>2. Agree(a, b, Len(a)) /\ Len(a) \in Nat /\ Len(b) \in Nat
    BY <2>1, HistoryType DEF Grows
  <2>3. /\ n + 1 + Len(es) <= Len(a) /\ m.PrevLogTerm = a[n + 1].Term
        /\ \A k \in 1..Len(es) : es[k] = a[n + 1 + k]
        /\ \E i \in Server : i # m.to /\ <<m.Term, i>> \in E
        /\ m.from # m.to /\ (m.from # Nil => <<m.Term, m.from>> \in E)
    BY <1>1 DEF MsgLog
  <2> HIDE DEF a, b, n, es
  <2>4. ASSUME NEW k \in 1..(n + 1 + Len(es))
        PROVE  a[k] = b[k]
    <3>1. Len(es) \in Nat
      BY <2>1
    <3>2. k \in 1..Len(a)
      BY <2>1, <2>2, <2>3, <3>1
    <3> QED
      BY <2>2, <3>2 DEF Agree
  <2>5. n + 1 \in 1..(n + 1 + Len(es)) /\ Len(es) \in Nat
    BY <2>1
  <2>6. \A k \in 1..Len(es) : n + 1 + k \in 1..(n + 1 + Len(es))
    BY <2>1
  <2>7. n + 1 + Len(es) <= Len(b)
    BY <2>1, <2>2, <2>3, <2>5 DEF Agree
  <2>8. m.PrevLogTerm = b[n + 1].Term /\ \A k \in 1..Len(es) : es[k] = b[n + 1 + k]
    BY <2>3, <2>4, <2>5, <2>6
  <2> QED
    BY <2>3, <2>7, <2>8 DEF b, n, es
<1>2. ASSUME m.type = "AppendEntriesReply"
      PROVE  m.argsMatch + 1 <= Len(M[m.argsTerm])
  <2> DEFINE a == L[m.argsTerm]
             b == M[m.argsTerm]
  <2>1. m.argsTerm \in Nat /\ m.argsMatch \in Nat
    BY <1>2, AppendReplyFields
  <2>2. Agree(a, b, Len(a)) /\ Len(a) \in Nat /\ Len(b) \in Nat
    BY <2>1, HistoryType DEF Grows
  <2>3. m.argsMatch + 1 <= Len(a)
    BY <1>2 DEF MsgLog
  <2> HIDE DEF a, b
  <2>4. m.argsMatch + 1 <= Len(b)
    BY <2>1, <2>2, <2>3 DEF Agree
  <2> QED
    BY <2>4 DEF b
<1> QED
  BY <1>1, <1>2 DEF MsgLog

-----------------------------------------------------------------------------
(* Steps that leave the logs alone and promote nobody.                      *)
Quiet(s, u) ==
  /\ u.log = s.log /\ u.currentTerm >= s.currentTerm
  /\ u.state = "leader" => s.state = "leader" /\ u.currentTerm = s.currentTerm
  /\ Standing(u) => Standing(s) /\ u.currentTerm = s.currentTerm
  /\ Leading(u) => Leading(s) /\ u.nextIndex = s.nextIndex /\ u.matchIndex = s.matchIndex
  /\ u.commitIndex \in {s.commitIndex, 0}

(* They keep a peer's log lawful.                                           *)
LEMMA QuietPeer ==
  ASSUME NEW L \in Histories, NEW E, NEW i, NEW s, NEW u, Good(s), Good(u),
         PeerLog(L, E, i, s), Quiet(s, u)
  PROVE  PeerLog(L, E, i, u)
<1>1. s.log \in Seq(logEntry) /\ s.currentTerm \in Nat /\ u.currentTerm \in Nat
  BY GoodFields
<1>2. u.log = s.log /\ s.currentTerm <= u.currentTerm
  BY <1>1 DEF Quiet
<1>3. Grows(L, L)
  <2> SUFFICES ASSUME NEW t \in Nat PROVE Agree(L[t], L[t], Len(L[t]))
    BY DEF Grows
  <2>1. Len(L[t]) \in Nat
    BY HistoryType
  <2> QED
    BY <2>1 DEF Agree
<1>4. LogOK(L, u.log, u.currentTerm)
  BY <1>1, <1>2, <1>3, LogOKGrows DEF PeerLog
<1>5. u.state = "leader" => u.log = L[u.currentTerm]
  BY <1>2 DEF Quiet, PeerLog
<1>6. Standing(u) => /\ <<u.currentTerm, i>> \notin E
                     /\ \A p \in 1..Len(u.log) : u.log[p].Term < u.currentTerm
  BY <1>2 DEF Quiet, PeerLog
<1>7. Leading(u) => \A j \in Server : u.nextIndex[j] <= Len(u.log)
  BY <1>2 DEF Quiet, PeerLog
<1>8. \A t \in Nat : <<t, i>> \in E => t <= u.currentTerm
  BY <1>1, <1>2 DEF PeerLog
<1> QED
  BY <1>4, <1>5, <1>6, <1>7, <1>8 DEF PeerLog

(* Nothing is quieter than nothing, and quiet steps compose.                *)
LEMMA QuietSame ==
  ASSUME NEW s, Good(s)
  PROVE  Quiet(s, s)
<1>1. s.currentTerm \in Nat
  BY GoodFields
<1> QED
  BY <1>1 DEF Quiet

(* Quiet steps compose.                                                     *)
LEMMA QuietTrans ==
  ASSUME NEW s, NEW u, NEW w, Good(s), Good(u), Good(w), Quiet(s, u), Quiet(u, w)
  PROVE  Quiet(s, w)
<1>1. s.currentTerm \in Nat /\ u.currentTerm \in Nat /\ w.currentTerm \in Nat
  BY GoodFields
<1> QED
  BY <1>1 DEF Quiet

(* One peer takes a step, nobody wins: what has to be shown of that peer    *)
(* and of what is in flight.                                                *)
LEMMA OnePeer ==
  ASSUME TypeInv, NEW L, LogInv(L), NEW i \in Server, NEW u, Update(i, u),
         PeerLog(L, elected, i, u), elected' = elected,
         \A x \in msgs' : MsgLog(L, elected, x)
  PROVE  LogInv(L)'
<1>1. rf'[i] = u /\ \A j \in Server : j # i => rf'[j] = rf[j]
  BY DEF TypeInv, TypeRf, Update
<1>2. \A j \in Server : PeerLog(L, elected, j, rf'[j])
  BY <1>1 DEF LogInv
<1> QED
  BY <1>2 DEF LogInv

(* A quiet step of one peer.                                                *)
LEMMA QuietStep ==
  ASSUME TypeInv, NEW L, LogInv(L), NEW i \in Server, NEW u, Update(i, u), Good(u),
         Quiet(rf[i], u), elected' = elected, \A x \in msgs' : MsgLog(L, elected, x)
  PROVE  LogInv(L)'
<1>1. L \in Histories /\ Good(rf[i]) /\ PeerLog(L, elected, i, rf[i])
  BY DEF LogInv, Ledger, TypeInv, TypeRf
<1>2. PeerLog(L, elected, i, u)
  BY <1>1, QuietPeer
<1> QED
  BY <1>2, OnePeer

-----------------------------------------------------------------------------
(* The log and the bookkeeping of replication.                              *)
SameLog(s, u) ==
  /\ u.log = s.log /\ u.commitIndex = s.commitIndex
  /\ u.nextIndex = s.nextIndex /\ u.matchIndex = s.matchIndex

(* Role changes leave the log and its bookkeeping alone.                    *)
LEMMA RoleKeepsLog ==
  ASSUME NEW s, Good(s), NEW st \in {"follower", "candidate", "leader"},
         NEW cs \in {Nil, "follower", "leader"},
         NEW sv \in {"asFollower", "follower", "asCandidate", "startElection",
                     "candidate", "asLeader", "leader", "panic"}
  PROVE  /\ SameLog(s, [s EXCEPT !.state = st, !.service = sv])
         /\ SameLog(s, [s EXCEPT !.service = sv])
         /\ SameLog(s, [s EXCEPT !.convertState = cs])
         /\ SameLog(s, [s EXCEPT !.convertState = cs, !.service = sv])
         /\ SameLog(s, [s EXCEPT !.state = st, !.convertState = cs])
  BY DEF Good, RaftObject, SameLog

(* So do votes.                                                             *)
LEMMA VoteKeepsLog ==
  ASSUME NEW s, Good(s), NEW c \in Server
  PROVE  SameLog(s, grantVote(s, c)) /\ SameLog(s, WithVote(s, c))
<1> DEFINE p == [s EXCEPT !.votedFor = c]
           q == persist(p)
           r == [q EXCEPT !.convertState = "follower"]
<1>1. p \in RaftObject /\ Indexed(p.log) /\ SameLog(s, p)
  BY DEF Good, RaftObject, SameLog
<1>2. grantVote(s, c) \in {q, r}
  BY DEF grantVote
<1> HIDE DEF p
<1>3. Good(q) /\ SameLog(s, q)
  BY <1>1, PersistGood DEF SameLog
<1> HIDE DEF q
<1>4. SameLog(s, r)
  BY <1>3, PutToken DEF Untouched, SameLog
<1>5. SameLog(s, WithVote(s, c))
  BY DEF WithVote, SameLog, Good, RaftObject
<1> QED
  BY <1>2, <1>3, <1>4, <1>5

(* A peer whose log and term are the same and whose role is one of the      *)
(* waiting ones has made a quiet step.                                      *)
LEMMA WaitingIsQuiet ==
  ASSUME NEW s, Good(s), NEW u, SameLog(s, u), u.currentTerm = s.currentTerm,
         u.state = "leader" => s.state = "leader",
         ~Standing(u) /\ ~Leading(u)
  PROVE  Quiet(s, u)
<1>1. s.currentTerm \in Nat
  BY GoodFields
<1> QED
  BY <1>1 DEF Quiet, SameLog

(* The service goroutine enters and leaves loops, and timers fire.          *)
LEMMA ServiceQuiet ==
  ASSUME TypeInv, NEW i \in Server,
         \/ runAsFollower(i) \/ FollowerTimeout(i) \/ FollowerResetsTimer(i)
         \/ runAsCandidate(i) \/ CandidateTimeout(i) \/ CandidateConverts(i)
         \/ LeaderConverts(i)
  PROVE  \E u : /\ Good(u) /\ Update(i, u) /\ Quiet(rf[i], u) /\ SameLog(rf[i], u)
                /\ UNCHANGED <<msgs, votes, elected, applied>>
<1> DEFINE s == rf[i]
<1>0. Good(s)
  BY DEF TypeInv, TypeRf
<1>1. UNCHANGED <<msgs, votes, elected, applied>>
  BY DEF runAsFollower, FollowerTimeout, FollowerResetsTimer, runAsCandidate,
         CandidateTimeout, CandidateConverts, LeaderConverts
<1> SUFFICES \E u : Good(u) /\ Update(i, u) /\ Quiet(s, u) /\ SameLog(s, u)
  BY <1>1
<1>2. CASE runAsFollower(i) \/ runAsCandidate(i)
  <2> DEFINE u(st, sv) == [s EXCEPT !.state = st, !.service = sv]
  <2>1. PICK st \in {"follower", "candidate"}, sv \in {"follower", "startElection"} :
            Update(i, u(st, sv)) /\ (st = "candidate" => sv = "startElection")
    BY <1>2 DEF runAsFollower, runAsCandidate
  <2>2. Good(u(st, sv))
    BY <1>0, RoleStep
  <2>3. /\ u(st, sv).currentTerm = s.currentTerm
        /\ u(st, sv).state = st /\ u(st, sv).service = sv
    BY <1>0, RoleFields
  <2>4. SameLog(s, u(st, sv))
    BY <1>0, RoleKeepsLog
  <2> HIDE DEF u, s
  <2>5. Quiet(s, u(st, sv))
    BY <1>0, <2>1, <2>3, <2>4, WaitingIsQuiet DEF Standing, Leading
  <2> QED
    BY <2>1, <2>2, <2>4, <2>5
<1>3. CASE FollowerTimeout(i) \/ CandidateTimeout(i)
  <2> DEFINE u == [s EXCEPT !.service = "asCandidate"]
  <2>1. Update(i, u)
    BY <1>3 DEF FollowerTimeout, CandidateTimeout
  <2>2. /\ Good(u) /\ u.currentTerm = s.currentTerm /\ u.state = s.state
        /\ u.service = "asCandidate" /\ SameLog(s, u)
    <3>1. Good(u)
      BY <1>0, RoleStep
    <3>2. /\ u.currentTerm = s.currentTerm /\ u.state = s.state
          /\ u.service = "asCandidate"
      BY <1>0, RoleFields
    <3>3. SameLog(s, u)
      BY <1>0, RoleKeepsLog
    <3> QED
      BY <3>1, <3>2, <3>3
  <2> HIDE DEF u, s
  <2>3. Quiet(s, u)
    BY <1>0, <2>2, WaitingIsQuiet DEF Standing, Leading
  <2> QED
    BY <2>1, <2>2, <2>3
<1>4. CASE FollowerResetsTimer(i)
  <2> DEFINE u == [s EXCEPT !.convertState = Nil]
  <2>1. Update(i, u) /\ s.service = "follower"
    BY <1>4 DEF FollowerResetsTimer
  <2>2. /\ Good(u) /\ u.currentTerm = s.currentTerm /\ u.state = s.state
        /\ u.service = s.service /\ SameLog(s, u)
    <3>1. Good(u)
      BY <1>0, RoleStep
    <3>2. /\ u.currentTerm = s.currentTerm /\ u.state = s.state
          /\ u.service = s.service
      BY <1>0, RoleFields
    <3>3. SameLog(s, u)
      BY <1>0, RoleKeepsLog
    <3> QED
      BY <3>1, <3>2, <3>3
  <2> HIDE DEF u, s
  <2>3. Quiet(s, u)
    BY <1>0, <2>1, <2>2, WaitingIsQuiet DEF Standing, Leading
  <2> QED
    BY <2>1, <2>2, <2>3
<1>5. CASE CandidateConverts(i) \/ LeaderConverts(i)
  <2> DEFINE u(sv) == [s EXCEPT !.convertState = Nil, !.service = sv]
  <2>1. PICK sv \in {"asFollower", "asLeader", "panic"} : Update(i, u(sv))
    BY <1>5 DEF CandidateConverts, LeaderConverts
  <2>2. /\ Good(u(sv)) /\ u(sv).currentTerm = s.currentTerm /\ u(sv).state = s.state
        /\ u(sv).service = sv /\ SameLog(s, u(sv))
    <3>1. Good(u(sv))
      BY <1>0, RoleStep
    <3>2. /\ u(sv).currentTerm = s.currentTerm /\ u(sv).state = s.state
          /\ u(sv).service = sv
      BY <1>0, RoleFields
    <3>3. SameLog(s, u(sv))
      BY <1>0, RoleKeepsLog
    <3> QED
      BY <3>1, <3>2, <3>3
  <2> HIDE DEF u, s
  <2>3. Quiet(s, u(sv))
    BY <1>0, <2>2, WaitingIsQuiet DEF Standing, Leading
  <2> QED
    BY <2>1, <2>2, <2>3
<1> QED
  BY <1>2, <1>3, <1>4, <1>5

(* Adopting a newer term is a quiet step of a settled peer.                 *)
LEMMA CheckQuiet ==
  ASSUME NEW s, Good(s), Settled(s), NEW t \in Nat
  PROVE  LET u == checkCurrentTerm(s, t)
         IN  /\ Good(u) /\ Quiet(s, u) /\ SameLog(s, u)
             /\ u.state = "follower" \/ u = s
<1> DEFINE u == checkCurrentTerm(s, t)
<1>1. /\ Good(u)
      /\ u.currentTerm = IF t <= s.currentTerm THEN s.currentTerm ELSE t
      /\ u.state = IF t > s.currentTerm /\ s.convertState = Nil THEN "follower" ELSE s.state
      /\ u.log = s.log /\ u.commitIndex = s.commitIndex /\ u.nextIndex = s.nextIndex
      /\ u.matchIndex = s.matchIndex
  BY CheckTerm
<1>2. s.currentTerm \in Nat
  BY GoodFields
<1>3. t <= s.currentTerm => u = s
  BY DEF checkCurrentTerm
<1> HIDE DEF u
<1>4. CASE t <= s.currentTerm
  BY <1>1, <1>3, <1>4, QuietSame DEF SameLog, u
<1>5. CASE t > s.currentTerm
  <2>1. u.state = "follower" /\ u.currentTerm = t
    BY <1>1, <1>2, <1>5 DEF Settled
  <2>2. Quiet(s, u) /\ SameLog(s, u)
    BY <1>1, <1>2, <1>5, <2>1 DEF Quiet, SameLog, Standing, Leading
  <2> QED
    BY <1>1, <2>1, <2>2 DEF u
<1> QED
  BY <1>2, <1>4, <1>5

(* The peer a handler works on, after the check of the term.                *)
LEMMA LockedQuiet ==
  ASSUME TypeInv, PromptService, NEW i \in Server, CanLock(i), NEW m, m.Term \in Nat
  PROVE  LET s == Checked(i, m)
         IN  /\ Good(rf[i]) /\ Settled(rf[i])
             /\ Good(s) /\ Quiet(rf[i], s) /\ SameLog(rf[i], s)
             /\ s.state = "follower" \/ s = rf[i]
<1>1. Good(rf[i]) /\ Settled(rf[i])
  BY DEF TypeInv, TypeRf, CanLock, Settled
<1> QED
  BY <1>1, CheckQuiet DEF Checked

(* Answering a request for a vote is a quiet step.                          *)
LEMMA VoterQuiet ==
  ASSUME TypeInv, PromptService, NEW i \in Server, NEW m \in msgs, RequestVote(i, m)
  PROVE  /\ Good(Voter(i, m)) /\ Quiet(rf[i], Voter(i, m)) /\ Update(i, Voter(i, m))
         /\ SameLog(rf[i], Voter(i, m))
<1> DEFINE s == Checked(i, m)
           g == grantVote(s, m.CandidateId)
<1>1. CanLock(i) /\ m.Term \in Nat /\ m.CandidateId \in Server
  BY VoteArgsFields DEF RequestVote, TypeInv, TypeRest
<1>2. Good(rf[i]) /\ Good(s) /\ Quiet(rf[i], s) /\ SameLog(rf[i], s)
  BY <1>1, LockedQuiet
<1>3. Update(i, Voter(i, m)) /\ Voter(i, m) \in {s, g}
  BY RequestVoteEffect DEF Voter
<1> HIDE DEF s
<1>4. /\ Good(g) /\ g.currentTerm = s.currentTerm /\ g.state = s.state
      /\ g.service = s.service /\ SameLog(s, g) /\ s.currentTerm \in Nat
  BY <1>1, <1>2, Grant, VoteKeepsLog, GoodFields
<1> HIDE DEF g
<1>5. Quiet(s, g)
  BY <1>4 DEF Quiet, SameLog, Standing, Leading
<1>6. Quiet(rf[i], g) /\ SameLog(rf[i], g)
  BY <1>2, <1>4, <1>5, QuietTrans DEF SameLog
<1> QED
  BY <1>2, <1>3, <1>4, <1>6

(* A reply to a request for a vote: a quiet step, or a victory of the       *)
(* candidate of the current term.                                           *)
LEMMA VoteReplyCases ==
  ASSUME TypeInv, RoleInv, PromptService, NEW i \in Server, NEW m \in msgs, VoteReply(i, m)
  PROVE  /\ msgs' \subseteq msgs /\ UNCHANGED <<votes, applied>>
         /\ \E u :
              /\ Good(u) /\ Update(i, u) /\ SameLog(rf[i], u)
              /\ \/ Quiet(rf[i], u) /\ elected' = elected
                 \/ /\ Standing(rf[i]) /\ u.currentTerm = rf[i].currentTerm
                    /\ u.state = "leader" /\ u.service = "candidate"
                    /\ m.argsTerm = rf[i].currentTerm
                    /\ elected' = elected \cup {<<rf[i].currentTerm, i>>}
<1> DEFINE s == Checked(i, m)
           t == Counted(i, m)
           w == [t EXCEPT !.state = "leader", !.convertState = "leader"]
<1>0. CanLock(i) /\ RoleOK(rf[i]) /\ UNCHANGED <<votes, applied>>
  BY DEF VoteReply, RoleInv
<1>1. m.Term \in Nat /\ m.from \in Server
  BY VoteReplyFields DEF TypeInv, TypeRest, VoteReply
<1>2. /\ Good(rf[i]) /\ Settled(rf[i]) /\ Good(s) /\ Quiet(rf[i], s) /\ SameLog(rf[i], s)
      /\ s.state = "follower" \/ s = rf[i]
  BY <1>0, <1>1, LockedQuiet
<1>3. PICK u : Good(u) /\ Update(i, u) /\ Outcome(i, m, u) /\ msgs' \subseteq msgs
  BY VoteReplyEffect
<1>4. /\ Good(t) /\ t.currentTerm = s.currentTerm /\ t.state = s.state
      /\ t.convertState = s.convertState /\ t.service = s.service /\ SameLog(s, t)
  BY <1>1, <1>2, WithVoteGood, VoteKeepsLog DEF Counted
<1>5. countsVote(s, m) => s.state = "candidate" /\ m.argsTerm = s.currentTerm
  BY DEF countsVote
<1>6. \/ u \in {s, t} /\ elected' = elected
      \/ /\ countsVote(s, m) /\ s.convertState = Nil
         /\ u = w /\ elected' = elected \cup {<<s.currentTerm, i>>}
      \/ countsVote(s, m) /\ s.convertState # Nil
  BY <1>3 DEF Outcome
<1> HIDE DEF s, t
<1>7. Quiet(s, t) /\ Quiet(rf[i], t) /\ SameLog(rf[i], t)
  <2>1. s.currentTerm \in Nat
    BY <1>2, GoodFields
  <2>2. Quiet(s, t)
    BY <1>4, <2>1 DEF Quiet, SameLog, Standing, Leading
  <2> QED
    BY <1>2, <1>4, <2>2, QuietTrans DEF SameLog
<1>8. CASE u \in {s, t} /\ elected' = elected
  BY <1>0, <1>2, <1>3, <1>7, <1>8
<1>9. CASE countsVote(s, m)
  <2>1. s = rf[i] /\ s.state = "candidate" /\ s.convertState = Nil
    BY <1>2, <1>5, <1>9 DEF Settled
  <2>2. s.service = "candidate"
    BY <1>0, <1>2, <2>1 DEF RoleOK, Settled, InLoop
  <2>3. /\ w.currentTerm = t.currentTerm /\ w.service = t.service /\ w.state = "leader"
    BY <1>4, WinnerGood
  <2>4. SameLog(t, w)
    BY <1>4, RoleKeepsLog
  <2> HIDE DEF w
  <2>5. SameLog(rf[i], w)
    BY <1>7, <2>4 DEF SameLog
  <2>6. Standing(rf[i])
    BY <2>1, <2>2 DEF Standing
  <2>7. CASE u \in {s, t} /\ elected' = elected
    BY <1>8, <2>7
  <2>8. CASE u = w /\ elected' = elected \cup {<<s.currentTerm, i>>}
    BY <1>0, <1>3, <1>4, <1>5, <1>9, <2>1, <2>2, <2>3, <2>5, <2>6, <2>8
  <2> QED
    BY <1>6, <2>1, <2>7, <2>8
<1> QED
  BY <1>6, <1>8, <1>9

(* What a crash leaves of a peer is the beginning of a quiet life.          *)
LEMMA RestartQuiet ==
  ASSUME TypeInv, NEW i \in Server, Restart(i)
  PROVE  \E u : /\ Good(u) /\ Update(i, u) /\ Quiet(rf[i], u)
                /\ u.state = "follower" /\ u.commitIndex = 0
<1>0. Good(rf[i]) /\ TypeRest /\ rf[i].currentTerm \in Nat
  BY GoodFields DEF TypeInv, TypeRf
<1>1. PICK saved \in CrashStates(i) : Update(i, readPersist(saved))
  BY DEF Restart
<1>2. PICK w : Good(w) /\ w.log = rf[i].log /\ saved = w.raftstate
               /\ w.currentTerm >= rf[i].currentTerm
  <2>1. CASE saved = rf[i].raftstate
    BY <1>0, <2>1
  <2>2. CASE \E m \in msgs : saved = Checked(i, m).raftstate
    <3>1. PICK m \in msgs : saved = Checked(i, m).raftstate
      BY <2>2
    <3>2. m.Term \in Nat
      <4>1. MsgOK(m)
        BY <1>0 DEF TypeRest
      <4> QED
        BY <4>1 DEF MsgOK, Message, RequestVoteArgs, RequestVoteReply, AppendEntriesArgs,
                    AppendEntriesReply
    <3> DEFINE w == checkCurrentTerm(rf[i], m.Term)
    <3>3. /\ Good(w) /\ w.log = rf[i].log
          /\ w.currentTerm = IF m.Term <= rf[i].currentTerm THEN rf[i].currentTerm ELSE m.Term
      BY <1>0, <3>2, CheckTerm
    <3>4. saved = w.raftstate
      BY <3>1 DEF Checked
    <3> HIDE DEF w
    <3>5. w.currentTerm >= rf[i].currentTerm
      BY <1>0, <3>2, <3>3
    <3> QED
      BY <3>3, <3>4, <3>5
  <2> QED
    BY <2>1, <2>2 DEF CrashStates, Checked
<1>3. PICK u : /\ Good(u) /\ Update(i, u) /\ Fate(rf[i], u) /\ u.state = "follower"
  BY RestartEffect
<1> DEFINE r == readPersist(saved)
<1>4. saved.log = w.log /\ saved.currentTerm = w.currentTerm
  BY <1>2 DEF Good
<1>5. /\ r.log = saved.log /\ r.currentTerm = saved.currentTerm /\ r.commitIndex = 0
      /\ r.state = "follower"
  BY DEF readPersist
<1>6. u = r
  <2>1. rf'[i] = u /\ rf'[i] = r
    BY <1>1, <1>3 DEF TypeInv, TypeRf, Update
  <2> QED
    BY <2>1
<1> HIDE DEF r
<1>7. Quiet(rf[i], r)
  BY <1>0, <1>2, <1>4, <1>5 DEF Quiet, Standing, Leading
<1> QED
  BY <1>3, <1>5, <1>6, <1>7

(* A crash only turns requests into orphans.                                *)
LEMMA OrphanFields ==
  ASSUME NEW m, MsgOK(m), isRequest(m)
  PROVE  LET x == Orphan(m)
         IN  /\ MsgOK(x) /\ x.type = m.type /\ x.from = Nil /\ x.to = m.to /\ x.Term = m.Term
             /\ m.type = "AppendEntries" =>
                  /\ x.PrevLogIndex = m.PrevLogIndex /\ x.PrevLogTerm = m.PrevLogTerm
                  /\ x.Entries = m.Entries /\ x.LeaderCommit = m.LeaderCommit
             /\ m.type = "RequestVote" =>
                  /\ x.CandidateId = m.CandidateId /\ x.LastLogIndex = m.LastLogIndex
                  /\ x.LastLogTerm = m.LastLogTerm
<1>1. MsgOK(Orphan(m)) /\ Orphan(m).type = m.type /\ Orphan(m).from = Nil
  BY OrphanOK
<1>2. CASE m.type = "RequestVote"
  <2>1. m \in RequestVoteArgs
    BY <1>2 DEF MsgOK, Message, RequestVoteArgs, RequestVoteReply, AppendEntriesArgs,
                AppendEntriesReply
  <2> QED
    BY <1>1, <1>2, <2>1 DEF Orphan, RequestVoteArgs
<1>3. CASE m.type = "AppendEntries"
  <2>1. m \in AppendEntriesArgs
    BY <1>3 DEF MsgOK, Message, RequestVoteArgs, RequestVoteReply, AppendEntriesArgs,
                AppendEntriesReply
  <2> QED
    BY <1>1, <1>3, <2>1 DEF Orphan, AppendEntriesArgs
<1>4. m.type # "InstallSnapshot"
  BY DEF MsgOK, Message, RequestVoteArgs, RequestVoteReply, AppendEntriesArgs,
         AppendEntriesReply
<1> QED
  BY <1>2, <1>3, <1>4 DEF isRequest

-----------------------------------------------------------------------------
(* Every step keeps the histories, or extends them.                         *)

(* Messages about votes say nothing of logs.                                *)
LEMMA VotesCarryNoLog ==
  ASSUME NEW L, NEW E, NEW m, m.type \in {"RequestVote", "RequestVoteReply"}
  PROVE  MsgLog(L, E, m)
  BY DEF MsgLog

(* Quiet steps.                                                             *)
LEMMA QuietLogs ==
  ASSUME TypeInv, PromptService, NEW L, LogInv(L), NEW i \in Server,
         \/ runAsFollower(i) \/ FollowerTimeout(i) \/ FollowerResetsTimer(i)
         \/ runAsCandidate(i) \/ CandidateTimeout(i) \/ CandidateConverts(i)
         \/ LeaderConverts(i) \/ Restart(i)
         \/ \E m \in msgs : RequestVote(i, m) \/ Lose(m)
  PROVE  LogInv(L)'
<1>0. TypeRest /\ \A m \in msgs : MsgOK(m) /\ MsgLog(L, elected, m)
  BY DEF TypeInv, TypeRest, LogInv
<1>1. CASE \/ runAsFollower(i) \/ FollowerTimeout(i) \/ FollowerResetsTimer(i)
           \/ runAsCandidate(i) \/ CandidateTimeout(i) \/ CandidateConverts(i)
           \/ LeaderConverts(i)
  BY <1>0, <1>1, ServiceQuiet, QuietStep
<1>2. CASE Restart(i)
  <2>1. PICK u : Good(u) /\ Update(i, u) /\ Quiet(rf[i], u)
    BY <1>2, RestartQuiet
  <2>2. elected' = elected
    BY <1>2 DEF Restart
  <2>3. ASSUME NEW x \in msgs'
        PROVE  MsgLog(L, elected, x)
    <3>1. CASE x \in msgs
      BY <1>0, <3>1
    <3>2. CASE \E m \in msgs : isRequest(m) /\ x = Orphan(m)
      <4>1. PICK m \in msgs : isRequest(m) /\ x = Orphan(m)
        BY <3>2
      <4>2. MsgOK(m) /\ MsgLog(L, elected, m)
        BY <1>0
      <4>3. /\ x.type = m.type /\ x.from = Nil /\ x.to = m.to /\ x.Term = m.Term
            /\ m.type = "AppendEntries" =>
                  /\ x.PrevLogIndex = m.PrevLogIndex /\ x.PrevLogTerm = m.PrevLogTerm
                  /\ x.Entries = m.Entries
        BY <4>1, <4>2, OrphanFields
      <4>4. m.type = "AppendEntries" => Nil # m.to
        BY <4>2, AppendArgsFields, NilAssumption
      <4>5. x.type # "AppendEntriesReply"
        BY <4>1, <4>3 DEF isRequest
      <4> QED
        BY <4>2, <4>3, <4>4, <4>5 DEF MsgLog
    <3> QED
      BY <1>2, <3>1, <3>2, RestartMsgs
  <2> QED
    BY <2>1, <2>2, <2>3, QuietStep
<1>3. CASE \E m \in msgs : RequestVote(i, m)
  <2>1. PICK m \in msgs : RequestVote(i, m)
    BY <1>3
  <2>2. Good(Voter(i, m)) /\ Quiet(rf[i], Voter(i, m)) /\ Update(i, Voter(i, m))
    BY <2>1, VoterQuiet
  <2>3. /\ elected' = elected
        /\ \A x \in msgs' : x \in msgs \/ x = VoteAnswer(i, m)
    BY <2>1, RequestVoteEffect
  <2>4. \A x \in msgs' : MsgLog(L, elected, x)
    BY <1>0, <2>3, VotesCarryNoLog DEF VoteAnswer
  <2> QED
    BY <2>2, <2>3, <2>4, QuietStep
<1>4. CASE \E m \in msgs : Lose(m)
  BY <1>0, <1>4 DEF Lose, LogInv
<1> QED
  BY <1>1, <1>2, <1>3, <1>4

(* A new candidate has not won its term, and has no entry of it.            *)
LEMMA StartElectionLogs ==
  ASSUME TypeInv, NEW L, LogInv(L), NEW i \in Server, StartElection(i)
  PROVE  LogInv(L)'
<1> DEFINE s == rf[i]
           u == Candidate(i)
<1>0. /\ TypeRf /\ Good(s) /\ L \in Histories /\ PeerLog(L, elected, i, s)
      /\ \A m \in msgs : MsgLog(L, elected, m)
  BY DEF TypeInv, TypeRf, LogInv, Ledger
<1>1. /\ Good(u) /\ Update(i, u) /\ u.currentTerm = s.currentTerm + 1 /\ u.state = "candidate"
      /\ elected' = elected
      /\ \A m \in msgs' \ msgs : \E j \in Server : m = Ballot(i, j)
  BY <1>0, StartElectionEffect DEF NewTerm
<1>2. u.log = s.log
  <2>1. NewTerm(i) \in Nat
    BY <1>0, StartElectionEffect
  <2> QED
    BY ZenonT(60), <1>0, <2>1, ElectionObject DEF Candidate
<1>3. \A x \in msgs' : MsgLog(L, elected, x)
  <2>1. \A j \in Server : MsgLog(L, elected, Ballot(i, j))
    BY VotesCarryNoLog DEF Ballot
  <2> QED
    BY <1>0, <1>1, <2>1
<1>4. /\ s.log \in Seq(logEntry) /\ s.currentTerm \in Nat /\ u.currentTerm \in Nat
      /\ s.currentTerm < u.currentTerm
  <2>1. s.log \in Seq(logEntry) /\ s.currentTerm \in Nat
    BY <1>0, GoodFields
  <2> QED
    BY <1>1, <2>1
<1> HIDE DEF u, s
<1>5. LogOK(L, s.log, s.currentTerm)
  BY <1>0 DEF PeerLog
<1>6. \A p \in 1..Len(s.log) : s.log[p].Term < u.currentTerm
  <2> TAKE p \in 1..Len(s.log)
  <2>1. s.log[p].Term \in Nat /\ s.log[p].Term <= s.currentTerm
    BY <1>4, <1>5, EntryFields DEF LogOK
  <2> QED
    BY <1>4, <2>1
<1>7. LogOK(L, u.log, u.currentTerm)
  <2>1. \A p \in 1..Len(s.log) : s.log[p].Term <= u.currentTerm
    <3> TAKE p \in 1..Len(s.log)
    <3>1. s.log[p].Term \in Nat /\ s.log[p].Term < u.currentTerm
      BY <1>4, <1>6, EntryFields
    <3> QED
      BY <1>4, <3>1
  <2> QED
    BY <1>2, <1>5, <2>1 DEF LogOK
<1>8. \A t \in Nat : <<t, i>> \in elected => t < u.currentTerm
  <2> TAKE t \in Nat
  <2>1. <<t, i>> \in elected => t <= s.currentTerm
    BY <1>0 DEF PeerLog
  <2> QED
    BY <1>4, <2>1
<1>9. PeerLog(L, elected, i, u)
  <2>1. <<u.currentTerm, i>> \notin elected /\ \A t \in Nat : <<t, i>> \in elected => t <= u.currentTerm
    BY <1>4, <1>8
  <2> QED
    BY <1>1, <1>2, <1>6, <1>7, <2>1 DEF PeerLog, Leading
<1> QED
  BY <1>1, <1>3, <1>9, OnePeer DEF u

(* A new leader's indices start at the end of its log.                      *)
LEMMA RunAsLeaderLogs ==
  ASSUME TypeInv, RoleInv, NEW L, LogInv(L), NEW i \in Server, runAsLeader(i)
  PROVE  LogInv(L)'
<1> DEFINE s == rf[i]
           n == [j \in Server |-> getLastLogIndex(s) + 1]
           k == [j \in Server |-> 0]
           u == [s EXCEPT !.state = "leader", !.service = "leader",
                          !.nextIndex = n, !.matchIndex = k]
<1>0. /\ TypeRf /\ Good(s) /\ RoleOK(s) /\ PeerLog(L, elected, i, s)
      /\ \A m \in msgs : MsgLog(L, elected, m)
  BY DEF TypeInv, TypeRf, RoleInv, LogInv
<1>1. Update(i, u) /\ s.service = "asLeader" /\ elected' = elected /\ msgs' = msgs
  BY DEF runAsLeader, ServiceLocks
<1>2. \A j \in Server : n[j] = Len(s.log)
  BY <1>0, LogShape
<1> HIDE DEF n, k
<1>3. /\ u.currentTerm = s.currentTerm /\ u.log = s.log /\ u.nextIndex = n /\ u.state = "leader"
  BY <1>0 DEF Good, RaftObject
<1>4. s.state = "leader"
  BY <1>0, <1>1 DEF RoleOK, InLoop
<1>5. Len(s.log) \in Nat
  BY <1>0, LogShape
<1> HIDE DEF u, s
<1>6. \A j \in Server : u.nextIndex[j] <= Len(u.log)
  BY <1>2, <1>3, <1>5
<1>7. PeerLog(L, elected, i, u)
  BY <1>0, <1>3, <1>4, <1>6 DEF PeerLog, Standing, Leading
<1> QED
  BY <1>0, <1>1, <1>7, OnePeer

(* The histories once the leader of term t has log l.                       *)
Extended(L, t, l) == [L EXCEPT ![t] = l]

(* Field by field: only the history of t changes, and it grows.             *)
LEMMA ExtendedGrows ==
  ASSUME NEW L \in Histories, NEW t \in Nat, NEW l \in Seq(logEntry),
         Agree(L[t], l, Len(L[t]))
  PROVE  /\ Extended(L, t, l) \in Histories /\ Grows(L, Extended(L, t, l))
         /\ Extended(L, t, l)[t] = l
         /\ \A v \in Nat : v # t => Extended(L, t, l)[v] = L[v]
<1> DEFINE M == Extended(L, t, l)
<1>1. M \in Histories /\ M[t] = l /\ \A v \in Nat : v # t => M[v] = L[v]
  BY DEF Histories, Extended
<1> HIDE DEF M
<1>2. Grows(L, M)
  <2> SUFFICES ASSUME NEW v \in Nat PROVE Agree(L[v], M[v], Len(L[v]))
    BY DEF Grows
  <2>1. CASE v = t
    BY <1>1, <2>1
  <2>2. CASE v # t
    <3>1. M[v] = L[v] /\ Len(L[v]) \in Nat
      BY <1>1, <2>2, HistoryType
    <3> QED
      BY <3>1 DEF Agree
  <2> QED
    BY <2>1, <2>2
<1> QED
  BY <1>1, <1>2 DEF M

(* Extending the history of a winner's term.                                *)
LEMMA Extend ==
  ASSUME NEW L, NEW E, Ledger(L, E), NEW t \in Nat \ {0}, NEW l \in Seq(logEntry),
         Agree(L[t], l, Len(L[t])), Indexed(l), LogOK(Extended(L, t, l), l, t),
         NEW i \in Server
  PROVE  Ledger(Extended(L, t, l), E \cup {<<t, i>>})
<1> DEFINE M == Extended(L, t, l)
           F == E \cup {<<t, i>>}
<1>0. L \in Histories /\ t \in Nat
  BY DEF Ledger
<1>1. M \in Histories /\ Grows(L, M) /\ M[t] = l /\ \A v \in Nat : v # t => M[v] = L[v]
  BY <1>0, ExtendedGrows
<1>2. LogOK(M, l, t)
  OBVIOUS
<1>3. l # <<>>
  BY DEF Indexed
<1> HIDE DEF M
<1>4. M[0] = <<zeroEntry>>
  <2>1. 0 \in Nat /\ 0 # t
    OBVIOUS
  <2> QED
    BY <1>1, <2>1 DEF Ledger
<1>5. ASSUME NEW v \in Nat
      PROVE  LogOK(M, M[v], v) /\ (M[v] # <<>> => Indexed(M[v]))
  <2>1. CASE v = t
    BY <1>1, <1>2, <2>1
  <2>2. CASE v # t
    <3>1. M[v] = L[v] /\ L[v] \in Seq(logEntry) /\ LogOK(L, L[v], v)
      BY <1>0, <1>1, <2>2, HistoryType DEF Ledger
    <3>2. v <= v
      OBVIOUS
    <3>3. LogOK(M, L[v], v)
      BY <1>0, <1>1, <3>1, <3>2, LogOKGrows
    <3> QED
      BY <3>1, <3>3 DEF Ledger
  <2> QED
    BY <2>1, <2>2
<1>6. ASSUME NEW v \in Nat \ {0}
      PROVE  M[v] # <<>> <=> \E j \in Server : <<v, j>> \in F
  <2>1. CASE v = t
    BY <1>1, <1>3, <2>1
  <2>2. CASE v # t
    <3>1. M[v] = L[v]
      BY <1>1, <2>2
    <3>2. \A j \in Server : <<v, j>> \in F <=> <<v, j>> \in E
      BY <2>2
    <3>3. L[v] # <<>> <=> \E j \in Server : <<v, j>> \in E
      BY DEF Ledger
    <3> QED
      BY <3>1, <3>2, <3>3
  <2> QED
    BY <2>1, <2>2
<1>7. \A e \in F : e[1] > 0
  <2>1. <<t, i>>[1] > 0
    OBVIOUS
  <2> QED
    BY <2>1 DEF Ledger
<1> QED
  BY <1>1, <1>4, <1>5, <1>6, <1>7 DEF Ledger, M

(* The winner of a term brings the history of it.                           *)
LEMMA VoteReplyLogs ==
  ASSUME TypeInv, VoteInv, RoleInv, PromptService, OneWinnerPerTerm', NEW L, LogInv(L),
         NEW i \in Server, NEW m \in msgs, VoteReply(i, m)
  PROVE  \/ LogInv(L)' /\ elected' = elected
         \/ /\ Standing(rf[i]) /\ L[rf[i].currentTerm] = <<>>
            /\ elected' = elected \cup {<<rf[i].currentTerm, i>>}
            /\ \E M : M = Extended(L, rf[i].currentTerm, rf[i].log) /\ LogInv(M)'
<1> DEFINE s == rf[i]
           T == s.currentTerm
<1>p. PICK M : M = Extended(L, T, s.log)
  OBVIOUS
<1>0. /\ TypeRf /\ Good(s) /\ Ledger(L, elected) /\ L \in Histories
      /\ \A j \in Server : PeerLog(L, elected, j, rf[j]) /\ Good(rf[j])
      /\ \A x \in msgs : MsgLog(L, elected, x) /\ MsgOK(x)
  BY DEF TypeInv, TypeRf, TypeRest, LogInv, Ledger
<1>1. PICK u :
        /\ Good(u) /\ Update(i, u) /\ SameLog(s, u) /\ msgs' \subseteq msgs
        /\ \/ Quiet(s, u) /\ elected' = elected
           \/ /\ Standing(s) /\ u.currentTerm = T
              /\ u.state = "leader" /\ u.service = "candidate"
              /\ m.argsTerm = T
              /\ elected' = elected \cup {<<T, i>>}
  BY VoteReplyCases
<1>2. CASE Quiet(s, u) /\ elected' = elected
  <2>1. \A x \in msgs' : MsgLog(L, elected, x)
    BY <1>0, <1>1
  <2> QED
    BY <1>1, <1>2, <2>1, QuietStep
<1>3. CASE /\ Standing(s) /\ u.currentTerm = T
           /\ u.state = "leader" /\ u.service = "candidate"
           /\ m.argsTerm = T
           /\ elected' = elected \cup {<<T, i>>}
  <2> DEFINE F == elected \cup {<<T, i>>}
  <2>0. elected' = F
    BY <1>3
  <2>1. T \in Nat \ {0} /\ s.log \in Seq(logEntry) /\ Indexed(s.log)
    <3>1. T > 0
      BY <1>3 DEF VoteInv, Replies, VoteReply
    <3>2. T \in Nat /\ s.log \in Seq(logEntry)
      BY <1>0, GoodFields
    <3> QED
      BY <1>0, <3>1, <3>2 DEF Good
  <2>2. \A j \in Server : <<T, j>> \notin elected
    <3> SUFFICES ASSUME NEW j \in Server, <<T, j>> \in elected PROVE FALSE
      OBVIOUS
    <3>2. <<T, j>> \in elected' /\ <<T, i>> \in elected'
      BY <1>3
    <3>3. j = i
      BY <3>2 DEF OneWinnerPerTerm
    <3>4. <<T, i>> \notin elected
      BY <1>0, <1>3 DEF PeerLog
    <3> QED
      BY <3>3, <3>4
  <2>3. L[T] = <<>>
    BY <2>1, <2>2, <1>0 DEF Ledger
  <2> HIDE DEF T, s
  <2>4. Agree(L[T], s.log, Len(L[T]))
    <3>1. Len(L[T]) = 0 /\ 1..0 = {} /\ Len(s.log) \in Nat
      BY <2>1, <2>3
    <3> QED
      BY <2>1, <3>1 DEF Agree
  <2>5. /\ M \in Histories /\ Grows(L, M) /\ M[T] = s.log
        /\ \A v \in Nat : v # T => M[v] = L[v]
    BY <1>0, <1>p, <2>1, <2>4, ExtendedGrows
  <2>6. LogOK(M, s.log, T)
    <3>0. PeerLog(L, elected, i, s) /\ T <= T /\ T \in Nat /\ L \in Histories
      BY <1>0, <2>1 DEF s
    <3>1. LogOK(L, s.log, T)
      BY <3>0 DEF PeerLog, T
    <3>2. M \in Histories /\ Grows(L, M) /\ s.log \in Seq(logEntry)
      BY <2>1, <2>5
    <3> QED
      BY <3>0, <3>1, <3>2, LogOKGrows
  <2>7. Ledger(M, F)
    BY <1>0, <1>p, <2>1, <2>4, <2>6, Extend
  <2> HIDE DEF F
  <2>8. rf'[i] = u /\ \A j \in Server : j # i => rf'[j] = rf[j]
    BY <1>0, <1>1 DEF TypeRf, Update
  <2>9. u.log = s.log /\ u.currentTerm = T /\ u.state = "leader" /\ ~Standing(u) /\ ~Leading(u)
    BY <1>1, <1>3 DEF SameLog, Standing, Leading
  <2>10. ASSUME NEW t \in Nat, NEW j \in Server, <<t, j>> \in F
         PROVE  t <= rf[j].currentTerm
    <3>1. CASE <<t, j>> \in elected
      BY <1>0, <3>1 DEF PeerLog
    <3>2. CASE <<t, j>> = <<T, i>>
      BY <2>1, <3>2 DEF T, s
    <3> QED
      BY <2>10, <3>1, <3>2 DEF F
  <2>11. PeerLog(M, F, i, u)
    <3>1. \A t \in Nat : <<t, i>> \in F => t <= u.currentTerm
      BY <2>9, <2>10 DEF T, s
    <3> QED
      BY <2>5, <2>6, <2>9, <3>1 DEF PeerLog
  <2>12. ASSUME NEW j \in Server, j # i
         PROVE  PeerLog(M, F, j, rf[j])
    <3>1. rf[j].state = "leader" => M[rf[j].currentTerm] = L[rf[j].currentTerm]
      <4>1. rf[j].state = "leader" => <<rf[j].currentTerm, j>> \in elected
        BY DEF RoleInv, Won
      <4>2. rf[j].currentTerm \in Nat
        BY <1>0, GoodFields
      <4> QED
        BY <2>2, <2>5, <4>1, <4>2
    <3>2. Standing(rf[j]) => <<rf[j].currentTerm, j>> \notin F
      BY <1>0, <2>12 DEF PeerLog, F
    <3>3. \A t \in Nat : <<t, j>> \in F => t <= rf[j].currentTerm
      BY <2>10
    <3>4. Good(rf[j]) /\ PeerLog(L, elected, j, rf[j])
      BY <1>0
    <3> QED
      BY <1>0, <2>5, <3>1, <3>2, <3>3, <3>4, PeerLogGrows
  <2>13. \A x \in msgs' : MsgLog(M, F, x)
    <3> TAKE x \in msgs'
    <3>1. MsgOK(x) /\ MsgLog(L, elected, x)
      BY <1>0, <1>1
    <3>2. elected \subseteq F
      BY DEF F
    <3> QED
      BY <1>0, <2>5, <3>1, <3>2, MsgLogGrows
  <2>14. LogInv(M)'
    BY <2>0, <2>7, <2>8, <2>11, <2>12, <2>13 DEF LogInv
  <2> QED
    BY <1>3, <1>p, <2>3, <2>14 DEF T, s
<1> QED
  BY <1>1, <1>2, <1>3

(* A log to which its leader appends an entry of its own term.              *)
LEMMA AppendOK ==
  ASSUME NEW L \in Histories, NEW t \in Nat, NEW l \in Seq(logEntry), L[t] = l,
         LogOK(L, l, t), Len(l) > 0, NEW e \in logEntry, e.Term = t
  PROVE  /\ Append(l, e) \in Seq(logEntry) /\ Len(Append(l, e)) = Len(l) + 1
         /\ Agree(l, Append(l, e), Len(l)) /\ Append(l, e)[Len(l) + 1] = e
         /\ LogOK(Extended(L, t, Append(l, e)), Append(l, e), t)
<1> DEFINE a == Append(l, e)
           M == Extended(L, t, a)
<1>1. /\ a \in Seq(logEntry) /\ Len(a) = Len(l) + 1 /\ Len(l) \in Nat
      /\ \A k \in 1..Len(l) : a[k] = l[k]
      /\ a[Len(l) + 1] = e
  OBVIOUS
<1> HIDE DEF a
<1>2. Agree(l, a, Len(l))
  BY <1>1 DEF Agree
<1>3. M \in Histories /\ Grows(L, M) /\ M[t] = a
  BY <1>1, <1>2, ExtendedGrows
<1> HIDE DEF M
<1>4. LogOK(M, l, t)
  <2>1. t <= t
    OBVIOUS
  <2> QED
    BY <1>3, <2>1, LogOKGrows
<1>5. ASSUME NEW p \in 1..Len(a)
      PROVE  Agree(a, M[a[p].Term], p) /\ a[p].Term <= t /\ a[p].Term \in Nat
  <2>1. CASE p = Len(l) + 1
    <3>1. M[a[p].Term] = a /\ a[p].Term = t
      BY <1>1, <1>3, <2>1
    <3>2. Agree(a, a, p)
      BY <1>1 DEF Agree
    <3>3. t <= t /\ t \in Nat
      OBVIOUS
    <3> QED
      BY <3>1, <3>2, <3>3
  <2>2. CASE p \in 1..Len(l)
    <3>1. a[p] = l[p] /\ p \in Nat /\ p <= Len(l)
      BY <1>1, <2>2
    <3>2. Agree(l, M[l[p].Term], p) /\ l[p].Term <= t
      BY <1>4, <2>2 DEF LogOK, Copied
    <3>3. l[p].Term \in Nat /\ M[l[p].Term] \in Seq(logEntry)
      BY <1>3, <2>2, EntryFields, HistoryType
    <3>4. Agree(l, a, Len(l)) /\ Len(l) \in Nat
      BY <1>1, <1>2
    <3>5. Agree(a, M[l[p].Term], p)
      BY <1>1, <3>1, <3>2, <3>3, <3>4, AgreeFacts
    <3> QED
      BY <3>1, <3>2, <3>3, <3>5
  <2> QED
    BY <1>1, <2>1, <2>2
<1>6. Ordered(a)
  <2> SUFFICES ASSUME NEW p \in 1..Len(a), NEW q \in 1..Len(a), p <= q
               PROVE  a[p].Term <= a[q].Term
    BY DEF Ordered
  <2>1. CASE q = Len(l) + 1
    <3>1. a[q].Term = t
      BY <1>1, <2>1
    <3> QED
      BY <1>5, <3>1
  <2>2. CASE q # Len(l) + 1
    <3>1. p \in 1..Len(l) /\ q \in 1..Len(l)
      BY <1>1, <2>2
    <3>2. a[p] = l[p] /\ a[q] = l[q]
      BY <1>1, <3>1
    <3> QED
      BY <3>1, <3>2 DEF LogOK, Ordered
  <2> QED
    BY <2>1, <2>2
<1>7. a[1] = zeroEntry
  <2>1. 1 \in 1..Len(l)
    BY <1>1
  <2> QED
    BY <1>1, <2>1 DEF LogOK
<1> QED
  BY <1>1, <1>2, <1>5, <1>6, <1>7 DEF LogOK, Copied, a, M

(* What Start makes of the leader.                                          *)
Started(s, command) ==
  Append(s.log, [Term |-> s.currentTerm, Index |-> getLastLogIndex(s) + 1, Command |-> command])

(* The effect of Start on the log.                                          *)
LEMMA StartLog ==
  ASSUME TypeInv, NEW i \in Server, NEW command \in Command, Start(i, command)
  PROVE  LET s == rf[i]
             l == Started(s, command)
             e == [Term |-> s.currentTerm, Index |-> getLastLogIndex(s) + 1, Command |-> command]
         IN  /\ e \in logEntry /\ e.Term = s.currentTerm
             /\ \E u : /\ Good(u) /\ Update(i, u) /\ SameRole(s, u) /\ u.log = l
                       /\ u.commitIndex = s.commitIndex /\ u.nextIndex = s.nextIndex
                       /\ u.matchIndex = s.matchIndex
<1> DEFINE s == rf[i]
           l == Started(s, command)
           e == [Term |-> s.currentTerm, Index |-> getLastLogIndex(s) + 1, Command |-> command]
           p == [s EXCEPT !.log = l]
<1>1. Good(s) /\ s.currentTerm \in Nat /\ getLastLogIndex(s) + 1 \in Nat /\ s.log \in Seq(logEntry)
  <2>1. Good(s)
    BY DEF TypeInv, TypeRf
  <2> QED
    BY <2>1, GoodFields, LogShape
<1>2. e \in logEntry /\ e.Term = s.currentTerm
  BY <1>1 DEF logEntry
<1>3. l \in Seq(logEntry)
  BY <1>1, <1>2 DEF Started
<1>4. Update(i, persist(p))
  BY DEF Start, Started
<1>5. PICK u : /\ Good(u) /\ Update(i, u) /\ SameRole(s, u)
  BY StartEffect DEF SameRole
<1>6. u = persist(p)
  <2>1. rf'[i] = u /\ rf'[i] = persist(p)
    BY <1>4, <1>5 DEF TypeInv, TypeRf, Update
  <2> QED
    BY <2>1
<1> HIDE DEF l, e
<1>7. /\ persist(p).log = l /\ persist(p).commitIndex = s.commitIndex
      /\ persist(p).nextIndex = s.nextIndex /\ persist(p).matchIndex = s.matchIndex
  BY <1>1, <1>3 DEF persist, Good, RaftObject
<1> QED
  BY <1>2, <1>5, <1>6, <1>7 DEF e, l

(* A leader that appends extends the history of its term; nobody else leads *)
(* that term.                                                               *)
LEMMA StartLogs ==
  ASSUME TypeInv, RoleInv, OneWinnerPerTerm, NEW L, LogInv(L),
         NEW i \in Server, NEW command \in Command, Start(i, command)
  PROVE  \E M : M = Extended(L, rf[i].currentTerm, Started(rf[i], command)) /\ LogInv(M)'
<1> DEFINE s == rf[i]
           T == s.currentTerm
           l == Started(s, command)
<1>p. PICK M : M = Extended(L, T, l)
  OBVIOUS
<1>0. /\ TypeRf /\ Good(s) /\ Ledger(L, elected) /\ L \in Histories
      /\ \A j \in Server : PeerLog(L, elected, j, rf[j]) /\ Good(rf[j])
      /\ \A x \in msgs : MsgLog(L, elected, x) /\ MsgOK(x)
  BY DEF TypeInv, TypeRf, TypeRest, LogInv, Ledger
<1>1. s.state = "leader" /\ elected' = elected /\ msgs' = msgs
  BY DEF Start
<1>2. <<T, i>> \in elected /\ PeerLog(L, elected, i, s)
  BY <1>0, <1>1 DEF RoleInv, Won
<1>3. PICK u : /\ Good(u) /\ Update(i, u) /\ SameRole(s, u) /\ u.log = l
               /\ u.nextIndex = s.nextIndex
  BY StartLog
<1> DEFINE e == [Term |-> s.currentTerm, Index |-> getLastLogIndex(s) + 1, Command |-> command]
<1>4. e \in logEntry /\ e.Term = T
  BY StartLog
<1>5. l = Append(s.log, e)
  BY DEF Started
<1>6. s.log \in Seq(logEntry) /\ T \in Nat /\ Len(s.log) \in Nat /\ Len(s.log) > 0
  <2>1. Len(s.log) \in Nat \ {0}
    BY <1>0, LogShape
  <2> QED
    BY <1>0, <2>1, GoodFields
<1>7. L[T] = s.log /\ LogOK(L, s.log, T)
  BY <1>1, <1>2 DEF PeerLog
<1>8. Indexed(l)
  <2>1. rf'[i] = u
    BY <1>0, <1>3 DEF TypeRf, Update
  <2> QED
    BY <1>3 DEF Good
<1> HIDE DEF s, T, l, e
<1>9. /\ l \in Seq(logEntry) /\ Len(l) = Len(s.log) + 1 /\ Agree(s.log, l, Len(s.log))
      /\ LogOK(M, l, T)
  BY <1>0, <1>p, <1>4, <1>5, <1>6, <1>7, AppendOK
<1>10. /\ M \in Histories /\ Grows(L, M) /\ M[T] = l
       /\ \A v \in Nat : v # T => M[v] = L[v]
  BY <1>0, <1>p, <1>6, <1>7, <1>9, ExtendedGrows
<1>11. T \in Nat \ {0}
  <2>1. T > 0
    BY <1>0, <1>2, <1>6, LedgerFacts
  <2> QED
    BY <1>6, <2>1
<1>12. Ledger(M, elected)
  <2>1. elected \cup {<<T, i>>} = elected
    BY <1>2
  <2>2. Ledger(M, elected \cup {<<T, i>>})
    BY <1>0, <1>p, <1>7, <1>8, <1>9, <1>11, Extend
  <2> QED
    BY <2>1, <2>2
<1>13. u.currentTerm = T /\ u.state = "leader" /\ u.service = s.service /\ s.nextIndex \in [Server -> Nat]
  BY <1>0, <1>1, <1>3, GoodFields DEF SameRole, T, s
<1>14. PeerLog(M, elected, i, u)
  <2>1. Leading(u) => \A j \in Server : u.nextIndex[j] <= Len(u.log)
    <3> SUFFICES ASSUME Leading(u), NEW j \in Server PROVE s.nextIndex[j] <= Len(l)
      BY <1>3
    <3>1. Leading(s)
      BY <1>1, <1>13 DEF Leading, s
    <3>2. s.nextIndex[j] <= Len(s.log) /\ s.nextIndex[j] \in Nat
      BY <1>2, <1>13, <3>1 DEF PeerLog
    <3> QED
      BY <1>6, <1>9, <3>2
  <2>2. \A t \in Nat : <<t, i>> \in elected => t <= u.currentTerm
    BY <1>2, <1>13 DEF PeerLog, T
  <2>3. ~Standing(u)
    BY <1>13 DEF Standing
  <2> QED
    BY <1>3, <1>9, <1>10, <1>13, <2>1, <2>2, <2>3 DEF PeerLog
<1>15. ASSUME NEW j \in Server, j # i
       PROVE  PeerLog(M, elected, j, rf[j])
  <2>1. rf[j].state = "leader" => M[rf[j].currentTerm] = L[rf[j].currentTerm]
    <3>1. rf[j].state = "leader" => <<rf[j].currentTerm, j>> \in elected
      BY DEF RoleInv, Won
    <3>2. rf[j].currentTerm \in Nat
      BY <1>0, GoodFields
    <3>3. <<rf[j].currentTerm, j>> \in elected => rf[j].currentTerm # T
      BY <1>2, <1>15 DEF OneWinnerPerTerm
    <3> QED
      BY <1>10, <3>1, <3>2, <3>3
  <2>2. /\ Standing(rf[j]) => <<rf[j].currentTerm, j>> \notin elected
        /\ \A t \in Nat : <<t, j>> \in elected => t <= rf[j].currentTerm
    BY <1>0 DEF PeerLog
  <2>3. Good(rf[j]) /\ PeerLog(L, elected, j, rf[j])
    BY <1>0
  <2> QED
    BY <1>0, <1>10, <2>1, <2>2, <2>3, PeerLogGrows
<1>16. \A x \in msgs' : MsgLog(M, elected, x)
  <2> TAKE x \in msgs'
  <2>1. MsgOK(x) /\ MsgLog(L, elected, x) /\ elected \subseteq elected
    BY <1>0, <1>1
  <2> QED
    BY <1>0, <1>10, <2>1, MsgLogGrows
<1>17. rf'[i] = u /\ \A j \in Server : j # i => rf'[j] = rf[j]
  BY <1>0, <1>3 DEF TypeRf, Update
<1>18. LogInv(M)'
  BY <1>1, <1>12, <1>14, <1>15, <1>16, <1>17 DEF LogInv
<1> QED
  BY <1>p, <1>18 DEF T, l, s

(* a is a call AppendEntries of i, whose object is s, to j: the rest of s.log. *)
Piece(s, i, j, a) ==
  /\ a.type = "AppendEntries" /\ a.to = j /\ a.from = i
  /\ a.Term = s.currentTerm /\ a.LeaderCommit = s.commitIndex
  /\ a.PrevLogIndex \in Nat /\ a.PrevLogIndex < Len(s.log)
  /\ a.PrevLogTerm = IF a.PrevLogIndex = 0 THEN 0 ELSE s.log[a.PrevLogIndex + 1].Term
  /\ a.Entries \in Seq(logEntry)
  /\ a.PrevLogIndex + 1 + Len(a.Entries) = Len(s.log)
  /\ \A k \in 1..Len(a.Entries) : a.Entries[k] = s.log[a.PrevLogIndex + 1 + k]

(* What the ticker sends: the leader's log from some entry on.              *)
LEMMA SendEffect ==
  ASSUME TypeInv, NEW i \in Server, NEW j \in Server, sendAppendEntriesTo(i, j)
  PROVE  /\ i # j /\ CanLock(i) /\ rf[i].state = "leader"
         /\ UNCHANGED <<rf, votes, elected, applied>>
         /\ \E a : msgs' = msgs \cup {a} /\ Piece(rf[i], i, j, a)
<1> DEFINE s == rf[i]
           prev == s.nextIndex[j] - 1
           pt == IF prev = 0 THEN 0 ELSE getLogEntry(s, prev).Term
           es == IF getLastLogIndex(s) >= s.nextIndex[j]
                 THEN getEntryFrom(s, prev + 1) ELSE <<>>
           a == [type |-> "AppendEntries", to |-> j, from |-> i, Term |-> s.currentTerm,
                 PrevLogIndex |-> prev, PrevLogTerm |-> pt, Entries |-> es,
                 LeaderCommit |-> s.commitIndex]
<1>1. Good(s)
  BY DEF TypeInv, TypeRf
<1>2. s.nextIndex[j] \in Nat
  BY <1>1, GoodFields
<1>3. /\ i # j /\ CanLock(i) /\ s.state = "leader" /\ s.nextIndex[j] > 0 /\ ~needsSnapshot(s, j)
      /\ msgs' = msgs \cup {a}
      /\ UNCHANGED <<rf, votes, elected, applied>>
  BY DEF sendAppendEntriesTo
<1>4. prev \in Nat /\ s.nextIndex[j] = prev + 1
  BY <1>2, <1>3
<1>5. prev = 0 \/ hasLogEntry(s, prev)
  BY <1>3 DEF needsSnapshot
<1> HIDE DEF prev
<1>6. /\ s.log \in Seq(logEntry) /\ Len(s.log) \in Nat \ {0} /\ s.log[1].Index = 0
      /\ getLastLogIndex(s) = Len(s.log) - 1
      /\ hasLogEntry(s, prev) <=> prev < Len(s.log)
      /\ getLogEntry(s, prev) = IF prev < Len(s.log) THEN s.log[prev + 1] ELSE zeroEntry
  BY <1>1, <1>4, GoodFields, LogShape
<1>7. prev < Len(s.log)
  BY <1>4, <1>5, <1>6
<1>8. pt = IF prev = 0 THEN 0 ELSE s.log[prev + 1].Term
  BY <1>6, <1>7
<1>9. /\ es \in Seq(logEntry) /\ prev + 1 + Len(es) = Len(s.log)
      /\ \A k \in 1..Len(es) : es[k] = s.log[prev + 1 + k]
  <2>1. CASE getLastLogIndex(s) >= s.nextIndex[j]
    <3> DEFINE lo == prev + 2
               hi == Len(s.log)
               lg == s.log
    <3>1. es = SubSeq(lg, lo, hi)
      <4>1. (prev + 1) - s.log[1].Index + 1 = prev + 2
        BY <1>4, <1>6
      <4> QED
        BY <2>1, <4>1 DEF getEntryFrom
    <3>2. /\ lg \in Seq(logEntry) /\ lo \in Nat \ {0} /\ hi \in Nat
          /\ lo <= hi + 1 /\ hi <= Len(lg) /\ hi = Len(lg) /\ lo = prev + 2
      BY <1>4, <1>6, <2>1
    <3> HIDE DEF lo, hi, es
    <3>3. /\ es \in Seq(logEntry) /\ Len(es) = hi - lo + 1
          /\ \A k \in 1..(hi - lo + 1) : es[k] = lg[lo + k - 1]
      BY SMTT(30), <3>1, <3>2, Slice
    <3> HIDE DEF lg
    <3>4. prev + 1 + Len(es) = Len(lg)
      BY <1>4, <3>2, <3>3
    <3>5. ASSUME NEW k \in 1..Len(es)
          PROVE  es[k] = lg[prev + 1 + k]
      <4>1. lo + k - 1 = prev + 1 + k /\ k \in 1..(hi - lo + 1)
        BY <1>4, <3>2, <3>3
      <4> QED
        BY <3>3, <4>1
    <3> QED
      BY <3>3, <3>4, <3>5 DEF lg
  <2>2. CASE ~(getLastLogIndex(s) >= s.nextIndex[j])
    <3>1. es = <<>>
      BY <2>2
    <3> HIDE DEF es
    <3>2. Len(es) = 0 /\ es \in Seq(logEntry) /\ 1..Len(es) = {}
      BY <3>1
    <3>3. prev + 1 + 0 = Len(s.log)
      BY <1>4, <1>6, <1>7, <2>2
    <3> QED
      BY <3>2, <3>3
  <2> QED
    BY <2>1, <2>2
<1> HIDE DEF pt, es, s
<1>10. /\ a.type = "AppendEntries" /\ a.to = j /\ a.from = i /\ a.Term = s.currentTerm
       /\ a.LeaderCommit = s.commitIndex /\ a.PrevLogIndex = prev /\ a.PrevLogTerm = pt
       /\ a.Entries = es
  OBVIOUS
<1> HIDE DEF a
<1>11. /\ a.PrevLogIndex \in Nat /\ a.PrevLogIndex < Len(s.log)
       /\ a.PrevLogTerm = IF a.PrevLogIndex = 0 THEN 0 ELSE s.log[a.PrevLogIndex + 1].Term
       /\ a.Entries \in Seq(logEntry)
       /\ a.PrevLogIndex + 1 + Len(a.Entries) = Len(s.log)
       /\ \A k \in 1..Len(a.Entries) : a.Entries[k] = s.log[a.PrevLogIndex + 1 + k]
  BY <1>4, <1>7, <1>8, <1>9, <1>10
<1>12. Piece(rf[i], i, j, a)
  BY <1>10, <1>11 DEF s, Piece
<1> HIDE DEF a
<1> QED
  BY <1>3, <1>12 DEF s

(* What the ticker sends is a piece of the history of its term.             *)
LEMMA SendLogs ==
  ASSUME TypeInv, RoleInv, NEW L, LogInv(L), NEW i \in Server, NEW j \in Server,
         sendAppendEntriesTo(i, j)
  PROVE  LogInv(L)'
<1> DEFINE s == rf[i]
<1>0. /\ Good(s) /\ Ledger(L, elected) /\ PeerLog(L, elected, i, s)
      /\ \A x \in msgs : MsgLog(L, elected, x)
  BY DEF TypeInv, TypeRf, LogInv
<1>1. /\ i # j /\ s.state = "leader" /\ UNCHANGED <<rf, elected>>
      /\ \E a : msgs' = msgs \cup {a} /\ Piece(s, i, j, a)
  BY SendEffect
<1>1a. PICK a : msgs' = msgs \cup {a} /\ Piece(s, i, j, a)
  BY <1>1
<1>2. /\ msgs' = msgs \cup {a}
      /\ a.type = "AppendEntries" /\ a.to = j /\ a.from = i
      /\ a.Term = s.currentTerm
      /\ a.PrevLogIndex \in Nat /\ a.PrevLogIndex < Len(s.log)
      /\ a.PrevLogTerm = IF a.PrevLogIndex = 0 THEN 0
                         ELSE s.log[a.PrevLogIndex + 1].Term
      /\ a.Entries \in Seq(logEntry)
      /\ a.PrevLogIndex + 1 + Len(a.Entries) <= Len(s.log)
      /\ \A k \in 1..Len(a.Entries) : a.Entries[k] = s.log[a.PrevLogIndex + 1 + k]
  BY <1>1a DEF Piece
<1>3. <<s.currentTerm, i>> \in elected
  BY <1>1 DEF RoleInv, Won
<1> HIDE DEF s
<1>4. s.log = L[a.Term]
  BY <1>0, <1>1, <1>2 DEF PeerLog
<1>5. a.PrevLogTerm = s.log[a.PrevLogIndex + 1].Term
  <2>1. CASE a.PrevLogIndex = 0
    <3>1. Len(s.log) > 0 /\ a.PrevLogIndex + 1 = 1
      BY <1>2, <2>1
    <3>2. s.log[1] = zeroEntry
      BY <1>0, <3>1 DEF PeerLog, LogOK
    <3> QED
      BY <1>2, <2>1, <3>1, <3>2 DEF zeroEntry
  <2>2. CASE a.PrevLogIndex # 0
    BY <1>2, <2>2
  <2> QED
    BY <2>1, <2>2
<1>6. MsgLog(L, elected, a)
  BY <1>1, <1>2, <1>3, <1>4, <1>5 DEF MsgLog
<1> QED
  BY <1>0, <1>1, <1>2, <1>6 DEF LogInv

-----------------------------------------------------------------------------
(* AppendEntries, in detail.                                                *)

(* What a peer with log l delivers in term t when its commit index is n.    *)
Delivery(t, l, n) == {[term |-> t, entry |-> l[k + 1]] : k \in {x \in 1..n : x < Len(l)}}

(* applyLogToStateMachine moves lastApplied and delivers committed entries. *)
LEMMA ApplyFields ==
  ASSUME NEW c, Good(c)
  PROVE  /\ SameLog(c, applyLogToStateMachine(c))
         /\ toApply(c) \subseteq Delivery(c.currentTerm, c.log, c.commitIndex)
<1>1. c.lastApplied \in Nat /\ c.commitIndex \in Nat
  BY GoodFields
<1> DEFINE n == IF c.commitIndex > c.lastApplied THEN c.commitIndex ELSE c.lastApplied
<1>2. applyLogToStateMachine(c) = [c EXCEPT !.lastApplied = n]
  BY DEF applyLogToStateMachine
<1> HIDE DEF n
<1>3. SameLog(c, applyLogToStateMachine(c))
  BY <1>2 DEF SameLog, Good, RaftObject
<1>4. ASSUME NEW k \in (c.lastApplied + 1)..c.commitIndex, hasLogEntry(c, k)
      PROVE  /\ k \in 1..c.commitIndex /\ k < Len(c.log)
             /\ getLogEntry(c, k) = c.log[k + 1]
  <2>1. k \in Nat /\ k \in 1..c.commitIndex
    BY <1>1
  <2> QED
    BY <1>4, <2>1, LogShape
<1>5. toApply(c) \subseteq Delivery(c.currentTerm, c.log, c.commitIndex)
  BY <1>4 DEF toApply, Delivery
<1> QED
  BY <1>3, <1>5

(* A follower's commit index moves to the leader's, but not beyond the last *)
(* entry received.                                                          *)
LEMMA AdvanceFields ==
  ASSUME NEW s, Good(s), NEW m, MsgOK(m), m.type = "AppendEntries"
  PROVE  LET u == advanceCommit(s, m)
         IN  /\ u.log = s.log
             /\ \/ u = s
                \/ /\ u.commitIndex <= m.LeaderCommit
                   /\ u.commitIndex <= m.PrevLogIndex + Len(m.Entries)
                   /\ \/ u.commitIndex > s.commitIndex
                      \/ m.LeaderCommit > m.PrevLogIndex + Len(m.Entries)
<1> DEFINE lastNew == IF m.Entries = <<>> THEN m.PrevLogIndex
                      ELSE m.Entries[Len(m.Entries)].Index
           n == IF m.LeaderCommit > lastNew THEN lastNew ELSE m.LeaderCommit
           q == [s EXCEPT !.commitIndex = n]
<1>1. /\ m.PrevLogIndex \in Nat /\ m.Entries \in Seq(logEntry) /\ m.LeaderCommit \in Nat
      /\ \A k \in 1..Len(m.Entries) : m.Entries[k].Index = m.PrevLogIndex + k
  BY AppendArgsFields
<1>2. lastNew = m.PrevLogIndex + Len(m.Entries) /\ Len(m.Entries) \in Nat
  <2>1. CASE m.Entries = <<>>
    BY <1>1, <2>1
  <2>2. CASE m.Entries # <<>>
    <3>1. Len(m.Entries) \in 1..Len(m.Entries)
      BY <1>1, <2>2
    <3> QED
      BY <1>1, <2>2, <3>1
  <2> QED
    BY <2>1, <2>2
<1>2a. s.commitIndex \in Nat
  BY GoodFields
<1>3. \/ advanceCommit(s, m) = s
      \/ advanceCommit(s, m) = q /\ ~(m.LeaderCommit <= s.commitIndex)
  BY DEF advanceCommit
<1> HIDE DEF lastNew
<1>4. /\ n <= m.LeaderCommit /\ n <= m.PrevLogIndex + Len(m.Entries)
      /\ n = m.LeaderCommit \/ m.LeaderCommit > m.PrevLogIndex + Len(m.Entries)
  BY <1>1, <1>2
<1> HIDE DEF n
<1>5. q.log = s.log /\ q.commitIndex = n
  BY DEF Good, RaftObject
<1> HIDE DEF q
<1> QED
  BY <1>1, <1>2a, <1>3, <1>4, <1>5

(* Following a leader is a quiet step, after which a settled peer is a      *)
(* follower unless it leads.                                                *)
LEMMA FollowQuiet ==
  ASSUME NEW s, Good(s), s.convertState # Nil => s.state = "follower"
  PROVE  LET t == followLeader(s)
         IN  /\ Good(t) /\ Quiet(s, t) /\ SameLog(s, t) /\ t.currentTerm = s.currentTerm
             /\ t.state = "follower" \/ (t.state = "leader" /\ s.state = "leader")
<1> DEFINE t == followLeader(s)
<1>1. /\ Good(t) /\ Untouched(s, t)
      /\ t.state = IF s.state \in {"follower", "candidate"} /\ s.convertState = Nil
                   THEN "follower" ELSE s.state
  BY Follow
<1>2. s.state \in {"follower", "candidate", "leader"} /\ s.currentTerm \in Nat
  BY GoodFields
<1> HIDE DEF t
<1>3. t.state = "follower" \/ (t.state = "leader" /\ s.state = "leader")
  BY <1>1, <1>2
<1>4. SameLog(s, t) /\ t.currentTerm = s.currentTerm /\ t.service = s.service
  BY <1>1 DEF Untouched, SameLog
<1>5. Quiet(s, t)
  BY <1>2, <1>3, <1>4 DEF Quiet, SameLog, Standing, Leading
<1> QED
  BY <1>1, <1>3, <1>4, <1>5 DEF t

(* The first index of a term is not beyond any index of that term.          *)
LEMMA FirstTermBound ==
  ASSUME NEW s, Good(s), NEW n \in Nat, n < Len(s.log)
  PROVE  getIndexOfLogEntryFirstTerm(s, s.log[n + 1].Term) <= n
<1> DEFINE t == s.log[n + 1].Term
           found == {k \in 1..Len(s.log) : s.log[k].Term = t}
<1>1. /\ s.log \in Seq(logEntry) /\ Len(s.log) \in Nat
      /\ \A k \in 1..Len(s.log) : s.log[k].Index = k - 1
  BY GoodFields DEF Good, Indexed
<1>2. n + 1 \in found /\ found \in SUBSET Nat
  BY <1>1
<1>3. getIndexOfLogEntryFirstTerm(s, t) = s.log[Min(found)].Index
  BY <1>2 DEF getIndexOfLogEntryFirstTerm
<1>4. Min(found) \in found /\ Min(found) <= n + 1
  <2> HIDE DEF found
  <2> QED
    BY <1>2, MinNat
<1>5. Min(found) \in 1..Len(s.log)
  BY <1>4
<1> HIDE DEF found
<1>6. s.log[Min(found)].Index = Min(found) - 1
  BY <1>1, <1>5
<1> QED
  BY <1>1, <1>3, <1>4, <1>5, <1>6

(* An answer to AppendEntries points at or before the previous entry.       *)
Answers(i, m, x) ==
  /\ m.from # Nil /\ x.type = "AppendEntriesReply" /\ x.to = m.from /\ x.from = i
  /\ x.argsTerm = m.Term /\ x.argsMatch = m.PrevLogIndex + Len(m.Entries)
  /\ x.ConflictIndex \in Nat /\ x.ConflictIndex <= m.PrevLogIndex

(* What a peer without the previous entry answers.                          *)
LEMMA RefusalBound ==
  ASSUME NEW i, NEW m, m.from # Nil, NEW t, Good(t), m.PrevLogIndex \in Nat
  PROVE  LET e == getLogEntry(t, m.PrevLogIndex)
             no == IF hasLogEntry(t, m.PrevLogIndex)
                   THEN appendReply(i, m, t.currentTerm, FALSE,
                                    getIndexOfLogEntryFirstTerm(t, e.Term), e.Term)
                   ELSE appendReply(i, m, t.currentTerm, FALSE, getLastLogIndex(t) + 1, -1)
         IN  Answers(i, m, no) /\ no.Success = FALSE
<1> DEFINE n == m.PrevLogIndex
           e == getLogEntry(t, n)
           f == getIndexOfLogEntryFirstTerm(t, e.Term)
           g == getLastLogIndex(t) + 1
<1>1. /\ Len(t.log) \in Nat /\ g = Len(t.log)
      /\ hasLogEntry(t, n) <=> n < Len(t.log)
      /\ n < Len(t.log) => e = t.log[n + 1]
  BY LogShape
<1>2. f \in Nat /\ (hasLogEntry(t, n) => f <= n)
  BY <1>1, FirstTermBound, FirstTermNat
<1>3. g \in Nat /\ (~hasLogEntry(t, n) => g <= n)
  BY <1>1
<1> HIDE DEF f, g, e
<1>4. hasLogEntry(t, n) => /\ Answers(i, m, appendReply(i, m, t.currentTerm, FALSE, f, e.Term))
                           /\ appendReply(i, m, t.currentTerm, FALSE, f, e.Term).Success = FALSE
  BY <1>2 DEF Answers, appendReply
<1>5. ~hasLogEntry(t, n) => /\ Answers(i, m, appendReply(i, m, t.currentTerm, FALSE, g, -1))
                            /\ appendReply(i, m, t.currentTerm, FALSE, g, -1).Success = FALSE
  BY <1>3 DEF Answers, appendReply
<1> QED
  BY <1>4, <1>5 DEF f, g, e

(* AppendEntries refused: nothing happens to the log.                       *)
Refused(i, m) ==
  /\ \E u : Good(u) /\ Update(i, u) /\ Quiet(rf[i], u) /\ SameLog(rf[i], u)
  /\ applied' = applied
  /\ \A x \in msgs' : x \in msgs \/ (Answers(i, m, x) /\ x.Success = FALSE)

(* AppendEntries accepted by t, which becomes u.                            *)
Accepted(i, m, t, u) ==
  /\ Good(t) /\ SameLog(rf[i], t) /\ t.currentTerm = m.Term
  /\ rf[i].currentTerm <= m.Term
  /\ \/ t.state = "follower"
     \/ t.state = "leader" /\ rf[i].state = "leader" /\ rf[i].currentTerm = m.Term
  /\ prevMatches(t, m)
  /\ Good(u) /\ Update(i, u) /\ u.state = t.state /\ u.currentTerm = m.Term
  /\ mergeEntries(t, m.Entries) = [t EXCEPT !.log = u.log]
  /\ \/ u.commitIndex = rf[i].commitIndex
     \/ /\ u.commitIndex <= m.LeaderCommit
        /\ u.commitIndex <= m.PrevLogIndex + Len(m.Entries)
        /\ \/ u.commitIndex > rf[i].commitIndex
           \/ m.LeaderCommit > m.PrevLogIndex + Len(m.Entries)
  /\ applied' \subseteq applied \cup Delivery(m.Term, u.log, u.commitIndex)
  /\ \A x \in msgs' : x \in msgs \/ Answers(i, m, x)

(* Accepting entries, up to the commit index.                               *)
LEMMA MergedFields ==
  ASSUME NEW t, Good(t), NEW m, MsgOK(m), m.type = "AppendEntries", prevMatches(t, m)
  PROVE  LET c == Merged(t, m)
         IN  /\ Good(c) /\ SameRole(t, c)
             /\ mergeEntries(t, m.Entries) = [t EXCEPT !.log = c.log]
             /\ \/ c.commitIndex = t.commitIndex
                \/ /\ c.commitIndex <= m.LeaderCommit
                   /\ c.commitIndex <= m.PrevLogIndex + Len(m.Entries)
                   /\ \/ c.commitIndex > t.commitIndex
                      \/ m.LeaderCommit > m.PrevLogIndex + Len(m.Entries)
<1> DEFINE p == persist(mergeEntries(t, m.Entries))
<1>1. /\ m.PrevLogIndex \in Nat /\ m.Entries \in Seq(logEntry)
      /\ \A k \in 1..Len(m.Entries) : m.Entries[k].Index = m.PrevLogIndex + k
  BY AppendArgsFields
<1>2. m.PrevLogIndex < Len(t.log)
  BY <1>1, LogShape DEF prevMatches
<1>3. PICK l \in Seq(logEntry) :
          Indexed(l) /\ mergeEntries(t, m.Entries) = [t EXCEPT !.log = l]
  <2> DEFINE es == m.Entries
             pr == m.PrevLogIndex
  <2>1. /\ es \in Seq(logEntry) /\ pr \in Nat /\ pr < Len(t.log)
        /\ \A k \in 1..Len(es) : es[k].Index = pr + k
    BY <1>1, <1>2
  <2> HIDE DEF es, pr
  <2>2. \E l \in Seq(logEntry) : Indexed(l) /\ mergeEntries(t, es) = [t EXCEPT !.log = l]
    BY <2>1, MergeType
  <2> QED
    BY <2>2 DEF es
<1>4. Good(p) /\ p.log = l /\ p.commitIndex = t.commitIndex
  <2> DEFINE q == [t EXCEPT !.log = l]
  <2>1. q \in RaftObject /\ q.log = l /\ q.commitIndex = t.commitIndex
    BY DEF Good, RaftObject
  <2>2. p = persist(q)
    BY <1>3
  <2> HIDE DEF q, p
  <2> QED
    BY <1>3, <2>1, <2>2, PersistGood
<1>5. Merged(t, m) = advanceCommit(p, m)
  BY DEF Merged
<1> HIDE DEF p
<1>6. /\ advanceCommit(p, m).log = p.log
      /\ \/ advanceCommit(p, m) = p
         \/ /\ advanceCommit(p, m).commitIndex <= m.LeaderCommit
            /\ advanceCommit(p, m).commitIndex <= m.PrevLogIndex + Len(m.Entries)
            /\ \/ advanceCommit(p, m).commitIndex > p.commitIndex
               \/ m.LeaderCommit > m.PrevLogIndex + Len(m.Entries)
  BY <1>4, AdvanceFields
<1>7. Good(Merged(t, m)) /\ SameRole(t, Merged(t, m))
  BY MergedGood
<1> QED
  BY <1>3, <1>4, <1>5, <1>6, <1>7

(* AppendEntries is refused or accepted.                                    *)
LEMMA AppendEntriesCases ==
  ASSUME TypeInv, RoleInv, PromptService, NEW i \in Server, NEW m \in msgs, AppendEntries(i, m)
  PROVE  /\ UNCHANGED <<votes, elected>>
         /\ Refused(i, m) \/ \E t, u : Accepted(i, m, t, u)
<1> DEFINE s == Checked(i, m)
           t == followLeader(s)
           c == Merged(t, m)
           e == getLogEntry(t, m.PrevLogIndex)
           no == IF hasLogEntry(t, m.PrevLogIndex)
                 THEN appendReply(i, m, t.currentTerm, FALSE,
                                  getIndexOfLogEntryFirstTerm(t, e.Term), e.Term)
                 ELSE appendReply(i, m, t.currentTerm, FALSE, getLastLogIndex(t) + 1, -1)
           stale == appendReply(i, m, s.currentTerm, FALSE, 0, 0)
           yes == appendReply(i, m, t.currentTerm, TRUE, 0, 0)
<1>0. MsgOK(m) /\ m.type = "AppendEntries" /\ CanLock(i)
  BY DEF TypeInv, TypeRest, AppendEntries
<1>1. m.Term \in Nat /\ m.from \in Server \cup {Nil} /\ m.PrevLogIndex \in Nat
  BY <1>0, AppendArgsFields
<1>2. /\ Good(rf[i]) /\ Good(s) /\ Quiet(rf[i], s) /\ SameLog(rf[i], s)
      /\ s.state = "follower" \/ s = rf[i]
  BY <1>0, <1>1, LockedQuiet
<1>2a. s.convertState # Nil => s.state = "follower"
  BY <1>0, <1>1, LockedRole
<1>2b. /\ s.currentTerm = IF m.Term <= rf[i].currentTerm THEN rf[i].currentTerm ELSE m.Term
       /\ rf[i].currentTerm \in Nat
  BY <1>1, <1>2, CheckTerm, GoodFields DEF Checked
<1>3. /\ \/ /\ Update(i, s) /\ Deliver(m, Reply(m, stale)) /\ UNCHANGED applied
         \/ /\ Update(i, t) /\ Deliver(m, Reply(m, no)) /\ UNCHANGED applied
         \/ /\ m.Term >= s.currentTerm /\ prevMatches(t, m)
            /\ \/ /\ Update(i, applyLogToStateMachine(c))
                  /\ applied' = applied \cup toApply(c)
               \/ Update(i, c) /\ UNCHANGED applied
            /\ Deliver(m, Reply(m, yes))
      /\ UNCHANGED <<restarts, votes, elected>>
  BY DEF AppendEntries, Checked, Merged
<1> HIDE DEF s
<1>4. /\ Good(t) /\ Quiet(s, t) /\ SameLog(s, t) /\ t.currentTerm = s.currentTerm
      /\ t.state = "follower" \/ (t.state = "leader" /\ s.state = "leader")
  BY <1>2, <1>2a, FollowQuiet
<1> HIDE DEF t
<1>5. m.from # Nil => /\ Answers(i, m, stale) /\ stale.Success = FALSE
                      /\ Answers(i, m, no) /\ no.Success = FALSE
                      /\ Answers(i, m, yes)
  <2>1. 0 <= m.PrevLogIndex
    BY <1>1
  <2>2. m.from # Nil => Answers(i, m, no) /\ no.Success = FALSE
    BY <1>1, <1>4, RefusalBound
  <2> HIDE DEF no
  <2> QED
    BY <2>1, <2>2 DEF Answers, appendReply
<1> HIDE DEF stale, no, yes
<1>6. ASSUME NEW r, Deliver(m, Reply(m, r)), NEW x \in msgs', x \notin msgs
      PROVE  m.from # Nil /\ x = r
  BY <1>6 DEF Deliver, Reply
<1>7. CASE Update(i, s) /\ Deliver(m, Reply(m, stale)) /\ UNCHANGED applied
  <2>1. \A x \in msgs' : x \in msgs \/ (Answers(i, m, x) /\ x.Success = FALSE)
    BY <1>5, <1>6, <1>7
  <2> QED
    BY <1>2, <1>3, <1>7, <2>1 DEF Refused
<1>8. CASE Update(i, t) /\ Deliver(m, Reply(m, no)) /\ UNCHANGED applied
  <2>1. \A x \in msgs' : x \in msgs \/ (Answers(i, m, x) /\ x.Success = FALSE)
    BY <1>5, <1>6, <1>8
  <2>2. Quiet(rf[i], t) /\ SameLog(rf[i], t)
    BY <1>2, <1>4, QuietTrans DEF SameLog
  <2> QED
    BY <1>3, <1>4, <1>8, <2>1, <2>2 DEF Refused
<1>9. CASE /\ m.Term >= s.currentTerm /\ prevMatches(t, m)
           /\ \/ /\ Update(i, applyLogToStateMachine(c))
                 /\ applied' = applied \cup toApply(c)
              \/ Update(i, c) /\ UNCHANGED applied
           /\ Deliver(m, Reply(m, yes))
  <2>1. \A x \in msgs' : x \in msgs \/ Answers(i, m, x)
    BY <1>5, <1>6, <1>9
  <2>2. s.currentTerm = m.Term /\ rf[i].currentTerm <= m.Term
    BY <1>1, <1>2b, <1>9
  <2>3. SameLog(rf[i], t) /\ t.currentTerm = m.Term /\ t.commitIndex = rf[i].commitIndex
    BY <1>2, <1>4, <2>2 DEF SameLog
  <2>4. \/ t.state = "follower"
        \/ t.state = "leader" /\ rf[i].state = "leader" /\ rf[i].currentTerm = m.Term
    BY <1>2, <1>4, <2>2
  <2>5. /\ Good(c) /\ SameRole(t, c)
        /\ mergeEntries(t, m.Entries) = [t EXCEPT !.log = c.log]
        /\ \/ c.commitIndex = t.commitIndex
           \/ /\ c.commitIndex <= m.LeaderCommit
              /\ c.commitIndex <= m.PrevLogIndex + Len(m.Entries)
              /\ \/ c.commitIndex > t.commitIndex
                 \/ m.LeaderCommit > m.PrevLogIndex + Len(m.Entries)
    BY <1>0, <1>4, <1>9, MergedFields
  <2> HIDE DEF c
  <2>6. /\ Good(applyLogToStateMachine(c)) /\ SameRole(c, applyLogToStateMachine(c))
        /\ SameLog(c, applyLogToStateMachine(c))
        /\ toApply(c) \subseteq Delivery(c.currentTerm, c.log, c.commitIndex)
    BY <2>5, ApplyGood, ApplyFields
  <2>7. PICK u : /\ u \in {c, applyLogToStateMachine(c)} /\ Update(i, u)
                 /\ applied' \subseteq applied \cup toApply(c)
    BY <1>9
  <2>8. Good(u) /\ SameRole(c, u) /\ u.log = c.log /\ u.commitIndex = c.commitIndex
    BY <2>5, <2>6, <2>7 DEF SameLog, SameRole
  <2>9. c.state = t.state /\ c.currentTerm = m.Term /\ u.state = t.state /\ u.currentTerm = m.Term
    BY <2>3, <2>5, <2>8 DEF SameRole
  <2>10. applied' \subseteq applied \cup Delivery(m.Term, u.log, u.commitIndex)
    BY <2>6, <2>7, <2>8, <2>9
  <2>11. Accepted(i, m, t, u)
    BY <1>4, <1>9, <2>1, <2>2, <2>3, <2>4, <2>5, <2>7, <2>8, <2>9, <2>10 DEF Accepted
  <2> QED
    BY <1>3, <2>11
<1> QED
  BY <1>3, <1>7, <1>8, <1>9

(* No growth is growth.                                                     *)
LEMMA GrowsSelf ==
  ASSUME NEW L \in Histories
  PROVE  Grows(L, L)
<1> SUFFICES ASSUME NEW t \in Nat PROVE Agree(L[t], L[t], Len(L[t]))
  BY DEF Grows
<1>1. Len(L[t]) \in Nat
  BY HistoryType
<1> QED
  BY <1>1 DEF Agree

(* A peer that accepts entries is a follower of the winner of that term,    *)
(* and ends with a copy of the winner's log up to the last entry received,  *)
(* losing nothing on which the two agreed.                                  *)
LEMMA AcceptCopies ==
  ASSUME TypeInv, RoleInv, OneWinnerPerTerm, NEW L, LogInv(L), NEW i \in Server,
         NEW m \in msgs, AppendEntries(i, m), NEW t, NEW u, Accepted(i, m, t, u)
  PROVE  /\ m.Term \in Nat /\ m.PrevLogIndex \in Nat /\ Len(m.Entries) \in Nat
         /\ u.state = "follower" /\ u.log \in Seq(logEntry)
         /\ \/ u.log = rf[i].log
            \/ u.log = SubSeq(L[m.Term], 1, m.PrevLogIndex + 1 + Len(m.Entries))
         /\ m.PrevLogIndex + 1 + Len(m.Entries) <= Len(L[m.Term])
         /\ Agree(u.log, L[m.Term], m.PrevLogIndex + 1 + Len(m.Entries))
         /\ \A n \in Nat : Agree(rf[i].log, L[m.Term], n) => Agree(u.log, L[m.Term], n)
<1> DEFINE T == m.Term
           K == L[m.Term]
           prev == m.PrevLogIndex
           es == m.Entries
           a == t.log
<1>0. /\ MsgOK(m) /\ m.type = "AppendEntries" /\ m.to = i /\ MsgLog(L, elected, m)
      /\ Ledger(L, elected) /\ PeerLog(L, elected, i, rf[i])
  BY DEF TypeInv, TypeRest, AppendEntries, LogInv
<1>1. /\ T \in Nat /\ prev \in Nat /\ es \in Seq(logEntry) /\ Len(es) \in Nat
      /\ \A k \in 1..Len(es) : es[k].Index = prev + k
  BY <1>0, AppendArgsFields
<1>2. PICK w \in Server : w # i /\ <<T, w>> \in elected
  BY <1>0 DEF MsgLog
<1>3. /\ Good(t) /\ a = rf[i].log /\ prevMatches(t, m) /\ Good(u)
      /\ u.state = t.state
      /\ mergeEntries(t, es) = [t EXCEPT !.log = u.log]
      /\ \/ t.state = "follower"
         \/ t.state = "leader" /\ rf[i].state = "leader" /\ rf[i].currentTerm = T
  BY DEF Accepted, SameLog
<1>4. u.state = "follower"
  <2>1. rf[i].state = "leader" /\ rf[i].currentTerm = T => <<T, i>> \in elected
    BY DEF RoleInv, Won
  <2>2. <<T, i>> \notin elected
    BY <1>2 DEF OneWinnerPerTerm
  <2> QED
    BY <1>3, <2>1, <2>2
<1>5. /\ L \in Histories /\ K \in Seq(logEntry) /\ Len(K) \in Nat /\ Len(K) > 0
      /\ LogOK(L, K, T) /\ Copied(L, K) /\ K[1] = zeroEntry
  <2>1. /\ L \in Histories /\ K \in Seq(logEntry) /\ Len(K) \in Nat /\ Len(K) > 0
        /\ LogOK(L, K, T) /\ Copied(L, K)
    BY <1>0, <1>1, <1>2, LedgerFacts
  <2> QED
    BY <2>1 DEF LogOK
<1>6. /\ a \in Seq(logEntry) /\ Len(a) \in Nat /\ Len(a) > 0 /\ Copied(L, a) /\ a[1] = zeroEntry
  <2>1. a \in Seq(logEntry) /\ Len(a) \in Nat \ {0}
    BY <1>3, LogShape, GoodFields
  <2> QED
    BY <1>0, <1>3, <2>1 DEF PeerLog, LogOK
<1>7. /\ prev + 1 + Len(es) <= Len(K) /\ m.PrevLogTerm = K[prev + 1].Term
      /\ \A k \in 1..Len(es) : es[k] = K[prev + 1 + k]
  BY <1>0 DEF MsgLog
<1>8. prev + 1 <= Len(a) /\ a[prev + 1].Term = K[prev + 1].Term
  <2>1. CASE prev = 0
    BY <1>5, <1>6, <2>1
  <2>2. CASE prev # 0
    <3>1. hasLogEntry(t, prev) /\ getLogEntry(t, prev).Term = K[prev + 1].Term
      BY <1>3, <1>7, <2>2 DEF prevMatches
    <3>2. prev < Len(a) /\ getLogEntry(t, prev) = a[prev + 1]
      BY <1>1, <1>3, <3>1, LogShape
    <3> QED
      BY <1>1, <1>6, <3>1, <3>2
  <2> QED
    BY <2>1, <2>2
<1>8a. u.log \in Seq(logEntry)
  BY <1>3, GoodFields
<1> HIDE DEF K, T, prev, es, a
<1>9. Agree(a, K, prev + 1)
  <2>1. prev + 1 \in Nat /\ prev + 1 <= Len(K)
    BY <1>1, <1>5, <1>7
  <2> QED
    BY <1>5, <1>6, <1>8, <2>1, TermTells
<1>10. ASSUME NEW p \in 1..Len(a), p <= Len(K) /\ a[p].Term = K[p].Term
       PROVE  Agree(a, K, p)
  <2>1. p \in Nat /\ p <= Len(a)
    BY <1>6
  <2> QED
    BY <1>5, <1>6, <1>10, <2>1, TermTells
<1>11. PICK l \in Seq(logEntry) :
            /\ mergeEntries(t, es) = [t EXCEPT !.log = l]
            /\ \/ l = t.log
               \/ l = SubSeq(K, 1, prev + 1 + Len(es))
            /\ Agree(l, K, prev + 1 + Len(es))
            /\ \A n \in Nat : Agree(t.log, K, n) => Agree(l, K, n)
  <2>1. /\ \A p \in 1..Len(t.log) : p <= Len(K) /\ t.log[p].Term = K[p].Term => Agree(t.log, K, p)
        /\ Agree(t.log, K, prev + 1)
    BY <1>9, <1>10 DEF a
  <2> QED
    BY ZenonT(60), <1>1, <1>3, <1>5, <1>7, <2>1, MergeCopies
<1>12. u.log = l
  <2>1. [t EXCEPT !.log = l] = [t EXCEPT !.log = u.log]
    BY <1>3, <1>11
  <2>2. [t EXCEPT !.log = l].log = l /\ [t EXCEPT !.log = u.log].log = u.log
    BY <1>3, <1>8a, ReplaceLog DEF Good
  <2> QED
    BY <2>1, <2>2
<1>13. a = t.log
  BY DEF a
<1> QED
  BY <1>1, <1>3, <1>4, <1>7, <1>8a, <1>11, <1>12, <1>13 DEF K, T, prev, es

(* AppendEntries keeps logs copies.                                         *)
LEMMA AppendEntriesLogs ==
  ASSUME TypeInv, RoleInv, PromptService, OneWinnerPerTerm, NEW L, LogInv(L),
         NEW i \in Server, NEW m \in msgs, AppendEntries(i, m)
  PROVE  LogInv(L)'
<1> DEFINE T == m.Term
           q == m.PrevLogIndex + 1 + Len(m.Entries)
<1>0. /\ MsgOK(m) /\ m.type = "AppendEntries" /\ m.to = i /\ MsgLog(L, elected, m)
      /\ Ledger(L, elected) /\ PeerLog(L, elected, i, rf[i]) /\ L \in Histories /\ Good(rf[i])
      /\ \A x \in msgs : MsgLog(L, elected, x)
  BY DEF TypeInv, TypeRf, TypeRest, AppendEntries, LogInv, Ledger
<1>1. m.Term \in Nat /\ m.PrevLogIndex \in Nat /\ m.Entries \in Seq(logEntry)
  BY <1>0, AppendArgsFields
<1>2. elected' = elected
  BY AppendEntriesCases
<1>3. ASSUME NEW x, Answers(i, m, x)
      PROVE  MsgLog(L, elected, x)
  <2>1. /\ m.from # Nil /\ x.type = "AppendEntriesReply" /\ x.to = m.from /\ x.from = i
        /\ x.argsTerm = m.Term /\ x.argsMatch = m.PrevLogIndex + Len(m.Entries)
        /\ x.ConflictIndex \in Nat /\ x.ConflictIndex <= m.PrevLogIndex
        /\ x.type # "AppendEntries"
    BY <1>3 DEF Answers
  <2>2. /\ m.PrevLogIndex + 1 + Len(m.Entries) <= Len(L[m.Term])
        /\ m.from # i /\ <<m.Term, m.from>> \in elected
    BY <1>0, <2>1 DEF MsgLog
  <2>3. Len(m.Entries) \in Nat /\ Len(L[m.Term]) \in Nat
    BY <1>0, <1>1, HistoryType
  <2>4. x.argsMatch + 1 <= Len(L[x.argsTerm])
    BY <1>1, <2>1, <2>2, <2>3
  <2>5. x.ConflictIndex <= x.argsMatch
    BY <1>1, <2>1, <2>3
  <2> QED
    BY <2>1, <2>2, <2>4, <2>5 DEF MsgLog
<1>4. CASE Refused(i, m)
  <2>1. \A x \in msgs' : MsgLog(L, elected, x)
    BY <1>0, <1>3, <1>4 DEF Refused
  <2>2. PICK u : Good(u) /\ Update(i, u) /\ Quiet(rf[i], u)
    BY <1>4 DEF Refused
  <2> QED
    BY <1>2, <2>1, <2>2, QuietStep
<1>5. ASSUME NEW t, NEW u, Accepted(i, m, t, u)
      PROVE  LogInv(L)'
  <2>1. \A x \in msgs' : MsgLog(L, elected, x)
    BY <1>0, <1>3, <1>5 DEF Accepted
  <2>2. /\ u.state = "follower"
        /\ u.log = rf[i].log \/ u.log = SubSeq(L[T], 1, q)
        /\ q <= Len(L[T]) /\ Len(m.Entries) \in Nat
    BY <1>5, AcceptCopies
  <2>3. Update(i, u) /\ Good(u) /\ u.currentTerm = T /\ rf[i].currentTerm <= T
    BY <1>5 DEF Accepted
  <2>4. /\ L[T] \in Seq(logEntry) /\ LogOK(L, L[T], T) /\ q \in Nat
        /\ rf[i].log \in Seq(logEntry) /\ rf[i].currentTerm \in Nat /\ Grows(L, L)
        /\ LogOK(L, rf[i].log, rf[i].currentTerm)
    <3>1. L[T] \in Seq(logEntry) /\ LogOK(L, L[T], T)
      BY <1>0, <1>1, LedgerFacts
    <3>2. q \in Nat
      BY <1>1, <2>2
    <3>3. rf[i].log \in Seq(logEntry) /\ rf[i].currentTerm \in Nat
      BY <1>0, GoodFields
    <3>4. Grows(L, L) /\ LogOK(L, rf[i].log, rf[i].currentTerm)
      BY <1>0, GrowsSelf DEF PeerLog
    <3> QED
      BY <3>1, <3>2, <3>3, <3>4
  <2> HIDE DEF q, T
  <2>5. LogOK(L, u.log, T)
    <3>1. T \in Nat
      BY <1>1 DEF T
    <3>2. CASE u.log = rf[i].log
      BY <1>0, <2>3, <2>4, <3>1, <3>2, LogOKGrows
    <3>3. CASE u.log = SubSeq(L[T], 1, q)
      BY <1>0, <2>2, <2>4, <3>1, <3>3, LogOKPrefix
    <3> QED
      BY <2>2, <3>2, <3>3
  <2>6. \A v \in Nat : <<v, i>> \in elected => v <= T
    <3>1. T \in Nat
      BY <1>1 DEF T
    <3>2. \A v \in Nat : <<v, i>> \in elected => v <= rf[i].currentTerm
      BY <1>0 DEF PeerLog
    <3>3. rf[i].currentTerm <= T
      BY <2>3
    <3> QED
      BY <2>4, <3>1, <3>2, <3>3
  <2>7. PeerLog(L, elected, i, u)
    BY <2>2, <2>3, <2>5, <2>6 DEF PeerLog, Standing, Leading
  <2> QED
    BY <1>2, <2>1, <2>3, <2>7, OnePeer
<1> QED
  BY <1>4, <1>5, AppendEntriesCases

-----------------------------------------------------------------------------
(* Replies to AppendEntries.                                                *)

(* A leader never backs up beyond its own log.                              *)
LEMMA BackUpBound ==
  ASSUME NEW s, Good(s), NEW m, m.ConflictIndex \in Nat, m.ConflictIndex <= Len(s.log)
  PROVE  backUp(s, m) \in Nat /\ backUp(s, m) <= Len(s.log)
<1> DEFINE last == getLastLogIndex(s)
           same == {n \in 1..last : getLogEntry(s, n).Term = m.ConflictTerm}
           after == {n \in 1..(last + 1) :
                       /\ n > Min(same)
                       /\ n = last + 1 \/ getLogEntry(s, n).Term # m.ConflictTerm}
<1>1. last \in Nat /\ last + 1 = Len(s.log)
  BY LogShape
<1>2. backUp(s, m) = IF m.ConflictTerm = -1 \/ same = {} THEN m.ConflictIndex ELSE Min(after)
  BY DEF backUp
<1>3. ASSUME same # {}
      PROVE  Min(after) \in Nat /\ Min(after) <= Len(s.log)
  <2> HIDE DEF last
  <2>1. same \in SUBSET Nat
    BY <1>1
  <2> HIDE DEF same
  <2>2. Min(same) \in same
    BY <1>3, <2>1, MinNat
  <2>3. Min(same) \in 1..last
    BY <2>2 DEF same
  <2>4. last + 1 \in after /\ after \in SUBSET Nat
    BY <1>1, <2>3
  <2> HIDE DEF after
  <2>5. Min(after) \in Nat /\ Min(after) <= last + 1
    BY <2>4, MinNat
  <2> QED
    BY <1>1, <2>5
<1> QED
  BY <1>2, <1>3

(* A success: one more peer holds the log up to the index matched, and the  *)
(* commit index may move there.                                             *)
Matched(i, m, u) ==
  /\ m.Success
  /\ u.nextIndex = [rf[i].nextIndex EXCEPT ![m.from] = m.argsMatch + 1]
  /\ u.matchIndex = [rf[i].matchIndex EXCEPT ![m.from] = m.argsMatch]
  /\ \/ u.commitIndex = rf[i].commitIndex /\ applied' = applied
     \/ /\ u.commitIndex = m.argsMatch /\ m.argsMatch > rf[i].commitIndex
        /\ getLogEntry(rf[i], m.argsMatch).Term = rf[i].currentTerm
        /\ 1 + Cardinality({j \in Server : u.matchIndex[j] >= m.argsMatch})
             > Cardinality(Server) \div 2
        /\ applied' \subseteq applied \cup Delivery(rf[i].currentTerm, u.log, u.commitIndex)

(* A rejection of the current term: the next index moves back.              *)
BackedUp(i, m, u) ==
  /\ u.nextIndex = [rf[i].nextIndex EXCEPT ![m.from] = backUp(rf[i], m)]
  /\ u.matchIndex = rf[i].matchIndex /\ u.commitIndex = rf[i].commitIndex
  /\ applied' = applied

(* What counting copies does to the indices.                                *)
LEMMA CommitFields ==
  ASSUME NEW s, Good(s), NEW n \in Nat
  PROVE  LET c == advanceLeaderCommit(s, n)
         IN  /\ c.log = s.log /\ c.nextIndex = s.nextIndex /\ c.matchIndex = s.matchIndex
             /\ \/ c = s
                \/ /\ n > s.commitIndex
                   /\ c.commitIndex = n /\ getLogEntry(s, n).Term = s.currentTerm
                   /\ 1 + Cardinality({j \in Server : s.matchIndex[j] >= n})
                        > Cardinality(Server) \div 2
<1> DEFINE e == [s EXCEPT !.commitIndex = n]
<1>1. /\ e.log = s.log /\ e.nextIndex = s.nextIndex /\ e.matchIndex = s.matchIndex
      /\ e.commitIndex = n
  BY DEF Good, RaftObject
<1>2. \/ advanceLeaderCommit(s, n) = s
      \/ /\ n > s.commitIndex
         /\ advanceLeaderCommit(s, n) = e /\ getLogEntry(s, n).Term = s.currentTerm
         /\ 1 + Cardinality({j \in Server : s.matchIndex[j] >= n})
              > Cardinality(Server) \div 2
  BY DEF advanceLeaderCommit
<1> HIDE DEF e
<1> QED
  BY <1>1, <1>2

(* A success, field by field.                                               *)
LEMMA ProgressFields ==
  ASSUME NEW s, Good(s), NEW j \in Server, NEW n \in Nat
  PROVE  LET d == Progress(s, j, n)
         IN  /\ Good(d) /\ SameRole(s, d) /\ d.log = s.log /\ d.commitIndex = s.commitIndex
             /\ d.nextIndex = [s.nextIndex EXCEPT ![j] = n + 1]
             /\ d.matchIndex = [s.matchIndex EXCEPT ![j] = n]
<1> DEFINE f == [s.nextIndex EXCEPT ![j] = n + 1]
           g == [s.matchIndex EXCEPT ![j] = n]
           d == [s EXCEPT !.nextIndex = f, !.matchIndex = g]
<1>1. f \in [Server -> Nat] /\ g \in [Server -> Nat]
  BY GoodFields
<1>2. Progress(s, j, n) = d
  BY DEF Progress
<1> HIDE DEF f, g
<1>3. Good(d) /\ SameRole(s, d)
  BY <1>1, IndexGood
<1>4. d.log = s.log /\ d.commitIndex = s.commitIndex /\ d.nextIndex = f /\ d.matchIndex = g
  BY DEF Good, RaftObject
<1> HIDE DEF d
<1> QED
  BY <1>2, <1>3, <1>4 DEF f, g

(* A rejection, field by field.                                             *)
LEMMA BackUpFields ==
  ASSUME NEW s, Good(s), NEW j \in Server, NEW n \in Nat
  PROVE  LET d == [s EXCEPT !.nextIndex[j] = n]
         IN  /\ Good(d) /\ SameRole(s, d) /\ d.log = s.log /\ d.commitIndex = s.commitIndex
             /\ d.nextIndex = [s.nextIndex EXCEPT ![j] = n]
             /\ d.matchIndex = s.matchIndex
<1> DEFINE f == [s.nextIndex EXCEPT ![j] = n]
           d == [s EXCEPT !.nextIndex = f]
<1>1. f \in [Server -> Nat]
  BY GoodFields
<1>2. [s EXCEPT !.nextIndex[j] = n] = d
  OBVIOUS
<1> HIDE DEF f
<1>3. Good(d) /\ SameRole(s, d)
  BY <1>1, IndexGood
<1>4. d.log = s.log /\ d.commitIndex = s.commitIndex /\ d.nextIndex = f /\ d.matchIndex = s.matchIndex
  BY DEF Good, RaftObject
<1> HIDE DEF d
<1> QED
  BY <1>2, <1>3, <1>4 DEF f

(* A reply to AppendEntries is ignored but for its term, or it is one that  *)
(* the leader of the current term has been waiting for.                     *)
LEMMA AppendReplyCases ==
  ASSUME TypeInv, RoleInv, PromptService, NEW L, LogInv(L), NEW i \in Server,
         NEW m \in msgs, AppendReply(i, m)
  PROVE  /\ UNCHANGED <<votes, elected>> /\ msgs' \subseteq msgs
         /\ \E u : /\ Good(u) /\ Update(i, u)
                   /\ \/ Quiet(rf[i], u) /\ SameLog(rf[i], u) /\ applied' = applied
                      \/ /\ Leading(rf[i]) /\ m.argsTerm = rf[i].currentTerm
                         /\ SameRole(rf[i], u) /\ u.log = rf[i].log
                         /\ Matched(i, m, u) \/ BackedUp(i, m, u)
<1> DEFINE s == Heard(i, m)
           d == Progress(s, m.from, m.argsMatch)
           c == advanceLeaderCommit(d, m.argsMatch)
           b == [s EXCEPT !.nextIndex[m.from] = backUp(s, m)]
           now == m.argsTerm >= rf[i].currentTerm /\ s.state # "follower"
<1>0. MsgOK(m) /\ m.type = "AppendEntriesReply" /\ CanLock(i) /\ m.to = i
  BY DEF TypeInv, TypeRest, AppendReply
<1>1. /\ m.from \in Server /\ m.Term \in Nat /\ m.argsTerm \in Nat /\ m.argsMatch \in Nat
      /\ m.ConflictIndex \in Nat
  BY <1>0, AppendReplyFields
<1>2. /\ Good(rf[i]) /\ Good(s) /\ Quiet(rf[i], s) /\ SameLog(rf[i], s)
      /\ s.state = "follower" \/ s = rf[i]
  <2>1. /\ Good(rf[i]) /\ Good(Checked(i, m)) /\ Quiet(rf[i], Checked(i, m))
        /\ SameLog(rf[i], Checked(i, m))
        /\ Checked(i, m).state = "follower" \/ Checked(i, m) = rf[i]
    BY <1>0, <1>1, LockedQuiet
  <2>2. Quiet(rf[i], rf[i]) /\ SameLog(rf[i], rf[i])
    BY <2>1, QuietSame DEF SameLog
  <2> QED
    BY <2>1, <2>2 DEF Heard
<1>3. /\ \/ Update(i, s) /\ UNCHANGED applied
         \/ now /\ m.Success /\ Update(i, applyLogToStateMachine(c)) /\ applied' = applied \cup toApply(c)
            /\ c.commitIndex > s.commitIndex
         \/ now /\ m.Success /\ Update(i, c) /\ UNCHANGED applied
            /\ ~(c.commitIndex > s.commitIndex)
         \/ now /\ Update(i, b) /\ UNCHANGED applied
      /\ Deliver(m, {})
      /\ UNCHANGED <<restarts, votes, elected>>
  BY DEF AppendReply, Heard, Checked, Progress
<1>4. msgs' \subseteq msgs
  BY <1>3 DEF Deliver
<1> HIDE DEF s
<1>5. CASE Update(i, s) /\ UNCHANGED applied
  BY <1>2, <1>3, <1>4, <1>5
<1>6. ASSUME now
      PROVE  s = rf[i] /\ Leading(rf[i]) /\ m.argsTerm = rf[i].currentTerm
  <2>1. s = rf[i] /\ s.state # "follower" /\ m.argsTerm >= rf[i].currentTerm
    BY <1>2, <1>6
  <2>2. <<m.argsTerm, i>> \in elected /\ PeerLog(L, elected, i, rf[i])
    BY <1>0 DEF LogInv, MsgLog
  <2>3. m.argsTerm = rf[i].currentTerm
    <3>1. m.argsTerm <= rf[i].currentTerm
      BY <1>1, <2>2 DEF PeerLog
    <3>2. rf[i].currentTerm \in Nat
      BY <1>2, GoodFields
    <3> QED
      BY <1>1, <2>1, <3>1, <3>2
  <2>4. ~Standing(rf[i])
    BY <2>2, <2>3 DEF PeerLog
  <2>5. Leading(rf[i])
    <3>1. InLoop(rf[i]) /\ rf[i].convertState = Nil /\ RoleOK(rf[i])
      BY <1>0 DEF CanLock, RoleInv
    <3> QED
      BY <2>1, <2>4, <3>1 DEF RoleOK, InLoop, Standing, Leading
  <2> QED
    BY <2>1, <2>3, <2>5
<1>7. /\ Good(d) /\ SameRole(s, d) /\ d.log = s.log /\ d.commitIndex = s.commitIndex
      /\ d.nextIndex = [s.nextIndex EXCEPT ![m.from] = m.argsMatch + 1]
      /\ d.matchIndex = [s.matchIndex EXCEPT ![m.from] = m.argsMatch]
  BY <1>1, <1>2, ProgressFields
<1>8. CASE now /\ Update(i, b) /\ UNCHANGED applied
  <2> DEFINE n == backUp(s, m)
  <2>1. n \in Nat
    BY <1>1, <1>2, BackUpNat
  <2>2. b = [s EXCEPT !.nextIndex[m.from] = n]
    OBVIOUS
  <2> HIDE DEF n, b
  <2>3. /\ Good(b) /\ SameRole(s, b) /\ b.log = s.log /\ b.commitIndex = s.commitIndex
        /\ b.nextIndex = [s.nextIndex EXCEPT ![m.from] = n] /\ b.matchIndex = s.matchIndex
    BY <1>1, <1>2, <2>1, <2>2, BackUpFields
  <2>4. BackedUp(i, m, b)
    BY <1>6, <1>8, <2>3 DEF BackedUp, n
  <2> QED
    BY <1>3, <1>4, <1>6, <1>8, <2>3, <2>4
<1> HIDE DEF d
<1>9. ASSUME now, m.Success, NEW u, Update(i, u),
             \/ u = applyLogToStateMachine(c) /\ applied' = applied \cup toApply(c)
                /\ c.commitIndex > s.commitIndex
             \/ u = c /\ applied' = applied /\ ~(c.commitIndex > s.commitIndex)
      PROVE  Good(u) /\ SameRole(rf[i], u) /\ u.log = rf[i].log /\ Matched(i, m, u)
  <2>0. s = rf[i]
    BY <1>6, <1>9
  <2>1. Good(c) /\ SameRole(d, c)
    BY <1>1, <1>7, LeaderCommitGood
  <2>2. /\ c.log = d.log /\ c.nextIndex = d.nextIndex /\ c.matchIndex = d.matchIndex
        /\ \/ c = d
           \/ /\ m.argsMatch > d.commitIndex
              /\ c.commitIndex = m.argsMatch /\ getLogEntry(d, m.argsMatch).Term = d.currentTerm
              /\ 1 + Cardinality({j \in Server : d.matchIndex[j] >= m.argsMatch})
                   > Cardinality(Server) \div 2
    BY <1>1, <1>7, CommitFields
  <2> HIDE DEF c
  <2>3. /\ Good(applyLogToStateMachine(c)) /\ SameRole(c, applyLogToStateMachine(c))
        /\ SameLog(c, applyLogToStateMachine(c))
        /\ toApply(c) \subseteq Delivery(c.currentTerm, c.log, c.commitIndex)
    BY <2>1, ApplyGood, ApplyFields
  <2>4. Good(u) /\ SameRole(c, u) /\ SameLog(c, u)
    BY <1>9, <2>1, <2>3 DEF SameLog, SameRole
  <2>5. SameRole(rf[i], u) /\ u.log = rf[i].log /\ c.currentTerm = rf[i].currentTerm
    BY <1>7, <2>0, <2>1, <2>2, <2>4 DEF SameRole, SameLog
  <2>6. getLogEntry(d, m.argsMatch) = getLogEntry(rf[i], m.argsMatch)
    BY <1>7, <2>0 DEF getLogEntry, hasLogEntry, getLastLogIndex
  <2>7. d.currentTerm = rf[i].currentTerm
    BY <1>7, <2>0 DEF SameRole
  <2>8. /\ u.nextIndex = [rf[i].nextIndex EXCEPT ![m.from] = m.argsMatch + 1]
        /\ u.matchIndex = [rf[i].matchIndex EXCEPT ![m.from] = m.argsMatch]
        /\ u.matchIndex = d.matchIndex /\ u.commitIndex = c.commitIndex
    BY <1>7, <2>0, <2>2, <2>4 DEF SameLog
  <2>9. \/ u.commitIndex = rf[i].commitIndex /\ applied' = applied
        \/ /\ u.commitIndex = m.argsMatch /\ m.argsMatch > rf[i].commitIndex
           /\ getLogEntry(rf[i], m.argsMatch).Term = rf[i].currentTerm
           /\ 1 + Cardinality({j \in Server : u.matchIndex[j] >= m.argsMatch})
                > Cardinality(Server) \div 2
           /\ applied' \subseteq applied \cup Delivery(rf[i].currentTerm, u.log, u.commitIndex)
    <3>1. CASE c = d
      <4>1. c.commitIndex = rf[i].commitIndex /\ rf[i].commitIndex \in Nat
        BY <1>2, <1>7, <2>0, <3>1, GoodFields
      <4>2. applied' = applied
        BY <1>9, <2>0, <4>1
      <4> QED
        BY <2>8, <4>1, <4>2
    <3>2. CASE c # d
      <4>1. applied' \subseteq applied \cup Delivery(rf[i].currentTerm, u.log, u.commitIndex)
        BY <1>9, <2>3, <2>4, <2>5 DEF SameLog
      <4>2. /\ c.commitIndex = m.argsMatch /\ m.argsMatch > rf[i].commitIndex
            /\ getLogEntry(rf[i], m.argsMatch).Term = rf[i].currentTerm
            /\ 1 + Cardinality({j \in Server : d.matchIndex[j] >= m.argsMatch})
                 > Cardinality(Server) \div 2
        BY <1>7, <2>0, <2>2, <2>6, <2>7, <3>2
      <4> QED
        BY <2>8, <4>1, <4>2
    <3> QED
      BY <3>1, <3>2
  <2>10. Matched(i, m, u)
    BY <1>9, <2>8, <2>9 DEF Matched
  <2> QED
    BY <2>4, <2>5, <2>10
<1> HIDE DEF b
<1>10. CASE /\ now /\ m.Success
            /\ \/ /\ Update(i, applyLogToStateMachine(c)) /\ applied' = applied \cup toApply(c)
                  /\ c.commitIndex > s.commitIndex
               \/ Update(i, c) /\ UNCHANGED applied /\ ~(c.commitIndex > s.commitIndex)
  <2>1. PICK u : /\ Update(i, u)
                 /\ \/ u = applyLogToStateMachine(c) /\ applied' = applied \cup toApply(c)
                       /\ c.commitIndex > s.commitIndex
                    \/ u = c /\ applied' = applied /\ ~(c.commitIndex > s.commitIndex)
    BY <1>10
  <2>2. Good(u) /\ SameRole(rf[i], u) /\ u.log = rf[i].log /\ Matched(i, m, u)
    BY <1>9, <1>10, <2>1
  <2> QED
    BY <1>3, <1>4, <1>6, <1>10, <2>1, <2>2
<1> QED
  BY <1>3, <1>5, <1>8, <1>10

(* Replies keep the next indices within the leader's log.                   *)
LEMMA AppendReplyLogs ==
  ASSUME TypeInv, RoleInv, PromptService, NEW L, LogInv(L),
         NEW i \in Server, NEW m \in msgs, AppendReply(i, m)
  PROVE  LogInv(L)'
<1>0. /\ MsgOK(m) /\ m.type = "AppendEntriesReply" /\ MsgLog(L, elected, m)
      /\ Ledger(L, elected) /\ PeerLog(L, elected, i, rf[i]) /\ L \in Histories /\ Good(rf[i])
      /\ \A x \in msgs : MsgLog(L, elected, x)
  BY DEF TypeInv, TypeRf, TypeRest, AppendReply, LogInv, Ledger
<1>1. /\ m.from \in Server /\ m.argsTerm \in Nat /\ m.argsMatch \in Nat /\ m.ConflictIndex \in Nat
  BY <1>0, AppendReplyFields
<1>2. /\ UNCHANGED <<votes, elected>> /\ msgs' \subseteq msgs
      /\ \E u : /\ Good(u) /\ Update(i, u)
                /\ \/ Quiet(rf[i], u)
                   \/ /\ Leading(rf[i]) /\ m.argsTerm = rf[i].currentTerm
                      /\ SameRole(rf[i], u) /\ u.log = rf[i].log
                      /\ Matched(i, m, u) \/ BackedUp(i, m, u)
  BY AppendReplyCases
<1>3. elected' = elected /\ \A x \in msgs' : MsgLog(L, elected, x)
  BY <1>0, <1>2
<1>4. PICK u : /\ Good(u) /\ Update(i, u)
               /\ \/ Quiet(rf[i], u)
                  \/ /\ Leading(rf[i]) /\ m.argsTerm = rf[i].currentTerm
                     /\ SameRole(rf[i], u) /\ u.log = rf[i].log
                     /\ Matched(i, m, u) \/ BackedUp(i, m, u)
  BY <1>2
<1>5. CASE Quiet(rf[i], u)
  BY <1>3, <1>4, <1>5, QuietStep
<1>6. CASE /\ Leading(rf[i]) /\ m.argsTerm = rf[i].currentTerm
           /\ SameRole(rf[i], u) /\ u.log = rf[i].log
           /\ Matched(i, m, u) \/ BackedUp(i, m, u)
  <2>1. /\ rf[i].log = L[m.argsTerm] /\ \A j \in Server : rf[i].nextIndex[j] <= Len(rf[i].log)
        /\ rf[i].nextIndex \in [Server -> Nat] /\ Len(rf[i].log) \in Nat
    <3>1. rf[i].nextIndex \in [Server -> Nat] /\ Len(rf[i].log) \in Nat
      BY <1>0, GoodFields, LogShape
    <3> QED
      BY <1>0, <1>6, <3>1 DEF PeerLog, Leading
  <2>2. m.argsMatch + 1 <= Len(rf[i].log) /\ m.ConflictIndex <= Len(rf[i].log)
    <3>1. m.argsMatch + 1 <= Len(rf[i].log) /\ m.ConflictIndex <= m.argsMatch
      BY <1>0, <2>1 DEF MsgLog
    <3> QED
      BY <1>1, <2>1, <3>1
  <2>3. backUp(rf[i], m) <= Len(rf[i].log)
    BY <1>0, <1>1, <2>2, BackUpBound
  <2>4. ASSUME NEW j \in Server
        PROVE  u.nextIndex[j] <= Len(u.log)
    <3>1. \E n : n <= Len(rf[i].log) /\ u.nextIndex = [rf[i].nextIndex EXCEPT ![m.from] = n]
      <4>1. CASE Matched(i, m, u)
        BY <2>2, <4>1 DEF Matched
      <4>2. CASE BackedUp(i, m, u)
        BY <2>3, <4>2 DEF BackedUp
      <4> QED
        BY <1>6, <4>1, <4>2
    <3> QED
      BY <1>1, <1>6, <2>1, <3>1
  <2>5. /\ u.state = rf[i].state /\ u.currentTerm = rf[i].currentTerm /\ u.log = rf[i].log
        /\ u.service = rf[i].service
    BY <1>6 DEF SameRole
  <2>6. ~Standing(u)
    BY <1>6, <2>5 DEF Leading, Standing
  <2>7. PeerLog(L, elected, i, u)
    BY <1>0, <2>4, <2>5, <2>6 DEF PeerLog
  <2> QED
    BY <1>3, <1>4, <2>7, OnePeer
<1> QED
  BY <1>4, <1>5, <1>6

-----------------------------------------------------------------------------
(* The invariant, and what it implies.                                      *)

LogsAgree == \E L : LogInv(L)

(* At first every log is the sentinel alone, and only term 0 has a history. *)
LEMMA InitLogs ==
  ASSUME Init
  PROVE  LogsAgree
<1> DEFINE K == [t \in Nat |-> IF t = 0 THEN <<zeroEntry>> ELSE <<>>]
<1>p. PICK L : L = K
  OBVIOUS
<1>1. zeroEntry \in logEntry /\ zeroEntry.Term = 0 /\ zeroEntry.Index = 0
  BY DEF zeroEntry, logEntry
<1>2. /\ <<zeroEntry>> \in Seq(logEntry) /\ Len(<<zeroEntry>>) = 1
      /\ <<>> \in Seq(logEntry) /\ Len(<<>>) = 0 /\ <<zeroEntry>>[1] = zeroEntry
      /\ <<zeroEntry>> # <<>>
  BY <1>1
<1> DEFINE z == <<zeroEntry>>
           n == <<>>
<1>3. z \in Seq(logEntry) /\ Len(z) = 1 /\ n \in Seq(logEntry) /\ Len(n) = 0 /\ z[1] = zeroEntry
      /\ z # n
  BY <1>2
<1>4. L = [t \in Nat |-> IF t = 0 THEN z ELSE n]
  BY <1>p
<1> HIDE DEF z, n
<1>5. L \in Histories /\ L[0] = z /\ \A t \in Nat \ {0} : L[t] = n
  BY <1>3, <1>4 DEF Histories
<1>6. \A p \in 1..Len(z) : p = 1 /\ z[p] = zeroEntry
  BY <1>3
<1>6a. 1..Len(n) = {}
  BY <1>3
<1>7. ASSUME NEW t \in Nat PROVE LogOK(L, z, t) /\ LogOK(L, n, t)
  <2>1. Agree(z, z, 1) /\ z[1].Term = 0
    BY <1>1, <1>3 DEF Agree
  <2>2. Copied(L, z)
    BY <1>3, <1>5, <1>6, <2>1 DEF Copied
  <2>3. Ordered(z)
    BY <1>1, <1>6 DEF Ordered
  <2>4. \A p \in 1..Len(z) : z[p].Term <= t
    BY <1>1, <1>6
  <2>5. Copied(L, n) /\ Ordered(n) /\ ~(Len(n) > 0) /\ \A p \in 1..Len(n) : n[p].Term <= t
    BY <1>3, <1>6a DEF Copied, Ordered
  <2> QED
    BY <1>3, <2>2, <2>3, <2>4, <2>5 DEF LogOK
<1>8. Indexed(z)
  BY <1>1, <1>3, <1>6 DEF Indexed
<1>9. Ledger(L, elected)
  <2>1. elected = {}
    BY DEF Init
  <2>2. L[0] = <<zeroEntry>>
    BY <1>5 DEF z
  <2>3. \A t \in Nat : L[t] \in {z, n} /\ (L[t] = n \/ Indexed(L[t]))
    BY <1>5, <1>8
  <2>4. \A t \in Nat : L[t] # n => Indexed(L[t])
    BY <2>3
  <2>5. \A t \in Nat : LogOK(L, L[t], t)
    BY <2>3, <1>7
  <2>6. \A t \in Nat \ {0} : L[t] = n
    BY <1>5
  <2> QED
    BY <1>5, <2>1, <2>2, <2>4, <2>5, <2>6 DEF Ledger, n
<1>10. ASSUME NEW i \in Server PROVE PeerLog(L, elected, i, rf[i])
  <2>1. rf[i].log = z /\ rf[i].state = "follower" /\ rf[i].currentTerm = 0
    BY DEF Init, Make, readPersist, z
  <2>2. LogOK(L, rf[i].log, rf[i].currentTerm)
    BY <1>7, <2>1
  <2>3. ~Standing(rf[i]) /\ ~Leading(rf[i])
    BY <2>1 DEF Standing, Leading
  <2>4. elected = {}
    BY DEF Init
  <2> QED
    BY <2>1, <2>2, <2>3, <2>4 DEF PeerLog
<1>11. LogInv(L)
  BY <1>9, <1>10 DEF LogInv, Init
<1> QED
  BY <1>11 DEF LogsAgree

(* Every step of a prompt service keeps every log a copy.                   *)
LEMMA NextLogs ==
  ASSUME TypeInv, VoteInv, RoleInv, OneWinnerPerTerm, OneWinnerPerTerm', PromptService,
         LogsAgree, [Next]_vars
  PROVE  LogsAgree'
<1> SUFFICES ASSUME NEW L, LogInv(L)
             PROVE  \E M : LogInv(M)'
  BY DEF LogsAgree
<1>1. CASE UNCHANGED vars
  <2>1. LogInv(L)'
    BY <1>1 DEF vars, LogInv
  <2> QED
    BY <2>1
<1>2. CASE Next
  <2>1. PICK i \in Server :
            \/ ServiceSteps(i) \/ FollowerTimeout(i) \/ CandidateTimeout(i)
            \/ \E m \in msgs : Receive(i, m) \/ Lose(m)
            \/ VoteReplacesToken(i)
            \/ Ticks(i)
            \/ \E command \in Command : Start(i, command)
            \/ Restart(i)
    BY <1>2 DEF Next
  <2>2. CASE \/ runAsFollower(i) \/ FollowerTimeout(i) \/ FollowerResetsTimer(i)
             \/ runAsCandidate(i) \/ CandidateTimeout(i) \/ CandidateConverts(i)
             \/ LeaderConverts(i) \/ Restart(i)
             \/ \E m \in msgs : RequestVote(i, m) \/ Lose(m)
    BY <2>2, QuietLogs
  <2>3. CASE StartElection(i)
    BY <2>3, StartElectionLogs
  <2>4. CASE runAsLeader(i)
    BY <2>4, RunAsLeaderLogs
  <2>5. CASE \E m \in msgs : AppendEntries(i, m)
    BY <2>5, AppendEntriesLogs
  <2>6. CASE \E m \in msgs : AppendReply(i, m)
    BY <2>6, AppendReplyLogs
  <2>7. CASE \E m \in msgs : VoteReply(i, m)
    BY <2>7, VoteReplyLogs
  <2>8. CASE VoteReplacesToken(i)
    BY <2>8, TokenNames DEF VoteReplacesToken, RoleInv, RoleOK
  <2>9. CASE Ticks(i)
    BY <2>9, SendLogs DEF Ticks
  <2>10. CASE \E command \in Command : Start(i, command)
    BY <2>10, StartLogs
  <2> QED
    BY <2>1, <2>2, <2>3, <2>4, <2>5, <2>6, <2>7, <2>8, <2>9, <2>10 DEF ServiceSteps, Receive
<1> QED
  BY <1>1, <1>2

(* Copies that agree on a term agree up to it.                              *)
LEMMA CopiesMatch ==
  ASSUME TypeInv, LogsAgree
  PROVE  LogMatching
<1>0. PICK L : LogInv(L)
  BY DEF LogsAgree
<1> SUFFICES ASSUME NEW i \in Server, NEW j \in Server, NEW n \in 1..getLastLogIndex(rf[i]),
                    n <= getLastLogIndex(rf[j]),
                    getLogEntry(rf[i], n).Term = getLogEntry(rf[j], n).Term
             PROVE  SubSeq(rf[i].log, 1, n + 1) = SubSeq(rf[j].log, 1, n + 1)
  BY DEF LogMatching
<1> DEFINE a == rf[i].log
           b == rf[j].log
<1>1. Good(rf[i]) /\ Good(rf[j]) /\ L \in Histories /\ Copied(L, a) /\ Copied(L, b)
  BY <1>0 DEF TypeInv, TypeRf, LogInv, Ledger, PeerLog, LogOK
<1>2. /\ a \in Seq(logEntry) /\ b \in Seq(logEntry) /\ Len(a) \in Nat /\ Len(b) \in Nat
      /\ getLastLogIndex(rf[i]) = Len(a) - 1 /\ getLastLogIndex(rf[j]) = Len(b) - 1
      /\ \A k \in Nat : getLogEntry(rf[i], k) = IF k < Len(a) THEN a[k + 1] ELSE zeroEntry
      /\ \A k \in Nat : getLogEntry(rf[j], k) = IF k < Len(b) THEN b[k + 1] ELSE zeroEntry
  BY <1>1, LogShape, GoodFields
<1>3. n \in Nat /\ n + 1 \in Nat /\ n < Len(a) /\ n < Len(b) /\ n + 1 <= Len(a) /\ n + 1 <= Len(b)
  BY <1>2
<1>4. a[n + 1].Term = b[n + 1].Term
  BY <1>2, <1>3
<1> HIDE DEF a, b
<1>5. Agree(a, b, n + 1)
  BY <1>1, <1>2, <1>3, <1>4, TermTells
<1> QED
  BY <1>2, <1>3, <1>5, AgreeSub DEF a, b

(* The next indices of a leader in its loop.                                *)
LEMMA IndicesInLog ==
  ASSUME TypeInv, LogsAgree
  PROVE  NextIndexInLog
<1>0. PICK L : LogInv(L)
  BY DEF LogsAgree
<1> SUFFICES ASSUME NEW i \in Server, Leading(rf[i]), NEW j \in Server
             PROVE  rf[i].nextIndex[j] <= getLastLogIndex(rf[i]) + 1
  BY DEF NextIndexInLog, Leading
<1>1. Good(rf[i]) /\ rf[i].nextIndex[j] <= Len(rf[i].log)
  BY <1>0 DEF TypeInv, TypeRf, LogInv, PeerLog
<1>2. Len(rf[i].log) \in Nat /\ getLastLogIndex(rf[i]) = Len(rf[i].log) - 1
  BY <1>1, LogShape
<1> QED
  BY <1>1, <1>2

(* The invariants that the proofs about logs rest on.                       *)
LEMMA LogsAlwaysAgree ==
  ASSUME PromptService
  PROVE  Spec => [](TypeInv /\ VoteInv /\ RoleInv /\ OneWinnerPerTerm /\ LogsAgree)
<1>1. Init => VoteInv /\ RoleInv /\ LogsAgree
  BY InitVotes, InitRoles, InitLogs
<1>2. TypeInv /\ VoteInv /\ [Next]_vars => VoteInv'
  BY NextVotes
<1>3. TypeInv /\ RoleInv /\ [Next]_vars => RoleInv'
  BY NextRoles
<1>4. /\ TypeInv /\ VoteInv /\ RoleInv /\ OneWinnerPerTerm /\ OneWinnerPerTerm'
      /\ LogsAgree /\ [Next]_vars
      => LogsAgree'
  BY NextLogs
<1> QED
  BY <1>1, <1>2, <1>3, <1>4, TypeCorrect, OneWinner, PTL DEF Spec

(* With a prompt service goroutine, two logs that agree on the term of an   *)
(* index agree up to that index (AppendEntries, Start, persist): for any    *)
(* number of peers, crashes, terms and entries, and messages lost, repeated *)
(* and reordered.                                                           *)
THEOREM LogsMatch ==
  ASSUME PromptService
  PROVE  Spec => []LogMatching
<1>1. TypeInv /\ LogsAgree => LogMatching
  BY CopiesMatch
<1> QED
  BY <1>1, LogsAlwaysAgree, PTL

(* With a prompt service goroutine, a leader that runs its loop never       *)
(* believes that a peer has more than its own log (runAsLeader, the reply   *)
(* of AppendEntries and its back-up), so without compaction the ticker      *)
(* never needs a snapshot.                                                  *)
THEOREM NextIndexBounded ==
  ASSUME PromptService
  PROVE  Spec => []NextIndexInLog
<1>1. TypeInv /\ LogsAgree => NextIndexInLog
  BY IndicesInLog
<1> QED
  BY <1>1, LogsAlwaysAgree, PTL

=============================================================================
