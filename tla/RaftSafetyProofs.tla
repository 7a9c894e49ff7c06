-------------------------- MODULE RaftSafetyProofs --------------------------
(***************************************************************************)
(* Why no two peers deliver different entries for an index.  To the history *)
(* L of the leaders' logs comes a second history, A: <<j, t, n>> \in A says *)
(* that peer j has at some time held entry n of the leader of term t, while *)
(* in term t.  An entry that a majority has held is chosen.  What makes it  *)
(* last is that an entry of a leader's own term is, for each later leader,  *)
(* either in its log, or closed: a majority went on to later terms without  *)
(* having held it, so that it can never be chosen.  Like L, A is no         *)
(* variable of the model: the inductive invariant says that one exists.     *)
(***************************************************************************)
EXTENDS RaftLogProofs

(* Log l has at index n an entry of term t.                                 *)
Has(l, t, n) == n < Len(l) /\ l[n + 1].Term = t

(* The leader of term t made the entry n of its log itself.                 *)
Own(L, t, n) == Has(L[t], t, n)

Held == Server \X Nat \X Nat

(* A majority has held entry n of the leader of term t.                     *)
Chosen(A, t, n) ==
  \E Q \in SUBSET Server : Majority(Q) /\ \A j \in Q : <<j, t, n>> \in A

(* A majority is past term t and has not held it: it will not be chosen.    *)
Closed(r, A, t, n) ==
  \E Q \in SUBSET Server :
     Majority(Q) /\ \A j \in Q : r[j].currentTerm > t /\ <<j, t, n>> \notin A

(* Log l has the entry n that the leader of term t made, if it can still    *)
(* matter.                                                                  *)
Carries(L, A, r, l, t, n) == Own(L, t, n) => Has(l, t, n) \/ Closed(r, A, t, n)

(* The first c entries after the sentinel are committed in term u: they     *)
(* lead up to a chosen entry of a term up to u.                             *)
CommitOK(L, A, l, u, c) ==
  \/ c = 0
  \/ \E t \in Nat, n \in Nat :
        /\ t <= u /\ c <= n /\ Chosen(A, t, n) /\ Own(L, t, n)
        /\ Agree(l, L[t], c + 1)

AppliedOK(L, A, a) ==
  \E t \in Nat, n \in Nat :
     /\ t <= a.term /\ a.entry.Index <= n /\ Chosen(A, t, n) /\ Own(L, t, n)
     /\ a.entry = L[t][a.entry.Index + 1]

-----------------------------------------------------------------------------
(* The inductive invariant.                                                 *)

(* What a peer has held it still has, if it can still matter.               *)
Accepts(L, A, r) ==
  \A j \in Server, t \in Nat, n \in Nat : <<j, t, n>> \in A =>
     /\ t <= r[j].currentTerm /\ n < Len(L[t])
     /\ Carries(L, A, r, r[j].log, t, n)

(* So does every later leader.                                              *)
Elects(L, A, r) ==
  \A w \in Nat, t \in Nat, n \in Nat :
     t < w /\ L[w] # <<>> => Carries(L, A, r, L[w], t, n)

(* While c stands for term U, its log carries what voter v had held.        *)
Supports(L, A, r, U, v, c) ==
  /\ U <= r[c].currentTerm
  /\ Standing(r[c]) /\ r[c].currentTerm = U =>
        \A t \in Nat, n \in Nat :
           t < U /\ <<v, t, n>> \in A => Carries(L, A, r, r[c].log, t, n)

(* A request for a vote describes the log of its candidate while that one   *)
(* stands.                                                                  *)
Describes(r, m) ==
  /\ m.Term <= r[m.CandidateId].currentTerm
  /\ Standing(r[m.CandidateId]) /\ r[m.CandidateId].currentTerm = m.Term =>
        /\ m.LastLogIndex = getLastLogIndex(r[m.CandidateId])
        /\ m.LastLogTerm = getLastLogTerm(r[m.CandidateId])

SafeMsg(L, A, r, m) ==
  /\ m.type = "RequestVote" => Describes(r, m)
  /\ m.type = "AppendEntries" => CommitOK(L, A, L[m.Term], m.Term, m.LeaderCommit)
  /\ m.type = "AppendEntriesReply" /\ m.Success =>
        \A k \in 1..m.argsMatch : <<m.from, m.argsTerm, k>> \in A

SafePeer(L, A, i, s) ==
  /\ CommitOK(L, A, s.log, s.currentTerm, s.commitIndex)
  /\ s.state = "leader" =>
        \A k \in Nat \ {0} : Has(s.log, s.currentTerm, k) => <<i, s.currentTerm, k>> \in A
  /\ Leading(s) =>
        /\ s.matchIndex[i] = 0
        /\ \A j \in Server \ {i} : \A k \in 1..s.matchIndex[j] : <<j, s.currentTerm, k>> \in A

SafeInv(L, A) ==
  /\ A \subseteq Held
  /\ Accepts(L, A, rf)
  /\ Elects(L, A, rf)
  /\ \A U \in Nat, v \in Server, c \in Server :
        <<U, v, c>> \in votes => Supports(L, A, rf, U, v, c)
  /\ \A m \in msgs : SafeMsg(L, A, rf, m)
  /\ \A i \in Server : SafePeer(L, A, i, rf[i])
  /\ \A a \in applied : AppliedOK(L, A, a)

-----------------------------------------------------------------------------
(* Chosen and closed entries.                                               *)

(* An entry is not both chosen and closed.                                  *)
LEMMA NotBoth ==
  ASSUME NEW r, NEW A, NEW t, NEW n, Chosen(A, t, n)
  PROVE  ~Closed(r, A, t, n)
BY MajoritiesMeet DEF Chosen, Closed

(* An entry of term t in a lawful copy is the entry of the leader of t.     *)
LEMMA HasCopied ==
  ASSUME NEW L \in Histories, NEW l \in Seq(logEntry), Copied(L, l),
         NEW t \in Nat, NEW n \in Nat, Has(l, t, n)
  PROVE  Agree(l, L[t], n + 1) /\ Own(L, t, n)
<1>1. n + 1 \in 1..Len(l) /\ l[n + 1].Term = t
  BY DEF Has
<1>2. Agree(l, L[t], n + 1)
  BY <1>1 DEF Copied
<1>3. n + 1 <= Len(L[t]) /\ l[n + 1] = L[t][n + 1]
  BY <1>2 DEF Agree
<1> QED
  BY <1>1, <1>2, <1>3, HistoryType DEF Own, Has

(* Logs that agree on an entry both have it.                                *)
LEMMA HasAgree ==
  ASSUME NEW a \in Seq(logEntry), NEW b \in Seq(logEntry), NEW t, NEW n \in Nat,
         Has(a, t, n), Agree(a, b, n + 1)
  PROVE  Has(b, t, n)
BY DEF Has, Agree

(* Two copies that both have the entry agree up to it.                      *)
LEMMA BothHave ==
  ASSUME NEW L \in Histories, NEW a \in Seq(logEntry), NEW b \in Seq(logEntry),
         Copied(L, a), Copied(L, b), NEW t \in Nat, NEW n \in Nat, Has(a, t, n), Has(b, t, n)
  PROVE  Agree(a, b, n + 1)
<1>1. n + 1 \in Nat /\ n + 1 <= Len(a) /\ n + 1 <= Len(b) /\ a[n + 1].Term = b[n + 1].Term
  BY DEF Has
<1> QED
  BY <1>1, TermTells

(* A leader's log holds everything up to a chosen entry of an earlier term. *)
LEMMA ChosenCarries ==
  ASSUME NEW L, NEW E, Ledger(L, E), NEW A, NEW r, Elects(L, A, r),
         NEW t \in Nat, NEW n \in Nat, Chosen(A, t, n), Own(L, t, n),
         NEW T \in Nat, t <= T, L[T] # <<>>
  PROVE  Agree(L[T], L[t], n + 1)
<1>1. /\ L \in Histories /\ L[T] \in Seq(logEntry) /\ Copied(L, L[T])
  BY LedgerFacts
<1>2. /\ L[t] \in Seq(logEntry) /\ Copied(L, L[t])
  BY LedgerFacts
<1>3. Has(L[t], t, n)
  BY DEF Own
<1>4. Has(L[T], t, n)
  <2>1. CASE t = T
    BY <1>3, <2>1
  <2>2. CASE t < T
    BY <2>2, NotBoth DEF Elects, Carries
  <2> QED
    BY <2>1, <2>2
<1> QED
  BY <1>1, <1>2, <1>3, <1>4, BothHave

-----------------------------------------------------------------------------
(* How the pieces of the invariant last.                                    *)

(* What was chosen stays chosen.                                            *)
LEMMA ChosenStays ==
  ASSUME NEW A, NEW B, A \subseteq B, NEW t, NEW n, Chosen(A, t, n)
  PROVE  Chosen(B, t, n)
BY DEF Chosen

(* An entry of its leader's own term stays where it is.                     *)
LEMMA OwnStays ==
  ASSUME NEW L \in Histories, NEW M \in Histories, Grows(L, M), NEW t \in Nat, NEW n \in Nat,
         Own(L, t, n)
  PROVE  Own(M, t, n)
<1>1. Agree(L[t], M[t], Len(L[t])) /\ L[t] \in Seq(logEntry) /\ M[t] \in Seq(logEntry)
  BY HistoryType DEF Grows
<1>2. Has(L[t], t, n) /\ n + 1 <= Len(L[t]) /\ n + 1 \in Nat /\ Len(L[t]) \in Nat
  BY <1>1 DEF Own, Has
<1>3. Agree(L[t], M[t], n + 1)
  BY <1>1, <1>2, AgreeFacts
<1> QED
  BY <1>1, <1>2, <1>3, HasAgree DEF Own

(* What an index of a history holds does not change.                        *)
LEMMA OwnBefore ==
  ASSUME NEW L \in Histories, NEW M \in Histories, Grows(L, M), NEW t \in Nat, NEW n \in Nat,
         n < Len(L[t]), Own(M, t, n)
  PROVE  Own(L, t, n)
<1>1. Agree(L[t], M[t], Len(L[t])) /\ L[t] \in Seq(logEntry) /\ M[t] \in Seq(logEntry)
  BY HistoryType DEF Grows
<1>2. n + 1 <= Len(L[t]) /\ n + 1 \in Nat /\ Len(L[t]) \in Nat
  BY <1>1
<1>3. Agree(M[t], L[t], n + 1)
  <2>1. Agree(L[t], M[t], n + 1)
    BY <1>1, <1>2, AgreeFacts
  <2> QED
    BY <1>1, <1>2, <2>1, AgreeFacts
<1> QED
  BY <1>1, <1>3, HasAgree DEF Own

(* A commitment lasts: histories grow, the log may be extended, the term    *)
(* may rise and the index may be lower.                                     *)
LEMMA CommitStays ==
  ASSUME NEW L \in Histories, NEW M \in Histories, Grows(L, M), NEW A, NEW B, A \subseteq B,
         NEW l \in Seq(logEntry), NEW k \in Seq(logEntry), NEW u \in Nat, NEW w \in Nat, u <= w,
         NEW c \in Nat, NEW d \in Nat, d <= c,
         \A p \in Nat : p <= c + 1 /\ Agree(l, l, p) => Agree(k, l, p),
         CommitOK(L, A, l, u, c)
  PROVE  CommitOK(M, B, k, w, d)
<1>1. CASE c = 0
  BY <1>1 DEF CommitOK
<1>2. CASE c # 0
  <2>1. PICK t \in Nat, n \in Nat :
           /\ t <= u /\ c <= n /\ Chosen(A, t, n) /\ Own(L, t, n) /\ Agree(l, L[t], c + 1)
    BY <1>2 DEF CommitOK
  <2>2. /\ L[t] \in Seq(logEntry) /\ M[t] \in Seq(logEntry) /\ Agree(L[t], M[t], Len(L[t]))
        /\ c + 1 \in Nat /\ d + 1 \in Nat /\ d + 1 <= c + 1
    BY HistoryType DEF Grows
  <2>3. Agree(l, M[t], c + 1)
    BY <2>1, <2>2, AgreeChain
  <2>4. Agree(l, M[t], d + 1)
    BY <2>2, <2>3, AgreeFacts
  <2>5. Agree(l, l, d + 1)
    BY <2>4 DEF Agree
  <2>6. Agree(k, l, d + 1)
    BY <2>2, <2>5
  <2>7. Agree(k, M[t], d + 1)
    BY <2>2, <2>4, <2>6, AgreeFacts
  <2>8. Chosen(B, t, n) /\ Own(M, t, n)
    BY <2>1, ChosenStays, OwnStays
  <2>9. t <= w /\ d <= n
    BY <2>1
  <2> QED
    BY <2>7, <2>8, <2>9 DEF CommitOK
<1> QED
  BY <1>1, <1>2

(* What was delivered lawfully stays so.                                    *)
LEMMA AppliedStays ==
  ASSUME NEW L \in Histories, NEW M \in Histories, Grows(L, M), NEW A, NEW B, A \subseteq B,
         NEW a \in [term : Nat, entry : logEntry], AppliedOK(L, A, a)
  PROVE  AppliedOK(M, B, a)
<1>1. PICK t \in Nat, n \in Nat :
           /\ t <= a.term /\ a.entry.Index <= n /\ Chosen(A, t, n) /\ Own(L, t, n)
           /\ a.entry = L[t][a.entry.Index + 1]
  BY DEF AppliedOK
<1>2. /\ L[t] \in Seq(logEntry) /\ M[t] \in Seq(logEntry) /\ Agree(L[t], M[t], Len(L[t]))
  BY HistoryType DEF Grows
<1>3. a.entry.Index \in Nat
  BY DEF logEntry
<1>4. n < Len(L[t])
  BY <1>1 DEF Own, Has
<1>5. a.entry.Index + 1 \in 1..Len(L[t])
  BY <1>1, <1>2, <1>3, <1>4
<1>6. a.entry = M[t][a.entry.Index + 1]
  BY <1>1, <1>2, <1>5 DEF Agree
<1>7. Chosen(B, t, n) /\ Own(M, t, n)
  BY <1>1, ChosenStays, OwnStays
<1> QED
  BY <1>1, <1>6, <1>7 DEF AppliedOK

(* What peer j holds anew it holds in its present term.                     *)
Fresh(r, A, B) ==
  /\ A \subseteq B /\ B \subseteq Held
  /\ \A j \in Server, t \in Nat, n \in Nat :
        <<j, t, n>> \in B \ A => t >= r[j].currentTerm

(* Terms do not go back.                                                    *)
Later(r, q) ==
  \A j \in Server : /\ r[j].currentTerm \in Nat /\ q[j].currentTerm \in Nat
                    /\ r[j].currentTerm <= q[j].currentTerm

(* An entry that is closed stays closed.                                    *)
LEMMA ClosedStays ==
  ASSUME NEW r, NEW q, Later(r, q), NEW A, NEW B, Fresh(r, A, B),
         NEW t \in Nat, NEW n \in Nat, Closed(r, A, t, n)
  PROVE  Closed(q, B, t, n)
<1>1. PICK Q \in SUBSET Server :
          Majority(Q) /\ \A j \in Q : r[j].currentTerm > t /\ <<j, t, n>> \notin A
  BY DEF Closed
<1>2. ASSUME NEW j \in Q
      PROVE  q[j].currentTerm > t /\ <<j, t, n>> \notin B
  BY <1>1, <1>2 DEF Later, Fresh
<1> QED
  BY <1>1, <1>2 DEF Closed

(* A log that carries an entry goes on doing so if it does not lose it.     *)
LEMMA CarriesStays ==
  ASSUME NEW L \in Histories, NEW M \in Histories, Grows(L, M),
         NEW r, NEW q, Later(r, q), NEW A, NEW B, Fresh(r, A, B),
         NEW l, NEW k, NEW t \in Nat, NEW n \in Nat,
         Own(M, t, n) => Own(L, t, n),
         Own(L, t, n) /\ Has(l, t, n) => Has(k, t, n) \/ Closed(r, A, t, n) \/ Closed(q, B, t, n),
         Carries(L, A, r, l, t, n)
  PROVE  Carries(M, B, q, k, t, n)
<1>1. Closed(r, A, t, n) => Closed(q, B, t, n)
  BY ClosedStays
<1> QED
  BY <1>1 DEF Carries

-----------------------------------------------------------------------------
(* One peer takes a step.                                                   *)

(* What i comes to hold as it becomes u is in u's log.                      *)
Gains(M, A, B, i, u) ==
  \A j \in Server, t \in Nat, n \in Nat : <<j, t, n>> \in B \ A =>
     /\ j = i /\ t = u.currentTerm /\ n < Len(M[t])
     /\ Own(M, t, n) => Has(u.log, t, n)

(* What i had held it loses only if it is closed.                           *)
Keeps(L, A, r, i, u) ==
  \A t \in Nat, n \in Nat :
     <<i, t, n>> \in A /\ Own(L, t, n) /\ Has(r[i].log, t, n)
     => Has(u.log, t, n) \/ Closed(r, A, t, n)

(* A candidate that goes on standing does so with the same log.             *)
Calm(s, u) ==
  Standing(u) => \/ Standing(s) /\ u.currentTerm = s.currentTerm /\ u.log = s.log
                 \/ u.currentTerm > s.currentTerm

(* The step of i to u, with the histories it makes grow.                    *)
Moves(L, M, A, B, i, u) ==
  /\ L \in Histories /\ M \in Histories /\ Grows(L, M)
  /\ Later(rf, rf') /\ Fresh(rf, A, B)
  /\ rf'[i] = u /\ \A j \in Server \ {i} : rf'[j] = rf[j]
  /\ Gains(M, A, B, i, u) /\ Keeps(L, A, rf, i, u) /\ Calm(rf[i], u)

(* What has been held stays held.                                           *)
LEMMA AcceptsStep ==
  ASSUME NEW i \in Server, NEW u, NEW L, NEW M, NEW A, NEW B, Moves(L, M, A, B, i, u),
         Accepts(L, A, rf)
  PROVE  Accepts(M, B, rf')
<1> SUFFICES ASSUME NEW j \in Server, NEW t \in Nat, NEW n \in Nat, <<j, t, n>> \in B
             PROVE  /\ t <= rf'[j].currentTerm /\ n < Len(M[t])
                    /\ Carries(M, B, rf', rf'[j].log, t, n)
  BY DEF Accepts
<1>0. /\ L \in Histories /\ M \in Histories /\ Grows(L, M) /\ Later(rf, rf') /\ Fresh(rf, A, B)
      /\ rf'[i] = u /\ \A h \in Server \ {i} : rf'[h] = rf[h]
      /\ Gains(M, A, B, i, u) /\ Keeps(L, A, rf, i, u)
  BY DEF Moves
<1>1. CASE <<j, t, n>> \in A
  <2>1. t <= rf[j].currentTerm /\ n < Len(L[t]) /\ Carries(L, A, rf, rf[j].log, t, n)
    BY <1>1 DEF Accepts
  <2>2. t <= rf'[j].currentTerm
    BY <1>0, <2>1 DEF Later
  <2>3. n < Len(M[t])
    <3>1. Len(L[t]) <= Len(M[t]) /\ Len(L[t]) \in Nat
      BY <1>0, HistoryType DEF Grows, Agree
    <3>2. Len(M[t]) \in Nat
      BY <1>0, HistoryType
    <3> QED
      BY <2>1, <3>1, <3>2
  <2>4. Own(M, t, n) => Own(L, t, n)
    BY <1>0, <2>1, OwnBefore
  <2>5. Own(L, t, n) /\ Has(rf[j].log, t, n) => Has(rf'[j].log, t, n) \/ Closed(rf, A, t, n)
    BY <1>0, <1>1 DEF Keeps
  <2>6. Carries(M, B, rf', rf'[j].log, t, n)
    BY <1>0, <2>1, <2>4, <2>5, CarriesStays
  <2> QED
    BY <2>2, <2>3, <2>6
<1>2. CASE <<j, t, n>> \notin A
  <2>1. /\ j = i /\ t = u.currentTerm /\ n < Len(M[t]) /\ (Own(M, t, n) => Has(u.log, t, n))
    BY <1>0, <1>2 DEF Gains
  <2>2. rf'[j] = u /\ u.currentTerm \in Nat
    BY <1>0, <2>1 DEF Later
  <2> QED
    BY <2>1, <2>2 DEF Carries
<1> QED
  BY <1>1, <1>2

(* Later leaders go on carrying entries if no history grows.                *)
LEMMA ElectsStep ==
  ASSUME NEW i \in Server, NEW u, NEW L, NEW A, NEW B, Moves(L, L, A, B, i, u),
         Elects(L, A, rf)
  PROVE  Elects(L, B, rf')
<1> SUFFICES ASSUME NEW w \in Nat, NEW t \in Nat, NEW n \in Nat, t < w /\ L[w] # <<>>
             PROVE  Carries(L, B, rf', L[w], t, n)
  BY DEF Elects
<1>1. Carries(L, A, rf, L[w], t, n)
  BY DEF Elects
<1>2. L \in Histories /\ Grows(L, L) /\ Later(rf, rf') /\ Fresh(rf, A, B)
  BY DEF Moves
<1> QED
  BY <1>1, <1>2, CarriesStays

(* Old votes go on supporting.                                              *)
LEMMA SupportsStep ==
  ASSUME NEW i \in Server, NEW u, NEW L, NEW M, NEW A, NEW B, Moves(L, M, A, B, i, u),
         Accepts(L, A, rf), VotesKept',
         NEW U \in Nat, NEW v \in Server, NEW c \in Server, <<U, v, c>> \in votes',
         Supports(L, A, rf, U, v, c)
  PROVE  Supports(M, B, rf', U, v, c)
<1>0. /\ L \in Histories /\ M \in Histories /\ Grows(L, M) /\ Later(rf, rf') /\ Fresh(rf, A, B)
      /\ rf'[i] = u /\ \A h \in Server \ {i} : rf'[h] = rf[h]
      /\ Gains(M, A, B, i, u) /\ Keeps(L, A, rf, i, u) /\ Calm(rf[i], u)
  BY DEF Moves
<1>1. /\ rf[c].currentTerm \in Nat /\ rf'[c].currentTerm \in Nat
      /\ rf[c].currentTerm <= rf'[c].currentTerm /\ U <= rf[c].currentTerm
  BY <1>0 DEF Later, Supports
<1>2. U <= rf'[c].currentTerm
  BY <1>1
<1>3. ASSUME Standing(rf'[c]), rf'[c].currentTerm = U,
             NEW t \in Nat, NEW n \in Nat, t < U, <<v, t, n>> \in B
      PROVE  Carries(M, B, rf', rf'[c].log, t, n)
  <2>1. <<v, t, n>> \in A
    <3> SUFFICES ASSUME <<v, t, n>> \notin A
                 PROVE  FALSE
      OBVIOUS
    <3>1. v = i /\ t = u.currentTerm
      BY <1>0, <1>3 DEF Gains
    <3>2. rf'[v].currentTerm >= U
      <4>1. Kept(<<U, v, c>>, rf'[<<U, v, c>>[2]])
        BY DEF VotesKept
      <4>2. rf'[v].currentTerm \in Nat
        BY <1>0 DEF Later
      <4> QED
        BY <4>1, <4>2 DEF Kept
    <3> QED
      BY <1>0, <1>3, <3>1, <3>2
  <2>2. Standing(rf[c]) /\ rf[c].currentTerm = U /\ rf'[c].log = rf[c].log
    <3>1. CASE c = i
      BY <1>0, <1>1, <1>3, <3>1 DEF Calm
    <3>2. CASE c # i
      BY <1>0, <1>3, <3>2
    <3> QED
      BY <3>1, <3>2
  <2>3. Carries(L, A, rf, rf[c].log, t, n)
    BY <1>3, <2>1, <2>2 DEF Supports
  <2>4. Own(M, t, n) => Own(L, t, n)
    <3>1. n < Len(L[t])
      BY <2>1 DEF Accepts
    <3> QED
      BY <1>0, <3>1, OwnBefore
  <2> QED
    BY <1>0, <2>2, <2>3, <2>4, CarriesStays
<1> QED
  BY <1>2, <1>3 DEF Supports

(* What is in flight stays lawful.                                          *)
LEMMA MsgStays ==
  ASSUME NEW i \in Server, NEW u, NEW L, NEW M, NEW A, NEW B, Moves(L, M, A, B, i, u),
         NEW m, MsgOK(m), SafeMsg(L, A, rf, m)
  PROVE  SafeMsg(M, B, rf', m)
<1>0. /\ L \in Histories /\ M \in Histories /\ Grows(L, M) /\ Later(rf, rf') /\ Fresh(rf, A, B)
      /\ rf'[i] = u /\ \A h \in Server \ {i} : rf'[h] = rf[h]
      /\ Calm(rf[i], u) /\ A \subseteq B
  BY DEF Moves, Fresh
<1>1. CASE m.type = "RequestVote"
  <2> DEFINE c == m.CandidateId
  <2>1. c \in Server /\ m.Term \in Nat
    BY <1>1, VoteArgsFields
  <2>2. Describes(rf, m)
    BY <1>1 DEF SafeMsg
  <2>3. rf[c].currentTerm \in Nat /\ rf'[c].currentTerm \in Nat /\ rf[c].currentTerm <= rf'[c].currentTerm
    BY <1>0, <2>1 DEF Later
  <2>4. m.Term <= rf[c].currentTerm
    BY <2>2 DEF Describes
  <2>5. m.Term <= rf'[c].currentTerm
    BY <2>1, <2>3, <2>4
  <2>6. ASSUME Standing(rf'[c]), rf'[c].currentTerm = m.Term
        PROVE  m.LastLogIndex = getLastLogIndex(rf'[c]) /\ m.LastLogTerm = getLastLogTerm(rf'[c])
    <3>1. Standing(rf[c]) /\ rf[c].currentTerm = m.Term /\ rf'[c].log = rf[c].log
      <4>1. CASE c = i
        BY <1>0, <2>1, <2>3, <2>4, <2>6, <4>1 DEF Calm
      <4>2. CASE c # i
        BY <1>0, <2>1, <2>6, <4>2
      <4> QED
        BY <4>1, <4>2
    <3>2. m.LastLogIndex = getLastLogIndex(rf[c]) /\ m.LastLogTerm = getLastLogTerm(rf[c])
      BY <2>2, <3>1 DEF Describes
    <3> QED
      BY <3>1, <3>2 DEF getLastLogIndex, getLastLogTerm
  <2>7. Describes(rf', m)
    BY <2>5, <2>6 DEF Describes
  <2> QED
    BY <1>1, <2>7 DEF SafeMsg
<1>2. CASE m.type = "AppendEntries"
  <2>1. m.Term \in Nat /\ m.LeaderCommit \in Nat
    BY <1>2, AppendArgsFields
  <2> DEFINE l == L[m.Term]
             k == M[m.Term]
  <2>2. l \in Seq(logEntry) /\ k \in Seq(logEntry) /\ Agree(l, k, Len(l))
    BY <1>0, <2>1, HistoryType DEF Grows
  <2>3. CommitOK(L, A, l, m.Term, m.LeaderCommit)
    BY <1>2 DEF SafeMsg
  <2> HIDE DEF l, k
  <2>4. \A p \in Nat : Agree(l, l, p) => Agree(k, l, p)
    BY <2>2 DEF Agree
  <2>5. CommitOK(M, B, k, m.Term, m.LeaderCommit)
    BY <1>0, <2>1, <2>2, <2>3, <2>4, CommitStays
  <2> QED
    BY <1>2, <2>5 DEF SafeMsg, k
<1>3. CASE m.type \notin {"RequestVote", "AppendEntries"}
  BY <1>0, <1>3 DEF SafeMsg
<1> QED
  BY <1>1, <1>2, <1>3

(* The other peers stay lawful.                                             *)
LEMMA PeerStays ==
  ASSUME NEW L \in Histories, NEW M \in Histories, Grows(L, M), NEW A, NEW B, A \subseteq B,
         NEW j \in Server, NEW s, Good(s), SafePeer(L, A, j, s)
  PROVE  SafePeer(M, B, j, s)
<1>1. s.log \in Seq(logEntry) /\ s.currentTerm \in Nat /\ s.commitIndex \in Nat
  BY GoodFields
<1>2. CommitOK(L, A, s.log, s.currentTerm, s.commitIndex)
  BY DEF SafePeer
<1>3. CommitOK(M, B, s.log, s.currentTerm, s.commitIndex)
  BY <1>1, <1>2, CommitStays
<1> QED
  BY <1>3 DEF SafePeer

(* One peer takes a step: what has to be shown.                             *)
LEMMA SafeStep ==
  ASSUME TypeInv, NEW i \in Server, NEW u, NEW L, NEW M, NEW A, NEW B,
         Moves(L, M, A, B, i, u), SafeInv(L, A), VotesKept',
         \A U \in Nat, v \in Server, c \in Server :
            <<U, v, c>> \in votes' => <<U, v, c>> \in votes \/ Supports(M, B, rf', U, v, c),
         Elects(M, B, rf'),
         \A x \in msgs' : x \in msgs \/ SafeMsg(M, B, rf', x),
         SafePeer(M, B, i, u),
         \A a \in applied' : a \in applied \/ AppliedOK(M, B, a)
  PROVE  SafeInv(M, B)'
<1>0. /\ L \in Histories /\ M \in Histories /\ Grows(L, M) /\ A \subseteq B /\ B \subseteq Held
      /\ rf'[i] = u /\ \A h \in Server \ {i} : rf'[h] = rf[h]
  BY DEF Moves, Fresh
<1>1. /\ Accepts(L, A, rf)
      /\ \A U \in Nat, v \in Server, c \in Server :
            <<U, v, c>> \in votes => Supports(L, A, rf, U, v, c)
      /\ \A m \in msgs : SafeMsg(L, A, rf, m)
      /\ \A j \in Server : SafePeer(L, A, j, rf[j])
      /\ \A a \in applied : AppliedOK(L, A, a)
  BY DEF SafeInv
<1>2. Accepts(M, B, rf')
  BY <1>1, AcceptsStep
<1>3. ASSUME NEW U \in Nat, NEW v \in Server, NEW c \in Server, <<U, v, c>> \in votes'
      PROVE  Supports(M, B, rf', U, v, c)
  <2>1. CASE <<U, v, c>> \in votes
    <3>1. Supports(L, A, rf, U, v, c)
      BY <1>1, <2>1
    <3> QED
      BY <1>1, <1>3, <3>1, SupportsStep
  <2>2. CASE <<U, v, c>> \notin votes
    BY <1>3, <2>2
  <2> QED
    BY <2>1, <2>2
<1>4. ASSUME NEW x \in msgs'
      PROVE  SafeMsg(M, B, rf', x)
  <2>1. CASE x \in msgs
    <3>1. MsgOK(x) /\ SafeMsg(L, A, rf, x)
      BY <1>1, <2>1 DEF TypeInv, TypeRest
    <3> QED
      BY <3>1, MsgStays
  <2>2. CASE x \notin msgs
    BY <1>4, <2>2
  <2> QED
    BY <2>1, <2>2
<1>5. ASSUME NEW j \in Server
      PROVE  SafePeer(M, B, j, rf'[j])
  <2>1. CASE j = i
    BY <1>0, <2>1
  <2>2. CASE j # i
    <3>1. rf'[j] = rf[j] /\ Good(rf[j]) /\ SafePeer(L, A, j, rf[j])
      BY <1>0, <1>1, <2>2 DEF TypeInv, TypeRf
    <3>2. SafePeer(M, B, j, rf[j])
      BY <1>0, <3>1, PeerStays
    <3> QED
      BY <3>1, <3>2
  <2> QED
    BY <2>1, <2>2
<1>6. ASSUME NEW a \in applied'
      PROVE  AppliedOK(M, B, a)
  <2>1. CASE a \in applied
    <3>1. a \in [term : Nat, entry : logEntry] /\ AppliedOK(L, A, a)
      BY <1>1, <2>1 DEF TypeInv, TypeRest
    <3> QED
      BY <1>0, <3>1, AppliedStays
  <2>2. CASE a \notin applied
    BY <1>6, <2>2
  <2> QED
    BY <2>1, <2>2
<1> QED
  BY <1>0, <1>2, <1>3, <1>4, <1>5, <1>6 DEF SafeInv

(* Terms do not go back when one peer's does not.                           *)
LEMMA OneLater ==
  ASSUME TypeInv, NEW i \in Server, NEW u, Update(i, u), Good(u),
         u.currentTerm >= rf[i].currentTerm
  PROVE  Later(rf, rf') /\ rf'[i] = u /\ \A j \in Server \ {i} : rf'[j] = rf[j]
<1>1. /\ rf = [j \in Server |-> rf[j]] /\ \A j \in Server : Good(rf[j])
  BY DEF TypeInv, TypeRf
<1>2. rf'[i] = u /\ \A j \in Server \ {i} : rf'[j] = rf[j]
  BY <1>1 DEF Update
<1>3. u.currentTerm \in Nat
  BY GoodFields
<1>4. \A j \in Server : rf[j].currentTerm \in Nat
  BY <1>1, GoodFields
<1> QED
  BY <1>2, <1>3, <1>4 DEF Later

(* A step after which i has the same log, and nothing new is held.          *)
LEMMA SameLogMoves ==
  ASSUME TypeInv, NEW i \in Server, NEW u, Update(i, u), Good(u),
         u.currentTerm >= rf[i].currentTerm, u.log = rf[i].log, Calm(rf[i], u),
         NEW L \in Histories, NEW M \in Histories, Grows(L, M), NEW A, A \subseteq Held
  PROVE  Moves(L, M, A, A, i, u)
<1>1. Later(rf, rf') /\ rf'[i] = u /\ \A j \in Server \ {i} : rf'[j] = rf[j]
  BY OneLater
<1>2. Fresh(rf, A, A) /\ Gains(M, A, A, i, u) /\ Keeps(L, A, rf, i, u)
  BY DEF Fresh, Gains, Keeps
<1> QED
  BY <1>1, <1>2 DEF Moves

(* A quiet step keeps a peer lawful.                                        *)
LEMMA QuietSafePeer ==
  ASSUME NEW L \in Histories, NEW A, NEW i \in Server, NEW s, NEW u, Good(s), Good(u),
         Quiet(s, u), SafePeer(L, A, i, s)
  PROVE  SafePeer(L, A, i, u) /\ Calm(s, u)
<1>1. /\ s.log \in Seq(logEntry) /\ s.currentTerm \in Nat /\ s.commitIndex \in Nat
  BY GoodFields
<1>2. /\ u.currentTerm \in Nat /\ u.commitIndex \in Nat
  BY GoodFields
<1>3. /\ u.log = s.log /\ s.currentTerm <= u.currentTerm /\ u.commitIndex \in {s.commitIndex, 0}
      /\ u.state = "leader" => s.state = "leader" /\ u.currentTerm = s.currentTerm
      /\ Standing(u) => Standing(s) /\ u.currentTerm = s.currentTerm
      /\ Leading(u) => Leading(s) /\ u.matchIndex = s.matchIndex
  BY <1>1, <1>2 DEF Quiet
<1>4. CommitOK(L, A, u.log, u.currentTerm, u.commitIndex)
  <2>1. CASE u.commitIndex = 0
    BY <2>1 DEF CommitOK
  <2>2. CASE u.commitIndex = s.commitIndex
    <3>1. CommitOK(L, A, s.log, s.currentTerm, s.commitIndex)
      BY DEF SafePeer
    <3>2. Grows(L, L)
      BY GrowsSelf
    <3>3. CommitOK(L, A, s.log, u.currentTerm, s.commitIndex)
      BY <1>1, <1>2, <1>3, <3>1, <3>2, CommitStays
    <3> QED
      BY <1>3, <2>2, <3>3
  <2> QED
    BY <1>3, <2>1, <2>2
<1>5. Leading(u) => u.currentTerm = s.currentTerm
  BY <1>3 DEF Leading
<1>6. SafePeer(L, A, i, u)
  BY <1>3, <1>4, <1>5 DEF SafePeer
<1> QED
  BY <1>3, <1>6 DEF Calm

(* A quiet step of one peer.                                                *)
LEMMA QuietSafe ==
  ASSUME TypeInv, NEW L, LogInv(L), NEW A, SafeInv(L, A), VotesKept',
         NEW i \in Server, NEW u, Update(i, u), Good(u), Quiet(rf[i], u),
         \A U \in Nat, v \in Server, c \in Server :
            <<U, v, c>> \in votes' => <<U, v, c>> \in votes \/ Supports(L, A, rf', U, v, c),
         \A x \in msgs' : x \in msgs \/ SafeMsg(L, A, rf', x),
         applied' = applied
  PROVE  SafeInv(L, A)'
<1>0. /\ L \in Histories /\ Good(rf[i]) /\ SafePeer(L, A, i, rf[i]) /\ A \subseteq Held
      /\ Elects(L, A, rf)
  BY DEF LogInv, Ledger, TypeInv, TypeRf, SafeInv
<1>1. SafePeer(L, A, i, u) /\ Calm(rf[i], u)
  BY <1>0, QuietSafePeer
<1>2. u.currentTerm >= rf[i].currentTerm /\ u.log = rf[i].log
  BY DEF Quiet
<1>3. Moves(L, L, A, A, i, u)
  BY <1>0, <1>1, <1>2, GrowsSelf, SameLogMoves
<1>4. Elects(L, A, rf')
  BY <1>0, <1>3, ElectsStep
<1> QED
  BY <1>1, <1>3, <1>4, SafeStep

-----------------------------------------------------------------------------
(* Every step keeps the invariant, with histories that have grown.          *)

(* The service goroutine and the timers.                                    *)
LEMMA ServiceSafe ==
  ASSUME TypeInv, NEW L, LogInv(L), NEW A, SafeInv(L, A), VotesKept', NEW i \in Server,
         \/ runAsFollower(i) \/ FollowerTimeout(i) \/ FollowerResetsTimer(i)
         \/ runAsCandidate(i) \/ CandidateTimeout(i) \/ CandidateConverts(i)
         \/ LeaderConverts(i)
  PROVE  SafeInv(L, A)'
<1>1. PICK u : /\ Good(u) /\ Update(i, u) /\ Quiet(rf[i], u)
               /\ UNCHANGED <<msgs, votes, elected, applied>>
  BY ServiceQuiet
<1> QED
  BY <1>1, QuietSafe

(* A lost message.                                                          *)
LEMMA LoseSafe ==
  ASSUME NEW L, NEW A, SafeInv(L, A), NEW m \in msgs, Lose(m)
  PROVE  SafeInv(L, A)'
<1>1. UNCHANGED <<rf, votes, applied>> /\ msgs' \subseteq msgs
  BY DEF Lose
<1> QED
  BY <1>1 DEF SafeInv

(* An orphaned request says what the request said.                          *)
LEMMA OrphanSafe ==
  ASSUME NEW L, NEW A, NEW r, NEW m, MsgOK(m), isRequest(m), SafeMsg(L, A, r, m)
  PROVE  MsgOK(Orphan(m)) /\ SafeMsg(L, A, r, Orphan(m))
<1> DEFINE x == Orphan(m)
<1>1. /\ MsgOK(x) /\ x.type = m.type /\ x.Term = m.Term
      /\ m.type = "AppendEntries" => x.LeaderCommit = m.LeaderCommit
      /\ m.type = "RequestVote" =>
           /\ x.CandidateId = m.CandidateId /\ x.LastLogIndex = m.LastLogIndex
           /\ x.LastLogTerm = m.LastLogTerm
  BY OrphanFields
<1>2. m.type # "AppendEntriesReply"
  BY DEF isRequest
<1> HIDE DEF x
<1> SUFFICES MsgOK(x) /\ SafeMsg(L, A, r, x)
  BY DEF x
<1> QED
  BY <1>1, <1>2 DEF SafeMsg, Describes

(* A crash.                                                                 *)
LEMMA RestartSafe ==
  ASSUME TypeInv, NEW L, LogInv(L), NEW A, SafeInv(L, A), VotesKept', NEW i \in Server, Restart(i)
  PROVE  SafeInv(L, A)'
<1>0. /\ L \in Histories /\ Good(rf[i]) /\ SafePeer(L, A, i, rf[i]) /\ A \subseteq Held
      /\ \A x \in msgs : MsgOK(x) /\ SafeMsg(L, A, rf, x)
      /\ UNCHANGED <<votes, applied>>
  BY DEF LogInv, Ledger, TypeInv, TypeRf, TypeRest, SafeInv, Restart
<1>1. PICK u : Good(u) /\ Update(i, u) /\ Quiet(rf[i], u)
  BY RestartQuiet
<1>2. Calm(rf[i], u)
  BY <1>0, <1>1, QuietSafePeer
<1>3. u.currentTerm >= rf[i].currentTerm /\ u.log = rf[i].log
  BY <1>1 DEF Quiet
<1>4. Moves(L, L, A, A, i, u)
  BY <1>0, <1>1, <1>2, <1>3, GrowsSelf, SameLogMoves
<1>5. ASSUME NEW x \in msgs'
      PROVE  x \in msgs \/ SafeMsg(L, A, rf', x)
  <2>1. CASE \E m \in msgs : isRequest(m) /\ x = Orphan(m)
    <3>1. PICK m \in msgs : isRequest(m) /\ x = Orphan(m)
      BY <2>1
    <3>2. MsgOK(x) /\ SafeMsg(L, A, rf, x)
      BY <1>0, <3>1, OrphanSafe
    <3> QED
      BY <1>4, <3>2, MsgStays
  <2> QED
    BY <1>5, <2>1, RestartMsgs
<1> QED
  BY <1>0, <1>1, <1>5, QuietSafe

(* A candidacy leaves the log and its bookkeeping alone.                    *)
LEMMA CandidacyKeepsLog ==
  ASSUME NEW s, Good(s), NEW i \in Server, NEW t \in Nat
  PROVE  SameLog(s, Candidacy(s, i, t))
<1> DEFINE c == [s EXCEPT !.state = "candidate", !.currentTerm = t,
                          !.votedFor = i, !.service = "candidate",
                          !.vote = [term |-> t, voteRecord |-> {}]]
<1>1. /\ c \in RaftObject /\ c.log = s.log /\ c.commitIndex = s.commitIndex
      /\ c.nextIndex = s.nextIndex /\ c.matchIndex = s.matchIndex
  BY DEF Good, RaftObject
<1>2. Indexed(c.log)
  BY <1>1 DEF Good
<1> HIDE DEF c
<1>3. /\ persist(c).log = c.log /\ persist(c).commitIndex = c.commitIndex
      /\ persist(c).nextIndex = c.nextIndex /\ persist(c).matchIndex = c.matchIndex
  BY <1>1, <1>2, PersistGood
<1>4. Candidacy(s, i, t) = persist(c)
  BY DEF Candidacy, c
<1> QED
  BY <1>1, <1>3, <1>4 DEF SameLog

(* A new candidate: it votes for itself, and its requests describe its log. *)
LEMMA StartElectionSafe ==
  ASSUME TypeInv, NEW L, LogInv(L), NEW A, SafeInv(L, A), VotesKept',
         NEW i \in Server, StartElection(i)
  PROVE  SafeInv(L, A)'
<1> DEFINE u == Candidate(i)
<1>0. /\ TypeRf /\ L \in Histories /\ Good(rf[i]) /\ SafePeer(L, A, i, rf[i]) /\ A \subseteq Held
      /\ Elects(L, A, rf) /\ Accepts(L, A, rf) /\ rf[i].currentTerm \in Nat
      /\ LogOK(L, rf[i].log, rf[i].currentTerm)
  BY GoodFields DEF LogInv, Ledger, PeerLog, TypeInv, TypeRf, SafeInv
<1>1. /\ Good(u) /\ NewTerm(i) \in Nat /\ Update(i, u) /\ u.currentTerm = NewTerm(i)
      /\ u.state = "candidate" /\ u.service = "candidate"
      /\ \A m \in msgs' \ msgs : \E j \in Server : m = Ballot(i, j)
      /\ votes' = votes \cup {<<NewTerm(i), i, i>>} /\ applied' = applied
  BY <1>0, StartElectionEffect
<1>2. SameLog(rf[i], u)
  BY <1>0, <1>1, CandidacyKeepsLog DEF Candidate
<1>3. u.log = rf[i].log /\ u.commitIndex = rf[i].commitIndex
  BY <1>2 DEF SameLog
<1>4. u.currentTerm > rf[i].currentTerm
  BY <1>0, <1>1 DEF NewTerm
<1> HIDE DEF u
<1>5. Calm(rf[i], u) /\ u.currentTerm >= rf[i].currentTerm
  BY <1>0, <1>1, <1>4 DEF Calm
<1>6. Moves(L, L, A, A, i, u)
  BY <1>0, <1>1, <1>3, <1>5, GrowsSelf, SameLogMoves
<1>7. Elects(L, A, rf')
  BY <1>0, <1>6, ElectsStep
<1>8. Accepts(L, A, rf') /\ rf'[i] = u
  BY <1>0, <1>6, AcceptsStep DEF Moves
<1>9. Supports(L, A, rf', NewTerm(i), i, i)
  BY <1>1, <1>8 DEF Supports, Accepts
<1>10. ASSUME NEW j \in Server
       PROVE  SafeMsg(L, A, rf', Ballot(i, j))
  <2>1. /\ Ballot(i, j).type = "RequestVote" /\ Ballot(i, j).Term = NewTerm(i)
        /\ Ballot(i, j).CandidateId = i
        /\ Ballot(i, j).LastLogIndex = getLastLogIndex(u)
        /\ Ballot(i, j).LastLogTerm = IF getLastLogIndex(u) = 0 THEN 0 ELSE getLastLogTerm(u)
    BY DEF Ballot, u
  <2>2. getLastLogIndex(u) = 0 => getLastLogTerm(u) = 0
    <3>1. Len(u.log) \in Nat \ {0} /\ getLastLogIndex(u) = Len(u.log) - 1
      BY <1>1, LogShape
    <3>2. u.log[1] = zeroEntry
      BY <1>0, <1>3, <3>1 DEF LogOK
    <3> QED
      BY <3>1, <3>2 DEF getLastLogTerm, zeroEntry
  <2>3. Ballot(i, j).LastLogTerm = getLastLogTerm(u)
    BY <2>1, <2>2
  <2>4. Describes(rf', Ballot(i, j))
    BY <1>1, <1>8, <2>1, <2>3 DEF Describes
  <2> QED
    BY <2>1, <2>4 DEF SafeMsg
<1>11. SafePeer(L, A, i, u)
  <2>1. ~Leading(u) /\ u.state # "leader"
    BY <1>1 DEF Leading
  <2>2. /\ rf[i].log \in Seq(logEntry) /\ rf[i].commitIndex \in Nat
        /\ rf[i].currentTerm <= u.currentTerm /\ u.currentTerm \in Nat
    BY <1>0, <1>1, <1>4, GoodFields
  <2>3. CommitOK(L, A, rf[i].log, rf[i].currentTerm, rf[i].commitIndex)
    BY <1>0 DEF SafePeer
  <2>4. CommitOK(L, A, rf[i].log, u.currentTerm, rf[i].commitIndex)
    BY <1>0, <2>2, <2>3, GrowsSelf, CommitStays
  <2> QED
    BY <1>3, <2>1, <2>4 DEF SafePeer
<1>12. \A x \in msgs' : x \in msgs \/ SafeMsg(L, A, rf', x)
  BY <1>1, <1>10
<1>13. \A U \in Nat, v \in Server, c \in Server :
            <<U, v, c>> \in votes' => <<U, v, c>> \in votes \/ Supports(L, A, rf', U, v, c)
  BY <1>1, <1>9
<1> QED
  BY <1>1, <1>6, <1>7, <1>11, <1>12, <1>13, SafeStep

(* A log that is at least as up to date carries what the other one has.     *)
LEMMA UpToDateCarries ==
  ASSUME NEW L, NEW E, Ledger(L, E), NEW A, NEW r, Elects(L, A, r),
         NEW a \in Seq(logEntry), Copied(L, a), Ordered(a), Len(a) > 0,
         NEW b \in Seq(logEntry), Copied(L, b), Len(b) > 0,
         \/ b[Len(b)].Term > a[Len(a)].Term
         \/ b[Len(b)].Term = a[Len(a)].Term /\ Len(b) >= Len(a),
         NEW t \in Nat, NEW n \in Nat, Has(a, t, n)
  PROVE  Has(b, t, n) \/ Closed(r, A, t, n)
<1> DEFINE x == a[Len(a)].Term
           y == b[Len(b)].Term
<1>1. /\ L \in Histories /\ x \in Nat /\ y \in Nat /\ Len(a) \in Nat /\ Len(b) \in Nat
  <2>1. Len(a) \in 1..Len(a) /\ Len(b) \in 1..Len(b)
    OBVIOUS
  <2> QED
    BY <2>1, EntryFields DEF Ledger
<1>2. Agree(a, L[x], Len(a)) /\ Agree(b, L[y], Len(b))
  BY DEF Copied
<1>3. /\ L[x] \in Seq(logEntry) /\ L[y] \in Seq(logEntry)
  BY <1>1, HistoryType
<1>4. n + 1 \in 1..Len(a) /\ a[n + 1].Term = t
  BY DEF Has
<1>5. CASE y = x /\ Len(b) >= Len(a)
  <2>1. Agree(b, L[x], Len(b))
    BY <1>2, <1>5
  <2>2. Agree(b, L[x], Len(a))
    BY <1>1, <1>3, <1>5, <2>1, AgreeFacts
  <2>3. Agree(L[x], b, Len(a))
    BY <1>1, <1>3, <2>2, AgreeFacts
  <2>4. Agree(a, b, Len(a))
    BY <1>1, <1>2, <1>3, <2>3, AgreeFacts
  <2>5. Agree(a, b, n + 1)
    BY <1>4, <2>4, AgreeFacts
  <2> QED
    BY <2>5, HasAgree
<1>6. CASE y > x
  <2>1. t <= x
    BY <1>4 DEF Ordered
  <2>2. t < y
    BY <1>1, <1>6, <2>1
  <2>3. Len(b) <= Len(L[y]) /\ L[y][Len(b)].Term = y
    <3>1. Len(b) \in 1..Len(b)
      OBVIOUS
    <3> QED
      BY <1>2, <3>1 DEF Agree
  <2>4. L[y] # <<>>
    BY <1>1, <1>3, <2>3
  <2>5. Own(L, t, n)
    BY <1>1, HasCopied
  <2>6. CASE Has(L[y], t, n)
    <3>1. n + 1 <= Len(L[y]) /\ L[y][n + 1].Term = t
      BY <1>3, <2>6 DEF Has
    <3>2. Ordered(L[y])
      BY <1>1, LedgerFacts
    <3>3. n + 1 < Len(b)
      <4> SUFFICES ASSUME Len(b) <= n + 1
                   PROVE  FALSE
        BY <1>1
      <4>1. Len(b) \in 1..Len(L[y]) /\ n + 1 \in 1..Len(L[y])
        BY <1>1, <1>3, <2>3, <3>1
      <4>2. y <= t
        BY <2>3, <3>1, <3>2, <4>1 DEF Ordered
      <4> QED
        BY <1>1, <2>2, <4>2
    <3>4. Agree(L[y], b, Len(b))
      BY <1>1, <1>2, <1>3, AgreeFacts
    <3>5. Agree(L[y], b, n + 1)
      BY <1>1, <1>3, <3>3, <3>4, AgreeFacts
    <3> QED
      BY <1>3, <2>6, <3>5, HasAgree
  <2>7. Has(L[y], t, n) \/ Closed(r, A, t, n)
    BY <1>1, <2>2, <2>4, <2>5 DEF Elects, Carries
  <2> QED
    BY <2>6, <2>7
<1> QED
  BY <1>1, <1>5, <1>6

(* A vote: the candidate's log carries what the voter has held.             *)
LEMMA RequestVoteSafe ==
  ASSUME TypeInv, PromptService, NEW L, LogInv(L), NEW A, SafeInv(L, A), VotesKept',
         NEW i \in Server, NEW m \in msgs, RequestVote(i, m)
  PROVE  SafeInv(L, A)'
<1> DEFINE u == Voter(i, m)
           s == Checked(i, m)
           c == m.CandidateId
           T == m.Term
<1>0. /\ L \in Histories /\ Ledger(L, elected) /\ Good(rf[i]) /\ SafePeer(L, A, i, rf[i])
      /\ A \subseteq Held /\ Accepts(L, A, rf) /\ Elects(L, A, rf)
      /\ MsgOK(m) /\ m.type = "RequestVote" /\ Describes(rf, m)
  BY DEF LogInv, Ledger, TypeInv, TypeRf, TypeRest, SafeInv, SafeMsg, RequestVote
<1>1. /\ Good(u) /\ Quiet(rf[i], u) /\ Update(i, u) /\ SameLog(rf[i], u)
  BY VoterQuiet
<1>2. c \in Server /\ T \in Nat
  BY <1>0, VoteArgsFields
<1>3. /\ mayVote(s, m) => s.currentTerm = T
      /\ votes' = votes \cup (IF mayVote(s, m) THEN {<<s.currentTerm, i, c>>} ELSE {})
      /\ \A x \in msgs' : x \in msgs \/ x = VoteAnswer(i, m)
      /\ applied' = applied
  BY RequestVoteEffect
<1>4. CanLock(i)
  BY DEF RequestVote
<1>5. SameLog(rf[i], s) /\ Good(s)
  BY <1>2, <1>4, LockedQuiet
<1>6. \A x \in msgs' : x \in msgs \/ SafeMsg(L, A, rf', x)
  <2>1. VoteAnswer(i, m).type = "RequestVoteReply"
    BY DEF VoteAnswer
  <2> QED
    BY <1>3, <2>1 DEF SafeMsg
<1>7. Calm(rf[i], u)
  BY <1>0, <1>1, QuietSafePeer
<1>8. u.currentTerm >= rf[i].currentTerm /\ u.log = rf[i].log
  BY <1>1 DEF Quiet
<1> HIDE DEF u, s, c, T
<1>9. Moves(L, L, A, A, i, u)
  BY <1>0, <1>1, <1>7, <1>8, GrowsSelf, SameLogMoves
<1>10. ASSUME mayVote(s, m)
       PROVE  Supports(L, A, rf', T, i, c)
  <2>1. /\ rf[c].currentTerm \in Nat /\ rf'[c].currentTerm \in Nat
        /\ rf[c].currentTerm <= rf'[c].currentTerm /\ Later(rf, rf') /\ Fresh(rf, A, A)
    BY <1>2, <1>9 DEF Moves, Later
  <2>2. T <= rf[c].currentTerm
    BY <1>0 DEF Describes, T, c
  <2>3. ASSUME Standing(rf'[c]), rf'[c].currentTerm = T,
               NEW t \in Nat, NEW n \in Nat, t < T, <<i, t, n>> \in A
        PROVE  Carries(L, A, rf', rf'[c].log, t, n)
    <3>1. Standing(rf[c]) /\ rf[c].currentTerm = T /\ rf'[c].log = rf[c].log
      <4>1. CASE c = i
        <5>1. rf'[c] = u
          BY <1>9, <4>1 DEF Moves
        <5> QED
          BY <1>1, <1>8, <2>3, <4>1, <5>1 DEF Quiet
      <4>2. CASE c # i
        BY <1>2, <1>9, <2>3, <4>2 DEF Moves
      <4> QED
        BY <4>1, <4>2
    <3>2. m.LastLogIndex = getLastLogIndex(rf[c]) /\ m.LastLogTerm = getLastLogTerm(rf[c])
      BY <1>0, <3>1 DEF Describes, T, c
    <3>3. /\ Good(rf[c]) /\ LogOK(L, rf[c].log, rf[c].currentTerm)
          /\ LogOK(L, rf[i].log, rf[i].currentTerm)
      BY <1>2 DEF LogInv, PeerLog, TypeInv, TypeRf
    <3>4. /\ Copied(L, rf[c].log) /\ Copied(L, rf[i].log) /\ Ordered(rf[i].log)
      BY <3>3 DEF LogOK
    <3>5. /\ rf[c].log \in Seq(logEntry) /\ Len(rf[c].log) > 0
          /\ getLastLogIndex(rf[c]) = Len(rf[c].log) - 1 /\ Len(rf[c].log) \in Nat
      BY <3>3, GoodFields, LogShape
    <3>6. /\ rf[i].log \in Seq(logEntry) /\ Len(rf[i].log) > 0
          /\ getLastLogIndex(rf[i]) = Len(rf[i].log) - 1 /\ Len(rf[i].log) \in Nat
      BY <1>0, GoodFields, LogShape
    <3>7. s.log = rf[i].log
      BY <1>5 DEF SameLog
    <3>8. \/ m.LastLogTerm > getLastLogTerm(s)
          \/ m.LastLogTerm = getLastLogTerm(s) /\ m.LastLogIndex >= getLastLogIndex(s)
      BY <1>10 DEF mayVote, upToDate
    <3>9. getLastLogTerm(s) = getLastLogTerm(rf[i]) /\ getLastLogIndex(s) = getLastLogIndex(rf[i])
      BY <3>7 DEF getLastLogTerm, getLastLogIndex
    <3>10. \/ getLastLogTerm(rf[c]) > getLastLogTerm(rf[i])
           \/ getLastLogTerm(rf[c]) = getLastLogTerm(rf[i]) /\ Len(rf[c].log) >= Len(rf[i].log)
      BY <3>2, <3>5, <3>6, <3>8, <3>9
    <3>11. \/ rf[c].log[Len(rf[c].log)].Term > rf[i].log[Len(rf[i].log)].Term
           \/ /\ rf[c].log[Len(rf[c].log)].Term = rf[i].log[Len(rf[i].log)].Term
              /\ Len(rf[c].log) >= Len(rf[i].log)
      BY <3>10 DEF getLastLogTerm
    <3>12. Carries(L, A, rf, rf[i].log, t, n)
      BY <2>3 DEF Accepts, SafeInv
    <3>13. Has(rf[i].log, t, n) => Has(rf[c].log, t, n) \/ Closed(rf, A, t, n)
      BY <1>0, <3>4, <3>5, <3>6, <3>11, UpToDateCarries
    <3>14. Closed(rf, A, t, n) => Closed(rf', A, t, n)
      BY <2>1, ClosedStays
    <3> QED
      BY <3>1, <3>12, <3>13, <3>14 DEF Carries
  <2> QED
    BY <1>2, <2>1, <2>2, <2>3 DEF Supports, T
<1>11. \A U \in Nat, v \in Server, d \in Server :
            <<U, v, d>> \in votes' => <<U, v, d>> \in votes \/ Supports(L, A, rf', U, v, d)
  BY <1>3, <1>10 DEF T, c, s
<1> QED
  BY <1>1, <1>3, <1>6, <1>11, QuietSafe

(* A new leader has matched nothing yet.                                    *)
LEMMA RunAsLeaderSafe ==
  ASSUME TypeInv, RoleInv, NEW L, LogInv(L), NEW A, SafeInv(L, A), VotesKept',
         NEW i \in Server, runAsLeader(i)
  PROVE  SafeInv(L, A)'
<1> DEFINE f == [j \in Server |-> getLastLogIndex(rf[i]) + 1]
           g == [j \in Server |-> 0]
           u == [rf[i] EXCEPT !.state = "leader", !.service = "leader",
                              !.nextIndex = f, !.matchIndex = g]
<1>0. /\ L \in Histories /\ Good(rf[i]) /\ SafePeer(L, A, i, rf[i]) /\ A \subseteq Held
      /\ Elects(L, A, rf) /\ RoleOK(rf[i]) /\ rf[i].service = "asLeader"
      /\ UNCHANGED <<msgs, votes, applied>>
  BY DEF LogInv, Ledger, TypeInv, TypeRf, SafeInv, RoleInv, runAsLeader, ServiceLocks
<1>1. rf[i].state = "leader"
  BY <1>0 DEF RoleOK, InLoop
<1>2. Update(i, u)
  BY DEF runAsLeader
<1>3. f \in [Server -> Nat] /\ g \in [Server -> Nat]
  <2>1. getLastLogIndex(rf[i]) \in Nat
    BY <1>0, LogShape
  <2> QED
    BY <2>1
<1>4. Good(u)
  BY <1>0, <1>3, LeaderObject
<1>5. /\ u.log = rf[i].log /\ u.currentTerm = rf[i].currentTerm /\ u.commitIndex = rf[i].commitIndex
      /\ u.state = "leader" /\ u.matchIndex = g
  BY <1>0 DEF Good, RaftObject
<1>6. \A j \in Server : u.matchIndex[j] = 0
  BY <1>5
<1> HIDE DEF u, f, g
<1>7. ~Standing(u) /\ u.currentTerm >= rf[i].currentTerm
  BY <1>0, <1>5, GoodFields DEF Standing
<1>8. Moves(L, L, A, A, i, u)
  BY <1>0, <1>2, <1>4, <1>5, <1>7, GrowsSelf, SameLogMoves DEF Calm
<1>9. Elects(L, A, rf')
  BY <1>0, <1>8, ElectsStep
<1>10. SafePeer(L, A, i, u)
  BY <1>0, <1>1, <1>5, <1>6 DEF SafePeer
<1> QED
  BY <1>0, <1>8, <1>9, <1>10, SafeStep

(* A majority of voters has gone on to the term it voted in.                *)
LEMMA VotersMoveOn ==
  ASSUME TypeInv, VotesKept, NEW w \in Nat, NEW i, HasMajority(<<w, i>>)
  PROVE  \E Q \in SUBSET Server :
            /\ Majority(Q)
            /\ \A v \in Q : <<w, v, i>> \in votes /\ rf[v].currentTerm >= w
<1>1. PICK Q \in SUBSET Server : Majority(Q) /\ \A v \in Q : <<w, v, i>> \in votes
  BY DEF HasMajority
<1>2. ASSUME NEW v \in Q
      PROVE  rf[v].currentTerm >= w
  <2>1. Kept(<<w, v, i>>, rf[<<w, v, i>>[2]])
    BY <1>1 DEF VotesKept
  <2>2. rf[v].currentTerm \in Nat
    BY GoodFields DEF TypeInv, TypeRf
  <2> QED
    BY <2>1, <2>2 DEF Kept
<1> QED
  BY <1>1, <1>2

(* A winner's log carries every entry of an earlier term: one of its voters *)
(* had held it, or the voters close it.                                     *)
LEMMA WinnerCarries ==
  ASSUME TypeInv, VotesKept, NEW L, NEW A, SafeInv(L, A), NEW i \in Server,
         NEW w \in Nat, w = rf[i].currentTerm, Standing(rf[i]), HasMajority(<<w, i>>),
         NEW t \in Nat, NEW n \in Nat, t < w
  PROVE  Carries(L, A, rf, rf[i].log, t, n)
<1>1. PICK Q \in SUBSET Server :
            /\ Majority(Q)
            /\ \A v \in Q : <<w, v, i>> \in votes /\ rf[v].currentTerm >= w
  BY VotersMoveOn
<1>2. CASE \E v \in Q : <<v, t, n>> \in A
  <2>1. PICK v \in Q : <<v, t, n>> \in A
    BY <1>2
  <2>2. Supports(L, A, rf, w, v, i)
    BY <1>1, <2>1 DEF SafeInv
  <2> QED
    BY <2>1, <2>2 DEF Supports
<1>3. CASE \A v \in Q : <<v, t, n>> \notin A
  <2>1. ASSUME NEW v \in Q
        PROVE  rf[v].currentTerm > t
    <3>1. rf[v].currentTerm \in Nat
      BY GoodFields DEF TypeInv, TypeRf
    <3>2. rf[v].currentTerm >= w
      BY <1>1
    <3> QED
      BY <3>1, <3>2
  <2>2. Closed(rf, A, t, n)
    BY <1>1, <1>3, <2>1 DEF Closed
  <2> QED
    BY <2>2 DEF Carries
<1> QED
  BY <1>2, <1>3

(* A reply to a request for a vote: a quiet step, or a new leader.          *)
LEMMA VoteReplySafe ==
  ASSUME TypeInv, VoteInv, VoteInv', RoleInv, PromptService, OneWinnerPerTerm', NEW L, LogInv(L),
         NEW A, SafeInv(L, A), NEW i \in Server, NEW m \in msgs, VoteReply(i, m)
  PROVE  \E M : LogInv(M)' /\ SafeInv(M, A)'
<1> DEFINE T == rf[i].currentTerm
<1>0. /\ L \in Histories /\ Ledger(L, elected) /\ Good(rf[i]) /\ SafePeer(L, A, i, rf[i])
      /\ A \subseteq Held /\ Elects(L, A, rf) /\ PeerLog(L, elected, i, rf[i])
      /\ VotesKept /\ VotesKept'
  BY DEF LogInv, Ledger, TypeInv, TypeRf, SafeInv, VoteInv
<1>1. /\ msgs' \subseteq msgs /\ UNCHANGED <<votes, applied>>
      /\ \E u : /\ Good(u) /\ Update(i, u) /\ SameLog(rf[i], u)
                /\ \/ Quiet(rf[i], u)
                   \/ /\ Standing(rf[i]) /\ u.currentTerm = rf[i].currentTerm
                      /\ u.state = "leader" /\ u.service = "candidate"
                      /\ elected' = elected \cup {<<rf[i].currentTerm, i>>}
  BY VoteReplyCases
<1>2. PICK u : /\ Good(u) /\ Update(i, u) /\ SameLog(rf[i], u)
               /\ \/ Quiet(rf[i], u)
                  \/ /\ Standing(rf[i]) /\ u.currentTerm = rf[i].currentTerm
                     /\ u.state = "leader" /\ u.service = "candidate"
                     /\ elected' = elected \cup {<<rf[i].currentTerm, i>>}
  BY <1>1
<1>3. T \in Nat /\ rf[i].log \in Seq(logEntry) /\ rf[i].commitIndex \in Nat
  BY <1>0, GoodFields
<1>4. u.log = rf[i].log /\ u.commitIndex = rf[i].commitIndex
  BY <1>2 DEF SameLog
<1>5. ASSUME LogInv(L)', Quiet(rf[i], u)
      PROVE  SafeInv(L, A)'
  BY <1>0, <1>1, <1>2, <1>5, QuietSafe
<1>6. ASSUME Standing(rf[i]), u.state = "leader" \/ Quiet(rf[i], u),
             <<T, i>> \in elected',
             L[T] = <<>>, NEW M, M = Extended(L, T, rf[i].log), LogInv(M)'
      PROVE  SafeInv(M, A)'
  <2>0. \/ Quiet(rf[i], u)
        \/ u.currentTerm = rf[i].currentTerm /\ u.state = "leader" /\ u.service = "candidate"
    BY <1>2
  <2>1. Agree(L[T], rf[i].log, Len(L[T]))
    BY <1>3, <1>6 DEF Agree
  <2>2. /\ M \in Histories /\ Grows(L, M) /\ M[T] = rf[i].log
        /\ \A v \in Nat : v # T => M[v] = L[v]
    BY <1>0, <1>3, <1>6, <2>1, ExtendedGrows
  <2>3. u.currentTerm >= rf[i].currentTerm /\ Calm(rf[i], u)
    <3>1. CASE Quiet(rf[i], u)
      BY <1>0, <1>2, <3>1, QuietSafePeer DEF Quiet
    <3>2. CASE u.currentTerm = rf[i].currentTerm /\ u.state = "leader"
      BY <1>3, <3>2 DEF Calm, Standing
    <3> QED
      BY <2>0, <3>1, <3>2
  <2>4. Moves(L, M, A, A, i, u)
    BY <1>0, <1>2, <1>4, <2>2, <2>3, SameLogMoves
  <2>5. \A n \in Nat : ~Has(rf[i].log, T, n)
    BY <1>0, <1>3, <1>6 DEF PeerLog, Has
  <2>6. \A t \in Nat, n \in Nat : Own(M, t, n) => t # T /\ Own(L, t, n)
    BY <2>2, <2>5 DEF Own
  <2>7. HasMajority(<<T, i>>)
    <3>1. PICK e : e = <<T, i>>
      OBVIOUS
    <3>2. HasMajority(e)'
      BY <1>6, <3>1 DEF VoteInv, Winners
    <3>3. HasMajority(e)
      BY <1>1, <3>2 DEF HasMajority
    <3> QED
      BY <3>1, <3>3
  <2>8. Later(rf, rf') /\ Fresh(rf, A, A)
    BY <2>4 DEF Moves
  <2>9. Elects(M, A, rf')
    <3> SUFFICES ASSUME NEW w \in Nat, NEW t \in Nat, NEW n \in Nat, t < w /\ M[w] # <<>>
                 PROVE  Carries(M, A, rf', M[w], t, n)
      BY DEF Elects
    <3>1. Carries(L, A, rf, M[w], t, n)
      <4>1. CASE w = T
        <5>1. Carries(L, A, rf, rf[i].log, t, n)
          BY <1>0, <1>3, <1>6, <2>7, <4>1, WinnerCarries
        <5> QED
          BY <2>2, <4>1, <5>1
      <4>2. CASE w # T
        BY <1>0, <2>2, <4>2 DEF Elects
      <4> QED
        BY <4>1, <4>2
    <3> QED
      BY <1>0, <2>2, <2>6, <2>8, <3>1, CarriesStays
  <2>10. SafePeer(M, A, i, u)
    <3>1. SafePeer(M, A, i, rf[i])
      BY <1>0, <2>2, PeerStays
    <3>2. CASE Quiet(rf[i], u)
      BY <1>0, <1>2, <2>2, <3>1, <3>2, QuietSafePeer
    <3>3. CASE u.currentTerm = rf[i].currentTerm /\ u.state = "leader" /\ u.service = "candidate"
      <4>1. ~Leading(u)
        BY <3>3 DEF Leading
      <4>2. \A n \in Nat \ {0} : ~Has(u.log, u.currentTerm, n)
        BY <1>4, <2>5, <3>3
      <4> QED
        BY <1>4, <3>1, <3>3, <4>1, <4>2 DEF SafePeer
    <3> QED
      BY <2>0, <3>2, <3>3
  <2> QED
    BY <1>0, <1>1, <2>4, <2>9, <2>10, SafeStep
<1>7. \/ LogInv(L)' /\ elected' = elected
      \/ /\ Standing(rf[i]) /\ L[T] = <<>> /\ elected' = elected \cup {<<T, i>>}
         /\ \E M : M = Extended(L, T, rf[i].log) /\ LogInv(M)'
  BY VoteReplyLogs
<1>8. CASE LogInv(L)' /\ elected' = elected
  <2>1. Quiet(rf[i], u)
    <3> SUFFICES ASSUME Standing(rf[i]), <<T, i>> \in elected
                 PROVE  FALSE
      BY <1>2, <1>8
    <3> QED
      BY <1>0 DEF PeerLog
  <2> QED
    BY <1>5, <1>8, <2>1
<1>9. CASE /\ Standing(rf[i]) /\ L[T] = <<>> /\ elected' = elected \cup {<<T, i>>}
           /\ \E M : M = Extended(L, T, rf[i].log) /\ LogInv(M)'
  <2>1. PICK M : M = Extended(L, T, rf[i].log) /\ LogInv(M)'
    BY <1>9
  <2>2. SafeInv(M, A)'
    BY <1>2, <1>6, <1>9, <2>1
  <2> QED
    BY <2>1, <2>2
<1> QED
  BY <1>7, <1>8, <1>9

(* A history keeps its entries.                                             *)
LEMMA HasGrows ==
  ASSUME NEW L \in Histories, NEW M \in Histories, Grows(L, M), NEW w \in Nat,
         NEW t \in Nat, NEW n \in Nat, Has(L[w], t, n)
  PROVE  Has(M[w], t, n)
<1>1. L[w] \in Seq(logEntry) /\ M[w] \in Seq(logEntry) /\ Agree(L[w], M[w], Len(L[w]))
  BY HistoryType DEF Grows
<1>2. n + 1 <= Len(L[w]) /\ n + 1 \in Nat /\ Len(L[w]) \in Nat
  BY <1>1 DEF Has
<1>3. Agree(L[w], M[w], n + 1)
  BY <1>1, <1>2, AgreeFacts
<1> QED
  BY <1>1, <1>3, HasAgree

(* An entry that a leader makes after somebody has won a later term is      *)
(* closed from the start: the voters of that winner are past its term.      *)
LEMMA LateEntryClosed ==
  ASSUME TypeInv, VoteInv, NEW L, LogInv(L), NEW A, Accepts(L, A, rf), NEW i \in Server,
         NEW T \in Nat, T = rf[i].currentTerm, NEW w \in Nat, T < w, L[w] # <<>>,
         NEW n \in Nat, ~(n < Len(L[T])),
         NEW B, \A v \in Server : <<v, T, n>> \in B => <<v, T, n>> \in A \/ v = i
  PROVE  Closed(rf, B, T, n)
<1>1. Ledger(L, elected) /\ w \in Nat \ {0}
  BY DEF LogInv
<1>2. PICK j \in Server : <<w, j>> \in elected
  BY <1>1 DEF Ledger
<1>3. HasMajority(<<w, j>>) /\ VotesKept
  BY <1>2 DEF VoteInv, Winners
<1>4. PICK Q \in SUBSET Server :
            /\ Majority(Q)
            /\ \A v \in Q : <<w, v, j>> \in votes /\ rf[v].currentTerm >= w
  BY <1>3, VotersMoveOn
<1>5. ASSUME NEW v \in Q
      PROVE  rf[v].currentTerm > T /\ <<v, T, n>> \notin B
  <2>1. rf[v].currentTerm \in Nat /\ rf[v].currentTerm >= w
    BY <1>4, GoodFields DEF TypeInv, TypeRf
  <2>2. rf[v].currentTerm > T
    BY <2>1
  <2>3. <<v, T, n>> \notin A
    BY DEF Accepts
  <2> QED
    BY <2>2, <2>3
<1> QED
  BY <1>4, <1>5 DEF Closed

(* A leader appends a command: it is the first to hold the entry.           *)
LEMMA StartSafe ==
  ASSUME TypeInv, VoteInv, VotesKept', RoleInv, OneWinnerPerTerm, NEW L, LogInv(L),
         NEW A, SafeInv(L, A), NEW i \in Server, NEW command \in Command, Start(i, command)
  PROVE  \E M, B : LogInv(M)' /\ SafeInv(M, B)'
<1> DEFINE s == rf[i]
           T == rf[i].currentTerm
           l == Started(s, command)
           e == [Term |-> s.currentTerm, Index |-> getLastLogIndex(s) + 1, Command |-> command]
<1>0. /\ L \in Histories /\ Ledger(L, elected) /\ Good(s) /\ SafePeer(L, A, i, s)
      /\ A \subseteq Held /\ Elects(L, A, rf) /\ Accepts(L, A, rf) /\ PeerLog(L, elected, i, s)
      /\ s.state = "leader" /\ UNCHANGED <<msgs, votes, applied>>
  BY DEF LogInv, Ledger, TypeInv, TypeRf, SafeInv, VoteInv, Start
<1>1. /\ T \in Nat /\ s.log \in Seq(logEntry) /\ s.commitIndex \in Nat /\ Len(s.log) > 0
      /\ Len(s.log) \in Nat
  BY <1>0, GoodFields, LogShape
<1>2. e \in logEntry /\ e.Term = T
  BY StartLog
<1>3. \E u : /\ Good(u) /\ Update(i, u) /\ SameRole(s, u) /\ u.log = l
             /\ u.commitIndex = s.commitIndex /\ u.matchIndex = s.matchIndex
  BY StartLog
<1>4. PICK u : /\ Good(u) /\ Update(i, u) /\ SameRole(s, u) /\ u.log = l
               /\ u.commitIndex = s.commitIndex /\ u.matchIndex = s.matchIndex
  BY <1>3
<1>5. L[T] = s.log /\ LogOK(L, s.log, T)
  BY <1>0 DEF PeerLog
<1>6. /\ Append(s.log, e) \in Seq(logEntry) /\ Len(Append(s.log, e)) = Len(s.log) + 1
      /\ Agree(s.log, Append(s.log, e), Len(s.log))
  BY <1>0, <1>1, <1>2, <1>5, AppendOK
<1>7. l \in Seq(logEntry) /\ Len(l) = Len(s.log) + 1 /\ Agree(s.log, l, Len(s.log))
  BY <1>6 DEF Started
<1>8. PICK M : M = Extended(L, T, l) /\ LogInv(M)'
  BY StartLogs
<1>9. PICK B : B = A \cup {<<i, T, k>> : k \in 0..Len(s.log)}
  OBVIOUS
<1>10. u.currentTerm = T /\ u.state = "leader" /\ u.service = s.service
  BY <1>0, <1>4 DEF SameRole
<1>11. /\ M \in Histories /\ Grows(L, M) /\ M[T] = l /\ \A v \in Nat : v # T => M[v] = L[v]
  BY <1>0, <1>1, <1>5, <1>7, <1>8, ExtendedGrows
<1> HIDE DEF l, e
<1>12. /\ A \subseteq B /\ B \subseteq Held
       /\ \A j \in Server, t \in Nat, n \in Nat :
             <<j, t, n>> \in B \ A => j = i /\ t = T /\ n <= Len(s.log)
       /\ \A n \in Nat : n <= Len(s.log) => <<i, T, n>> \in B
  BY <1>0, <1>1, <1>9 DEF Held
<1>13. Moves(L, M, A, B, i, u)
  <2>1. /\ Later(rf, rf') /\ rf'[i] = u /\ \A j \in Server \ {i} : rf'[j] = rf[j]
    BY <1>1, <1>4, <1>10, OneLater
  <2>2. Fresh(rf, A, B)
    BY <1>1, <1>12 DEF Fresh
  <2>3. Gains(M, A, B, i, u)
    <3> SUFFICES ASSUME NEW j \in Server, NEW t \in Nat, NEW n \in Nat, <<j, t, n>> \in B \ A
                 PROVE  /\ j = i /\ t = u.currentTerm /\ n < Len(M[t])
                        /\ Own(M, t, n) => Has(u.log, t, n)
      BY DEF Gains
    <3>1. j = i /\ t = T /\ n <= Len(s.log)
      BY <1>12
    <3>2. n < Len(M[t])
      BY <1>1, <1>7, <1>11, <3>1
    <3> QED
      BY <1>4, <1>10, <1>11, <3>1, <3>2 DEF Own
  <2>4. Keeps(L, A, rf, i, u)
    <3> SUFFICES ASSUME NEW t \in Nat, NEW n \in Nat, Has(s.log, t, n)
                 PROVE  Has(u.log, t, n)
      BY DEF Keeps
    <3>1. Has(M[T], t, n)
      BY <1>0, <1>1, <1>5, <1>11, HasGrows
    <3> QED
      BY <1>4, <1>11, <3>1
  <2>5. Calm(s, u)
    BY <1>10 DEF Calm, Standing
  <2> QED
    BY <1>0, <1>11, <2>1, <2>2, <2>3, <2>4, <2>5 DEF Moves
<1>14. Later(rf, rf') /\ Fresh(rf, A, B)
  BY <1>13 DEF Moves
<1>15. Elects(M, B, rf')
  <2> SUFFICES ASSUME NEW w \in Nat, NEW t \in Nat, NEW n \in Nat, t < w /\ M[w] # <<>>
               PROVE  Carries(M, B, rf', M[w], t, n)
    BY DEF Elects
  <2>1. L[w] # <<>>
    BY <1>1, <1>5, <1>11
  <2>2. CASE n < Len(L[t])
    <3>1. Carries(L, A, rf, L[w], t, n)
      BY <1>0, <2>1 DEF Elects
    <3>2. Own(M, t, n) => Own(L, t, n)
      BY <1>0, <1>11, <2>2, OwnBefore
    <3>3. Has(L[w], t, n) => Has(M[w], t, n)
      BY <1>0, <1>11, HasGrows
    <3> QED
      BY <1>0, <1>11, <1>14, <3>1, <3>2, <3>3, CarriesStays
  <2>3. CASE ~(n < Len(L[t]))
    <3> SUFFICES ASSUME Own(M, t, n)
                 PROVE  Closed(rf', B, t, n)
      BY DEF Carries
    <3>1. t = T
      BY <1>11, <2>3 DEF Own, Has
    <3>2. \A v \in Server : <<v, T, n>> \in B => <<v, T, n>> \in A \/ v = i
      BY <1>1, <1>12
    <3>3. Closed(rf, B, T, n)
      BY <1>0, <1>1, <2>1, <2>3, <3>1, <3>2, LateEntryClosed
    <3>4. Fresh(rf, B, B)
      BY <1>12 DEF Fresh
    <3> QED
      BY <1>1, <1>14, <3>1, <3>3, <3>4, ClosedStays
  <2> QED
    BY <2>2, <2>3
<1>16. SafePeer(M, B, i, u)
  <2>1. SafePeer(M, B, i, s)
    BY <1>0, <1>11, <1>12, PeerStays
  <2>2. CommitOK(M, B, s.log, T, s.commitIndex)
    BY <2>1 DEF SafePeer
  <2>3. \A p \in Nat : Agree(s.log, s.log, p) => Agree(l, s.log, p)
    BY <1>1, <1>7 DEF Agree
  <2>4. CommitOK(M, B, l, T, s.commitIndex)
    BY <1>1, <1>7, <1>11, <2>2, <2>3, GrowsSelf, CommitStays
  <2>5. \A k \in Nat \ {0} : Has(u.log, T, k) => <<i, T, k>> \in B
    BY <1>1, <1>4, <1>7, <1>12 DEF Has
  <2>6. Leading(u) => Leading(s)
    BY <1>0, <1>10 DEF Leading
  <2>7. Leading(u) => /\ u.matchIndex[i] = 0
                      /\ \A j \in Server \ {i} : \A k \in 1..u.matchIndex[j] : <<j, T, k>> \in B
    BY <1>4, <2>1, <2>6 DEF SafePeer
  <2> QED
    BY <1>4, <1>10, <2>4, <2>5, <2>7 DEF SafePeer
<1>17. SafeInv(M, B)'
  BY <1>0, <1>13, <1>15, <1>16, SafeStep
<1> QED
  BY <1>8, <1>17

(* What the ticker sends is committed as far as the leader is.              *)
LEMMA SendSafe ==
  ASSUME TypeInv, RoleInv, NEW L, LogInv(L), NEW A, SafeInv(L, A), NEW i \in Server,
         NEW j \in Server, sendAppendEntriesTo(i, j)
  PROVE  SafeInv(L, A)'
<1>1. /\ rf[i].state = "leader" /\ UNCHANGED <<rf, votes, elected, applied>>
      /\ \E a : msgs' = msgs \cup {a} /\ Piece(rf[i], i, j, a)
  BY SendEffect
<1>2. PICK a : /\ msgs' = msgs \cup {a} /\ a.type = "AppendEntries"
               /\ a.Term = rf[i].currentTerm /\ a.LeaderCommit = rf[i].commitIndex
  BY <1>1 DEF Piece
<1>3. rf[i].log = L[rf[i].currentTerm]
  BY <1>1 DEF LogInv, PeerLog
<1>4. CommitOK(L, A, rf[i].log, rf[i].currentTerm, rf[i].commitIndex)
  BY DEF SafeInv, SafePeer
<1>5. SafeMsg(L, A, rf, a)
  BY <1>2, <1>3, <1>4 DEF SafeMsg
<1> QED
  BY <1>1, <1>2, <1>5 DEF SafeInv

(* What a peer delivers has been committed.                                 *)
LEMMA DeliveryOK ==
  ASSUME NEW L \in Histories, NEW A, NEW l \in Seq(logEntry), Indexed(l), NEW u \in Nat,
         NEW c \in Nat, CommitOK(L, A, l, u, c), NEW a \in Delivery(u, l, c)
  PROVE  AppliedOK(L, A, a)
<1>1. PICK k \in {x \in 1..c : x < Len(l)} : a = [term |-> u, entry |-> l[k + 1]]
  BY DEF Delivery
<1>2. k \in Nat /\ 1 <= k /\ k <= c /\ k < Len(l) /\ c # 0 /\ k + 1 \in 1..Len(l)
  BY <1>1
<1>3. a.entry = l[k + 1] /\ a.term = u /\ a.entry.Index = k
  <2>1. l[k + 1].Index = k
    BY <1>2 DEF Indexed
  <2> QED
    BY <1>1, <2>1
<1>4. PICK t \in Nat, n \in Nat :
         /\ t <= u /\ c <= n /\ Chosen(A, t, n) /\ Own(L, t, n) /\ Agree(l, L[t], c + 1)
  BY <1>2 DEF CommitOK
<1>5. l[k + 1] = L[t][k + 1]
  BY <1>2, <1>4 DEF Agree
<1>6. k <= n
  BY <1>2, <1>4
<1> QED
  BY <1>3, <1>4, <1>5, <1>6 DEF AppliedOK

(* A follower that accepts loses only what is closed.                       *)
LEMMA AcceptKeeps ==
  ASSUME NEW L, NEW E, Ledger(L, E), NEW A, NEW r, Accepts(L, A, r), Elects(L, A, r),
         NEW i \in Server, NEW u, r[i].log \in Seq(logEntry), u.log \in Seq(logEntry),
         r[i].currentTerm \in Nat, Copied(L, r[i].log),
         NEW T \in Nat, r[i].currentTerm <= T, L[T] # <<>>,
         \A n \in Nat : Agree(r[i].log, L[T], n) => Agree(u.log, L[T], n)
  PROVE  Keeps(L, A, r, i, u)
<1> SUFFICES ASSUME NEW t \in Nat, NEW n \in Nat, <<i, t, n>> \in A, Own(L, t, n),
                    Has(r[i].log, t, n), ~Closed(r, A, t, n)
             PROVE  Has(u.log, t, n)
  BY DEF Keeps
<1>1. /\ L \in Histories /\ L[T] \in Seq(logEntry) /\ Copied(L, L[T])
  BY LedgerFacts
<1>2. t <= T
  <2>1. t <= r[i].currentTerm
    BY DEF Accepts
  <2> QED
    BY <2>1
<1>3. Has(L[T], t, n)
  <2>1. CASE t = T
    BY <2>1 DEF Own
  <2>2. CASE t < T
    BY <2>2 DEF Elects, Carries
  <2> QED
    BY <1>2, <2>1, <2>2
<1>4. Agree(r[i].log, L[T], n + 1)
  BY <1>1, <1>3, BothHave
<1>5. Agree(u.log, L[T], n + 1)
  BY <1>4
<1>6. Agree(L[T], u.log, n + 1)
  BY <1>1, <1>5, AgreeFacts
<1> QED
  BY <1>1, <1>3, <1>6, HasAgree

(* A commitment that a follower has made it keeps as it accepts.            *)
LEMMA AcceptCommit ==
  ASSUME NEW L, NEW E, Ledger(L, E), NEW A, NEW r, Elects(L, A, r),
         NEW l \in Seq(logEntry), NEW k \in Seq(logEntry), NEW x \in Nat, NEW c \in Nat,
         CommitOK(L, A, l, x, c),
         NEW T \in Nat, x <= T, L[T] # <<>>,
         \A n \in Nat : Agree(l, L[T], n) => Agree(k, L[T], n)
  PROVE  CommitOK(L, A, k, T, c)
<1>1. CASE c = 0
  BY <1>1 DEF CommitOK
<1>2. CASE c # 0
  <2>1. PICK t \in Nat, n \in Nat :
           /\ t <= x /\ c <= n /\ Chosen(A, t, n) /\ Own(L, t, n) /\ Agree(l, L[t], c + 1)
    BY <1>2 DEF CommitOK
  <2>2. t <= T /\ c + 1 <= n + 1 /\ c + 1 \in Nat /\ n + 1 \in Nat
    BY <2>1
  <2>3. Agree(L[T], L[t], n + 1)
    BY <2>1, <2>2, ChosenCarries
  <2>4. L[T] \in Seq(logEntry) /\ L[t] \in Seq(logEntry)
    BY LedgerFacts
  <2>5. Agree(L[T], L[t], c + 1)
    BY <2>2, <2>3, <2>4, AgreeFacts
  <2>6. Agree(L[t], L[T], c + 1)
    BY <2>2, <2>4, <2>5, AgreeFacts
  <2>7. Agree(l, L[T], c + 1)
    BY <2>1, <2>2, <2>4, <2>6, AgreeFacts
  <2>8. Agree(k, L[T], c + 1)
    BY <2>2, <2>7
  <2>9. Agree(k, L[t], c + 1)
    BY <2>2, <2>4, <2>5, <2>8, AgreeFacts
  <2> QED
    BY <2>1, <2>2, <2>9 DEF CommitOK
<1> QED
  BY <1>1, <1>2

(* What the leader has committed is committed for a follower that agrees.   *)
LEMMA FollowCommit ==
  ASSUME NEW L \in Histories, NEW A, NEW T \in Nat, NEW c \in Nat,
         CommitOK(L, A, L[T], T, c), NEW k \in Seq(logEntry), NEW q \in Nat,
         Agree(k, L[T], q), NEW d \in Nat, d <= c, d + 1 <= q
  PROVE  CommitOK(L, A, k, T, d)
<1>1. L[T] \in Seq(logEntry)
  BY HistoryType
<1>2. CASE c = 0
  BY <1>2 DEF CommitOK
<1>3. CASE c # 0
  <2>1. PICK t \in Nat, n \in Nat :
           /\ t <= T /\ c <= n /\ Chosen(A, t, n) /\ Own(L, t, n) /\ Agree(L[T], L[t], c + 1)
    BY <1>3 DEF CommitOK
  <2>2. L[t] \in Seq(logEntry) /\ d + 1 \in Nat /\ c + 1 \in Nat /\ d + 1 <= c + 1 /\ d <= n
    BY <2>1, HistoryType
  <2>3. Agree(L[T], L[t], d + 1)
    BY <1>1, <2>1, <2>2, AgreeFacts
  <2>4. Agree(k, L[t], d + 1)
    BY <1>1, <2>2, <2>3, AgreeFacts
  <2> QED
    BY <2>1, <2>2, <2>4 DEF CommitOK
<1> QED
  BY <1>2, <1>3

(* AppendEntries: what a follower accepts it holds.                         *)
LEMMA AppendEntriesSafe ==
  ASSUME TypeInv, VotesKept', RoleInv, PromptService, OneWinnerPerTerm, NEW L, LogInv(L),
         NEW A, SafeInv(L, A), NEW i \in Server, NEW m \in msgs, AppendEntries(i, m)
  PROVE  \E B : SafeInv(L, B)'
<1> DEFINE T == m.Term
           q == m.PrevLogIndex + 1 + Len(m.Entries)
<1>0. /\ L \in Histories /\ Ledger(L, elected) /\ Good(rf[i]) /\ SafePeer(L, A, i, rf[i])
      /\ A \subseteq Held /\ Elects(L, A, rf) /\ Accepts(L, A, rf) /\ PeerLog(L, elected, i, rf[i])
      /\ MsgOK(m) /\ m.type = "AppendEntries" /\ SafeMsg(L, A, rf, m) /\ MsgLog(L, elected, m)
  BY DEF LogInv, Ledger, TypeInv, TypeRf, TypeRest, SafeInv, AppendEntries
<1>1. UNCHANGED <<votes, elected>> /\ (Refused(i, m) \/ \E t, u : Accepted(i, m, t, u))
  BY AppendEntriesCases
<1>2. CASE Refused(i, m)
  <2>1. PICK u : Good(u) /\ Update(i, u) /\ Quiet(rf[i], u)
    BY <1>2 DEF Refused
  <2>2. /\ applied' = applied
        /\ \A x \in msgs' : x \in msgs \/ (Answers(i, m, x) /\ x.Success = FALSE)
    BY <1>2 DEF Refused
  <2>3. \A x \in msgs' : x \in msgs \/ SafeMsg(L, A, rf', x)
    BY <2>2 DEF SafeMsg, Answers
  <2>4. SafeInv(L, A)'
    BY <1>1, <2>1, <2>2, <2>3, QuietSafe
  <2> QED
    BY <2>4
<1>3. CASE \E t, u : Accepted(i, m, t, u)
  <2>1. PICK t, u : Accepted(i, m, t, u)
    BY <1>3
  <2>2. /\ T \in Nat /\ m.PrevLogIndex \in Nat /\ Len(m.Entries) \in Nat
        /\ u.state = "follower" /\ u.log \in Seq(logEntry)
        /\ q <= Len(L[T]) /\ Agree(u.log, L[T], q)
        /\ \A n \in Nat : Agree(rf[i].log, L[T], n) => Agree(u.log, L[T], n)
    BY <2>1, AcceptCopies
  <2>3. /\ rf[i].currentTerm <= T /\ Good(u) /\ Update(i, u) /\ u.currentTerm = T
        /\ \/ u.commitIndex = rf[i].commitIndex
           \/ u.commitIndex <= m.LeaderCommit /\ u.commitIndex <= m.PrevLogIndex + Len(m.Entries)
        /\ applied' \subseteq applied \cup Delivery(T, u.log, u.commitIndex)
        /\ \A x \in msgs' : x \in msgs \/ Answers(i, m, x)
    BY <2>1 DEF Accepted
  <2>4. /\ rf[i].currentTerm \in Nat /\ rf[i].log \in Seq(logEntry) /\ rf[i].commitIndex \in Nat
    BY <1>0, GoodFields
  <2>5. u.commitIndex \in Nat /\ Indexed(u.log) /\ m.LeaderCommit \in Nat
    BY <1>0, <2>3, GoodFields, AppendArgsFields DEF Good
  <2>6. q \in Nat /\ q > 0 /\ q = m.PrevLogIndex + Len(m.Entries) + 1
    <3>1. m.PrevLogIndex \in Nat /\ Len(m.Entries) \in Nat
      BY <2>2
    <3> QED
      BY <3>1
  <2>7. L[T] # <<>>
    <3>1. L[T] \in Seq(logEntry) /\ Len(L[T]) > 0
      BY <1>0, <2>2, <2>6, HistoryType
    <3> QED
      BY <3>1
  <2>8. PICK B : B = A \cup {<<i, T, k>> : k \in 0..(q - 1)}
    OBVIOUS
  <2> HIDE DEF T, q
  <2>9. /\ A \subseteq B /\ B \subseteq Held
        /\ \A j \in Server, v \in Nat, n \in Nat :
              <<j, v, n>> \in B \ A => j = i /\ v = T /\ n < q
        /\ \A n \in Nat : n < q => <<i, T, n>> \in B
    BY <1>0, <2>2, <2>6, <2>8 DEF Held
  <2>10. Keeps(L, A, rf, i, u)
    <3>1. Copied(L, rf[i].log)
      BY <1>0 DEF PeerLog, LogOK
    <3> QED
      BY <1>0, <2>2, <2>3, <2>4, <2>7, <3>1, AcceptKeeps
  <2>11. Gains(L, A, B, i, u)
    <3> SUFFICES ASSUME NEW j \in Server, NEW v \in Nat, NEW n \in Nat, <<j, v, n>> \in B \ A
                 PROVE  /\ j = i /\ v = u.currentTerm /\ n < Len(L[v])
                        /\ Own(L, v, n) => Has(u.log, v, n)
      BY DEF Gains
    <3>1. j = i /\ v = T /\ n < q
      BY <2>9
    <3>2. L[T] \in Seq(logEntry) /\ Len(L[T]) \in Nat
      BY <1>0, <2>2, HistoryType
    <3>3. n < Len(L[v]) /\ n + 1 <= q /\ n + 1 \in Nat
      BY <2>2, <2>6, <3>1, <3>2
    <3>4. Agree(L[T], u.log, q)
      BY <2>2, <2>6, <3>2, AgreeFacts
    <3>5. Agree(L[T], u.log, n + 1)
      BY <2>2, <2>6, <3>2, <3>3, <3>4, AgreeFacts
    <3>6. Own(L, T, n) => Has(u.log, T, n)
      BY <2>2, <3>2, <3>5, HasAgree DEF Own
    <3> QED
      BY <2>3, <3>1, <3>3, <3>6
  <2>12. Moves(L, L, A, B, i, u)
    <3>1. u.currentTerm >= rf[i].currentTerm
      BY <2>2, <2>3, <2>4
    <3>2. Later(rf, rf') /\ rf'[i] = u /\ \A j \in Server \ {i} : rf'[j] = rf[j]
      BY <2>3, <3>1, OneLater
    <3>3. Fresh(rf, A, B)
      BY <2>2, <2>3, <2>4, <2>9 DEF Fresh
    <3>4. Calm(rf[i], u)
      BY <2>2 DEF Calm, Standing
    <3> QED
      BY <1>0, <2>10, <2>11, <3>2, <3>3, <3>4, GrowsSelf DEF Moves
  <2>13. Elects(L, B, rf')
    BY <1>0, <2>12, ElectsStep
  <2>14. CommitOK(L, B, u.log, T, u.commitIndex)
    <3>1. CommitOK(L, A, u.log, T, u.commitIndex)
      <4>1. CASE u.commitIndex = rf[i].commitIndex
        <5>1. CommitOK(L, A, rf[i].log, rf[i].currentTerm, rf[i].commitIndex)
          BY <1>0 DEF SafePeer
        <5>2. CommitOK(L, A, u.log, T, rf[i].commitIndex)
          BY <1>0, <2>2, <2>3, <2>4, <2>7, <5>1, AcceptCommit
        <5> QED
          BY <4>1, <5>2
      <4>2. CASE /\ u.commitIndex <= m.LeaderCommit
                 /\ u.commitIndex <= m.PrevLogIndex + Len(m.Entries)
        <5>1. CommitOK(L, A, L[T], T, m.LeaderCommit)
          BY <1>0 DEF SafeMsg, T
        <5>2. u.commitIndex + 1 <= q
          BY <2>2, <2>5, <2>6, <4>2
        <5> QED
          BY <1>0, <2>2, <2>5, <2>6, <4>2, <5>1, <5>2, FollowCommit
      <4> QED
        BY <2>3, <4>1, <4>2
    <3> QED
      BY <1>0, <2>2, <2>5, <2>9, <3>1, GrowsSelf, CommitStays
  <2>15. SafePeer(L, B, i, u)
    BY <2>2, <2>3, <2>14 DEF SafePeer, Leading
  <2>16. \A x \in msgs' : x \in msgs \/ SafeMsg(L, B, rf', x)
    <3> SUFFICES ASSUME NEW x, Answers(i, m, x)
                 PROVE  SafeMsg(L, B, rf', x)
      BY <2>3
    <3>1. /\ x.type = "AppendEntriesReply" /\ x.from = i /\ x.argsTerm = T
          /\ x.argsMatch = m.PrevLogIndex + Len(m.Entries)
      BY DEF Answers, T
    <3>2. \A k \in 1..x.argsMatch : <<i, T, k>> \in B
      BY <2>2, <2>6, <2>9, <3>1
    <3> QED
      BY <3>1, <3>2 DEF SafeMsg
  <2>17. \A a \in applied' : a \in applied \/ AppliedOK(L, B, a)
    <3>1. \A a \in Delivery(T, u.log, u.commitIndex) : AppliedOK(L, B, a)
      BY <1>0, <2>2, <2>5, <2>14, DeliveryOK
    <3> QED
      BY <2>3, <3>1
  <2>18. SafeInv(L, B)'
    BY <1>1, <2>12, <2>13, <2>15, <2>16, <2>17, SafeStep
  <2> QED
    BY <2>18
<1> QED
  BY <1>1, <1>2, <1>3

(* The peers that have matched an index, with the leader, hold the entry.   *)
LEMMA MatchedChosen ==
  ASSUME NEW A, NEW i \in Server, NEW T, NEW n \in Nat, n > 0, NEW f \in [Server -> Nat],
         f[i] = 0, <<i, T, n>> \in A,
         \A j \in Server \ {i} : \A k \in 1..f[j] : <<j, T, k>> \in A,
         1 + Cardinality({j \in Server : f[j] >= n}) > Cardinality(Server) \div 2
  PROVE  Chosen(A, T, n)
<1> DEFINE S == {j \in Server : f[j] >= n}
           Q == S \cup {i}
<1>1. i \notin S /\ IsFiniteSet(S)
  <2>1. S \subseteq Server
    OBVIOUS
  <2>2. IsFiniteSet(Server)
    BY ServerAssumption
  <2> QED
    BY <2>1, <2>2, FS_Subset
<1>2. Cardinality(Q) = Cardinality(S) + 1 /\ Cardinality(S) \in Nat
  BY <1>1, FS_AddElement, FS_CardinalityType
<1>3. Majority(Q)
  BY <1>2 DEF Majority
<1>4. \A j \in Q : <<j, T, n>> \in A
  OBVIOUS
<1> QED
  BY <1>3, <1>4 DEF Chosen

(* A reply to AppendEntries: what a majority has matched is chosen.         *)
LEMMA AppendReplySafe ==
  ASSUME TypeInv, VotesKept', RoleInv, PromptService, NEW L, LogInv(L), NEW A, SafeInv(L, A),
         NEW i \in Server, NEW m \in msgs, AppendReply(i, m)
  PROVE  SafeInv(L, A)'
<1> DEFINE s == rf[i]
           T == rf[i].currentTerm
           n == m.argsMatch
<1>0. /\ L \in Histories /\ Ledger(L, elected) /\ Good(s) /\ SafePeer(L, A, i, s)
      /\ A \subseteq Held /\ Elects(L, A, rf) /\ PeerLog(L, elected, i, s)
      /\ MsgOK(m) /\ m.type = "AppendEntriesReply" /\ SafeMsg(L, A, rf, m) /\ MsgLog(L, elected, m)
      /\ m.to = i
  BY DEF LogInv, Ledger, TypeInv, TypeRf, TypeRest, SafeInv, AppendReply
<1>1. /\ m.from \in Server /\ m.argsTerm \in Nat /\ n \in Nat
  BY <1>0, AppendReplyFields
<1>2. /\ UNCHANGED <<votes, elected>> /\ msgs' \subseteq msgs
      /\ \E u : /\ Good(u) /\ Update(i, u)
                /\ \/ Quiet(rf[i], u) /\ applied' = applied
                   \/ /\ Leading(rf[i]) /\ m.argsTerm = rf[i].currentTerm
                      /\ SameRole(rf[i], u) /\ u.log = rf[i].log
                      /\ Matched(i, m, u) \/ BackedUp(i, m, u)
  BY AppendReplyCases
<1>3. PICK u : /\ Good(u) /\ Update(i, u)
               /\ \/ Quiet(rf[i], u) /\ applied' = applied
                  \/ /\ Leading(rf[i]) /\ m.argsTerm = rf[i].currentTerm
                     /\ SameRole(rf[i], u) /\ u.log = rf[i].log
                     /\ Matched(i, m, u) \/ BackedUp(i, m, u)
  BY <1>2
<1>4. CASE Quiet(rf[i], u) /\ applied' = applied
  BY <1>2, <1>3, <1>4, QuietSafe
<1>5. CASE /\ Leading(rf[i]) /\ m.argsTerm = rf[i].currentTerm
           /\ SameRole(rf[i], u) /\ u.log = rf[i].log
           /\ Matched(i, m, u) \/ BackedUp(i, m, u)
  <2>1. /\ u.state = "leader" /\ u.currentTerm = T /\ u.log = s.log /\ u.service = s.service
        /\ s.state = "leader" /\ s.log = L[T] /\ Leading(s)
    BY <1>0, <1>5 DEF SameRole, Leading, PeerLog
  <2>2. /\ T \in Nat /\ s.log \in Seq(logEntry) /\ Len(s.log) \in Nat \ {0}
        /\ s.matchIndex \in [Server -> Nat]
    BY <1>0, GoodFields, LogShape
  <2>3. u.commitIndex \in Nat /\ u.matchIndex \in [Server -> Nat] /\ Indexed(u.log)
    BY <1>3, GoodFields DEF Good
  <2>4. /\ s.matchIndex[i] = 0
        /\ \A j \in Server \ {i} : \A k \in 1..s.matchIndex[j] : <<j, T, k>> \in A
        /\ \A k \in Nat \ {0} : Has(s.log, T, k) => <<i, T, k>> \in A
    BY <1>0, <2>1 DEF SafePeer
  <2>5. /\ u.matchIndex[i] = 0
        /\ \A j \in Server \ {i} : \A k \in 1..u.matchIndex[j] : <<j, T, k>> \in A
    <3>1. CASE Matched(i, m, u)
      <4>1. m.Success /\ u.matchIndex = [s.matchIndex EXCEPT ![m.from] = n]
        BY <3>1 DEF Matched
      <4>2. \A k \in 1..n : <<m.from, T, k>> \in A
        BY <1>0, <1>5, <4>1 DEF SafeMsg
      <4>3. m.from # i
        BY <1>0 DEF MsgLog
      <4> QED
        BY <1>1, <2>2, <2>4, <4>1, <4>2, <4>3
    <3>2. CASE BackedUp(i, m, u)
      BY <2>4, <3>2 DEF BackedUp
    <3> QED
      BY <1>5, <3>1, <3>2
  <2>6. CommitOK(L, A, u.log, T, u.commitIndex)
    <3>1. CASE u.commitIndex = s.commitIndex
      BY <1>0, <2>1, <3>1 DEF SafePeer
    <3>2. CASE /\ u.commitIndex = n /\ getLogEntry(s, n).Term = T
               /\ 1 + Cardinality({j \in Server : u.matchIndex[j] >= n})
                    > Cardinality(Server) \div 2
      <4>1. T > 0 /\ n + 1 <= Len(s.log)
        <5>1. <<T, i>> \in elected /\ n + 1 <= Len(L[T])
          BY <1>0, <1>5 DEF MsgLog
        <5>2. T > 0
          BY <1>0, <2>2, <5>1, LedgerFacts
        <5> QED
          BY <2>1, <5>1, <5>2
      <4>2. s.log[n + 1].Term = T
        <5>1. getLogEntry(s, n) = IF n < Len(s.log) THEN s.log[n + 1] ELSE zeroEntry
          BY <1>0, <1>1, LogShape
        <5>2. n < Len(s.log)
          BY <1>1, <2>2, <4>1
        <5> QED
          BY <3>2, <5>1, <5>2
      <4>3. n > 0
        <5>1. s.log[1] = zeroEntry
          BY <1>0, <2>2 DEF PeerLog, LogOK
        <5>2. zeroEntry.Term = 0
          BY DEF zeroEntry
        <5> QED
          BY <1>1, <2>2, <4>1, <4>2, <5>1, <5>2
      <4>4. Has(s.log, T, n)
        BY <1>1, <2>2, <4>1, <4>2 DEF Has
      <4>5. <<i, T, n>> \in A /\ Own(L, T, n)
        BY <1>1, <2>1, <2>4, <4>3, <4>4 DEF Own
      <4>6. Chosen(A, T, n)
        BY <1>1, <2>3, <2>5, <3>2, <4>3, <4>5, MatchedChosen
      <4>7. Agree(u.log, L[T], n + 1)
        BY <1>1, <2>1, <2>2, <4>1 DEF Agree
      <4> QED
        BY SMTT(30), <1>1, <2>2, <3>2, <4>5, <4>6, <4>7 DEF CommitOK
    <3> QED
      BY <1>5, <3>1, <3>2 DEF Matched, BackedUp
  <2>7. SafePeer(L, A, i, u)
    BY <2>1, <2>4, <2>5, <2>6 DEF SafePeer
  <2>8. \A a \in applied' : a \in applied \/ AppliedOK(L, A, a)
    <3>1. \A a \in Delivery(T, u.log, u.commitIndex) : AppliedOK(L, A, a)
      BY <1>0, <2>1, <2>2, <2>3, <2>6, DeliveryOK
    <3>2. applied' \subseteq applied \cup Delivery(T, u.log, u.commitIndex)
      BY <1>5 DEF Matched, BackedUp
    <3> QED
      BY <3>1, <3>2
  <2>9. Moves(L, L, A, A, i, u)
    <3>1. Calm(s, u) /\ u.currentTerm >= s.currentTerm
      BY <2>1, <2>2 DEF Calm, Standing
    <3> QED
      BY <1>0, <1>3, <2>1, <3>1, GrowsSelf, SameLogMoves
  <2>10. Elects(L, A, rf')
    BY <1>0, <2>9, ElectsStep
  <2> QED
    BY <1>2, <2>7, <2>8, <2>9, <2>10, SafeStep
<1> QED
  BY <1>3, <1>4, <1>5

-----------------------------------------------------------------------------
(* The invariant, and what it implies.                                      *)

Safe == \E L, A : LogInv(L) /\ SafeInv(L, A)

(* At first nobody has held, voted, sent or delivered anything.             *)
LEMMA InitSafe ==
  ASSUME Init
  PROVE  Safe
<1>1. PICK L : LogInv(L)
  BY InitLogs DEF LogsAgree
<1>2. Ledger(L, elected) /\ elected = {}
  BY <1>1 DEF LogInv, Init
<1>3. \A w \in Nat \ {0} : L[w] = <<>>
  BY <1>2 DEF Ledger
<1>4. Elects(L, {}, rf)
  <2>1. ASSUME NEW w \in Nat, NEW t \in Nat, t < w
        PROVE  L[w] = <<>>
    BY <1>3, <2>1
  <2> QED
    BY <2>1 DEF Elects
<1>5. Accepts(L, {}, rf)
  BY DEF Accepts
<1>6. \A i \in Server : SafePeer(L, {}, i, rf[i])
  BY DEF Init, Make, readPersist, SafePeer, CommitOK, Leading
<1>7. SafeInv(L, {})
  BY <1>4, <1>5, <1>6 DEF SafeInv, Init
<1> QED
  BY <1>1, <1>7 DEF Safe

(* Every step of a prompt service keeps the invariant.                      *)
LEMMA NextSafe ==
  ASSUME TypeInv, VoteInv, VoteInv', RoleInv, OneWinnerPerTerm, OneWinnerPerTerm', PromptService,
         Safe, [Next]_vars
  PROVE  Safe'
<1> SUFFICES ASSUME NEW L, NEW A, LogInv(L), SafeInv(L, A)
             PROVE  \E M, B : LogInv(M)' /\ SafeInv(M, B)'
  BY DEF Safe
<1>0. VotesKept'
  BY DEF VoteInv
<1>1. CASE UNCHANGED vars
  <2>1. LogInv(L)' /\ SafeInv(L, A)'
    BY <1>1 DEF vars, LogInv, SafeInv
  <2> QED
    BY <2>1
<1>2. CASE Next
  <2>1. PICK i \in Server :
            \/ ServiceSteps(i) \/ FollowerTimeout(i) \/ CandidateTimeout(i)
            \/ \E m \in msgs : Receive(i, m) \/ Lose(m)
            \/ VoteReplacesToken(i)
            \/ Ticks(i)
            \/ \E command \in Command : Start(i, command)
            \/ Restart(i)
    BY <1>2 DEF Next
  <2>2. CASE \/ runAsFollower(i) \/ FollowerTimeout(i) \/ FollowerResetsTimer(i)
             \/ runAsCandidate(i) \/ CandidateTimeout(i) \/ CandidateConverts(i)
             \/ LeaderConverts(i)
    BY <1>0, <2>2, QuietLogs, ServiceSafe
  <2>3. CASE StartElection(i)
    BY <1>0, <2>3, StartElectionLogs, StartElectionSafe
  <2>4. CASE runAsLeader(i)
    BY <1>0, <2>4, RunAsLeaderLogs, RunAsLeaderSafe
  <2>5. CASE \E m \in msgs : AppendEntries(i, m)
    BY <1>0, <2>5, AppendEntriesLogs, AppendEntriesSafe
  <2>6. CASE \E m \in msgs : AppendReply(i, m)
    BY <1>0, <2>6, AppendReplyLogs, AppendReplySafe
  <2>7. CASE \E m \in msgs : VoteReply(i, m)
    BY <2>7, VoteReplySafe
  <2>8. CASE VoteReplacesToken(i)
    BY <2>8, TokenNames DEF VoteReplacesToken, RoleInv, RoleOK
  <2>9. CASE Ticks(i)
    BY <2>9, SendLogs, SendSafe DEF Ticks
  <2>10. CASE \E command \in Command : Start(i, command)
    BY <1>0, <2>10, StartSafe
  <2>11. CASE Restart(i)
    BY <1>0, <2>11, QuietLogs, RestartSafe
  <2>12. CASE \E m \in msgs : Lose(m)
    BY <2>12, QuietLogs, LoseSafe
  <2>13. CASE \E m \in msgs : RequestVote(i, m)
    BY <1>0, <2>13, QuietLogs, RequestVoteSafe
  <2> QED
    BY <2>1, <2>2, <2>3, <2>4, <2>5, <2>6, <2>7, <2>8, <2>9, <2>10, <2>11, <2>12, <2>13
       DEF ServiceSteps, Receive
<1> QED
  BY <1>1, <1>2

(* Two lawful deliveries for the same index are of the same entry: the      *)
(* history of the later term contains the chosen entry of the earlier.      *)
LEMMA SafeDeliveries ==
  ASSUME TypeInv, Safe
  PROVE  StateMachineSafety
<1>1. PICK L, A : LogInv(L) /\ SafeInv(L, A)
  BY DEF Safe
<1>2. Ledger(L, elected) /\ Elects(L, A, rf) /\ \A a \in applied : AppliedOK(L, A, a)
  BY <1>1 DEF LogInv, SafeInv
<1>3. ASSUME NEW k \in Nat, NEW t \in Nat, NEW n \in Nat, NEW w \in Nat, NEW p \in Nat,
             k <= n, Chosen(A, t, n), Own(L, t, n),
             k <= p, Own(L, w, p), t <= w
      PROVE  L[t][k + 1] = L[w][k + 1]
  <2>1. L[w] # <<>>
    <3>1. L[w] \in Seq(logEntry) /\ p < Len(L[w])
      BY <1>2, <1>3, LedgerFacts DEF Own, Has
    <3> QED
      BY <3>1
  <2>2. Agree(L[w], L[t], n + 1)
    BY <1>2, <1>3, <2>1, ChosenCarries
  <2> QED
    BY <1>3, <2>2 DEF Agree
<1>4. ASSUME NEW a \in applied, NEW b \in applied, a.entry.Index = b.entry.Index
      PROVE  a.entry = b.entry
  <2>1. PICK t \in Nat, n \in Nat :
           /\ t <= a.term /\ a.entry.Index <= n /\ Chosen(A, t, n) /\ Own(L, t, n)
           /\ a.entry = L[t][a.entry.Index + 1]
    BY <1>2 DEF AppliedOK
  <2>2. PICK w \in Nat, p \in Nat :
           /\ w <= b.term /\ b.entry.Index <= p /\ Chosen(A, w, p) /\ Own(L, w, p)
           /\ b.entry = L[w][b.entry.Index + 1]
    BY <1>2 DEF AppliedOK
  <2>3. a.entry.Index \in Nat
    BY DEF TypeInv, TypeRest, logEntry
  <2>4. CASE t <= w
    BY <1>3, <1>4, <2>1, <2>2, <2>3, <2>4
  <2>5. CASE w <= t
    BY <1>3, <1>4, <2>1, <2>2, <2>3, <2>5
  <2> QED
    BY <2>4, <2>5
<1> QED
  BY <1>4 DEF StateMachineSafety

(* A leader's log is the history of its term, and so contains every entry   *)
(* that was chosen in an earlier term or in its own.                        *)
LEMMA SafeLeaders ==
  ASSUME TypeInv, Safe
  PROVE  LeaderCompleteness
<1>1. PICK L, A : LogInv(L) /\ SafeInv(L, A)
  BY DEF Safe
<1>2. Ledger(L, elected) /\ Elects(L, A, rf) /\ \A a \in applied : AppliedOK(L, A, a)
  BY <1>1 DEF LogInv, SafeInv
<1> SUFFICES ASSUME NEW i \in Server, rf[i].state = "leader",
                    NEW a \in applied, a.term <= rf[i].currentTerm
             PROVE  /\ hasLogEntry(rf[i], a.entry.Index)
                    /\ getLogEntry(rf[i], a.entry.Index) = a.entry
  BY DEF LeaderCompleteness
<1> DEFINE T == rf[i].currentTerm
           k == a.entry.Index
<1>3. Good(rf[i]) /\ rf[i].log = L[T]
  BY <1>1 DEF LogInv, PeerLog, TypeInv, TypeRf
<1>4. T \in Nat /\ k \in Nat /\ a.term \in Nat
  BY <1>3, GoodFields DEF TypeInv, TypeRest, logEntry
<1>5. PICK t \in Nat, n \in Nat :
         /\ t <= a.term /\ k <= n /\ Chosen(A, t, n) /\ Own(L, t, n) /\ a.entry = L[t][k + 1]
  BY <1>2 DEF AppliedOK
<1>6. L[T] # <<>> /\ Len(rf[i].log) \in Nat
  BY <1>3, LogShape
<1>7. t <= T
  BY <1>4, <1>5
<1>8. Agree(L[T], L[t], n + 1)
  BY <1>2, <1>4, <1>5, <1>6, <1>7, ChosenCarries
<1>9. k < Len(rf[i].log) /\ rf[i].log[k + 1] = a.entry
  <2>1. k \in Nat /\ k <= n /\ a.entry = L[t][k + 1]
    BY <1>4, <1>5
  <2> HIDE DEF T, k
  <2>2. k + 1 \in 1..(n + 1)
    BY <2>1
  <2>3. n + 1 <= Len(L[T]) /\ L[T][k + 1] = L[t][k + 1]
    BY <1>8, <2>2 DEF Agree
  <2>4. n + 1 <= Len(rf[i].log) /\ rf[i].log[k + 1] = a.entry
    BY <1>3, <2>1, <2>3
  <2> QED
    BY <1>6, <2>1, <2>4
<1>10. /\ hasLogEntry(rf[i], k) <=> k < Len(rf[i].log)
       /\ getLogEntry(rf[i], k) = IF k < Len(rf[i].log) THEN rf[i].log[k + 1] ELSE zeroEntry
  BY <1>3, <1>4, LogShape
<1> QED
  BY <1>9, <1>10

(* The invariants together.                                                 *)
LEMMA AlwaysSafe ==
  ASSUME PromptService
  PROVE  Spec => [](TypeInv /\ Safe)
<1>1. Init => Safe
  BY InitSafe
<1>2. Init => VoteInv
  BY InitVotes
<1>3. TypeInv /\ VoteInv /\ [Next]_vars => VoteInv'
  BY NextVotes
<1>4. /\ TypeInv /\ VoteInv /\ VoteInv' /\ RoleInv /\ OneWinnerPerTerm /\ OneWinnerPerTerm'
      /\ Safe /\ [Next]_vars
      => Safe'
  BY NextSafe
<1> QED
  BY <1>1, <1>2, <1>3, <1>4, LogsAlwaysAgree, PTL DEF Spec

(* With a prompt service goroutine, no two applyCh ever deliver different   *)
(* entries for the same index (AppendEntries, sendAppendEntriesTo and its   *)
(* commit rule, RequestVote and its up-to-date check): for any number of    *)
(* peers, terms, entries and crashes, and messages lost, repeated and       *)
(* reordered.                                                               *)
THEOREM NothingDiverges ==
  ASSUME PromptService
  PROVE  Spec => []StateMachineSafety
<1>1. TypeInv /\ Safe => StateMachineSafety
  BY SafeDeliveries
<1> QED
  BY <1>1, AlwaysSafe, PTL

(* With a prompt service goroutine, a leader's log holds every entry that   *)
(* any peer has delivered in an earlier term or in the leader's own: what   *)
(* has been committed survives every change of leader.                      *)
THEOREM LeadersComplete ==
  ASSUME PromptService
  PROVE  Spec => []LeaderCompleteness
<1>1. TypeInv /\ Safe => LeaderCompleteness
  BY SafeLeaders
<1> QED
  BY <1>1, AlwaysSafe, PTL

=============================================================================
