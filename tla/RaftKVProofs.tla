---------------------------- MODULE RaftKVProofs ----------------------------
(***************************************************************************)
(* Proofs about the key/value service of module RaftKV.                     *)
(***************************************************************************)
EXTENDS RaftKV, FiniteSetTheorems, NaturalsInduction, SequenceTheorems, TLAPS

-----------------------------------------------------------------------------
(* The inductive invariants.                                                *)

(* Operations are those of their Clerk, a Clerk that waits has a call, and  *)
(* a handler past Start finds its entry in the map callBack.                *)
ClerksOK ==
    \A c \in Client :
        /\ clerk[c].op # Nil => /\ clerk[c].op.ClientId = c
                                /\ clerk[c].op.ClientSeq = clerk[c].seq - 1
        /\ clerk[c].calling => clerk[c].op # Nil /\ call[c] # <<>>

HandlersOK ==
    \A c \in Client : \A k \in 1..Len(call[c]) :
        /\ call[c][k].op.ClientId = c
        /\ call[c][k].pc \in {"started", "waiting", "timedOut"} =>
              kv[call[c][k].server].callBack[c] # Nil

(* A server has not received more than is committed.                        *)
ReceivedOK ==
    \A s \in Server :
        /\ kv[s].applied <= Len(chosen)
        /\ kv[s].offered => kv[s].applied < Len(chosen)

KVTypes == TypeOK /\ ClerksOK /\ HandlersOK /\ ReceivedOK

(* On s, seqCheck is the highest sequence number received from each client, *)
(* no value held is of a later one, and a key holds what AppendsOnceInOrder *)
(* and StoreIsReplay say.                                                   *)
SeqCheckOK(s) ==
    /\ \A q \in 1..kv[s].applied :
          chosen[q].ClientSeq <= kv[s].seqCheck[chosen[q].ClientId]
    /\ \A c \in Client : kv[s].seqCheck[c] # -1 =>
          \E q \in 1..kv[s].applied :
              chosen[q].ClientId = c /\ chosen[q].ClientSeq = kv[s].seqCheck[c]

OrderOK(held, seqCheck) ==
    /\ \A i \in 1..Len(held) : held[i][2] <= seqCheck[held[i][1]]
    /\ \A i, j \in 1..Len(held) :
          (i < j /\ held[i][1] = held[j][1]) => held[i][2] < held[j][2]

StoreAt(s) ==
    /\ SeqCheckOK(s)
    /\ \A key \in Key : OrderOK(kv[s].db[key], kv[s].seqCheck)
    /\ \A key \in Key : kv[s].db[key] = Replay(kv[s].applied, key)

StoreOK == \A s \in Server : StoreAt(s)

(* Without partitions a Clerk has one handler at a time.                    *)
OneHandler(c) ==
    /\ \A k \in 1..Len(call[c]) :
          call[c][k].pc # "gone" => k = Len(call[c]) /\ clerk[c].calling
    /\ clerk[c].calling => Latest(c).op = clerk[c].op

(* The latest handler of c is at s and waits for an answer.                 *)
WaitsAt(c, s) ==
    clerk[c].calling /\ Latest(c).server = s /\ Latest(c).pc \in {"waiting", "timedOut"}

(* Who listens is the handler that waits, for the operation of its Clerk.   *)
ListensAt(c, s) == kv[s].callBack[c] # Nil /\ kv[s].callBack[c].listen = TRUE

ListenOK(c, s) ==
    ListensAt(c, s) =>
        WaitsAt(c, s) /\ kv[s].callBack[c].wantSeq = clerk[c].op.ClientSeq

(* What is sent is sent with the mutex held to the handler that waits for   *)
(* it, and nobody listens meanwhile.                                        *)
SendsTo(c, s) ==
    kv[s].serving # Nil /\ kv[s].serving.sending = TRUE /\ kv[s].serving.op.ClientId = c

SendOK(c, s) ==
    SendsTo(c, s) =>
        /\ kv[s].serving.locked = TRUE
        /\ WaitsAt(c, s)
        /\ kv[s].serving.op = clerk[c].op
        /\ kv[s].callBack[c] # Nil /\ ~ListensAt(c, s)

(* An answer is that of a place where the operation was executed.           *)
AnsweredAt(c, n) ==
    /\ chosen[n] = clerk[c].op
    /\ clerk[c].op.Op = "Get" => Latest(c).value = Replay(n - 1, clerk[c].op.Key)

AnswerOK(c) ==
    clerk[c].calling /\ Latest(c).pc = "ok" => \E n \in 1..Len(chosen) : AnsweredAt(c, n)

(* What was committed before an operation was invoked is of earlier ones.   *)
SinceOK(c) ==
    clerk[c].op # Nil =>
        /\ clerk[c].since <= Len(chosen)
        /\ \A q \in 1..clerk[c].since :
              chosen[q].ClientId = c => chosen[q].ClientSeq < clerk[c].op.ClientSeq

ConnectionOK(c) ==
    /\ OneHandler(c) /\ AnswerOK(c) /\ SinceOK(c)
    /\ \A s \in Server : ListenOK(c, s) /\ SendOK(c, s)

(* What is being executed is what was received last, with the value its key *)
(* had before.                                                              *)
ServingOK(s) ==
    kv[s].serving # Nil =>
        /\ kv[s].applied > 0
        /\ kv[s].serving.op = chosen[kv[s].applied]
        /\ kv[s].serving.op.Op = "Get" =>
              kv[s].serving.value = Replay(kv[s].applied - 1, kv[s].serving.op.Key)

(* An operation in Raft is not later than its Clerk's, and, if it has the   *)
(* number of the one the Clerk is busy with, is that one.                   *)
NotAhead(op) ==
    /\ op.ClientSeq < clerk[op.ClientId].seq
    /\ clerk[op.ClientId].op # Nil /\ op.ClientSeq = clerk[op.ClientId].op.ClientSeq =>
          op = clerk[op.ClientId].op

InRaftOK ==
    /\ \A q \in 1..Len(chosen) : NotAhead(chosen[q])
    /\ \A s \in Server : \A q \in 1..Len(tail[s]) : NotAhead(tail[s][q])

ResultsOK == AcknowledgedIsExecuted /\ ReadsAreCurrent

ClerksServed ==
    /\ \A c \in Client : ConnectionOK(c)
    /\ \A s \in Server : ServingOK(s)
    /\ InRaftOK
    /\ ResultsOK

-----------------------------------------------------------------------------
(* What the steps do to the variables, field by field.                      *)

(* A Clerk is busy with a new operation.                                    *)
LEMMA InvokeEffect ==
  ASSUME TypeOK, NEW c \in Client, NEW method \in Method, NEW key \in Key,
         Invoke(c, method, key)
  PROVE  /\ clerk[c].op = Nil
         /\ clerk' \in [Client -> Clerk]
         /\ \A d \in Client \ {c} : clerk'[d] = clerk[d]
         /\ clerk'[c].op = [Op |-> method, Key |-> key, ClientId |-> c,
                            ClientSeq |-> clerk[c].seq]
         /\ clerk'[c].op \in Ops
         /\ clerk'[c].op.ClientId = c
         /\ clerk'[c].op.ClientSeq = clerk[c].seq
         /\ clerk'[c].seq = clerk[c].seq + 1
         /\ clerk'[c].since = Len(chosen)
         /\ clerk'[c].calling = clerk[c].calling
         /\ UNCHANGED <<call, kv, chosen, tail, restarts, results>>
<1> DEFINE o == [Op |-> method, Key |-> key, ClientId |-> c, ClientSeq |-> clerk[c].seq]
           f == clerk[c]
           n == Len(chosen)
           m == f.seq + 1
           r == [f EXCEPT !.op = o, !.seq = m, !.since = n]
<1>1. clerk[c] \in Clerk /\ clerk \in [Client -> Clerk] /\ Len(chosen) \in Nat
  BY DEF TypeOK
<1>2. o \in Ops /\ o.ClientId = c /\ o.ClientSeq = clerk[c].seq
  BY <1>1 DEF Ops, Clerk
<1>3. clerk' = [clerk EXCEPT ![c] = r]
  BY DEF Invoke
<1>4. r \in Clerk /\ r.op = o /\ r.seq = f.seq + 1 /\ r.since = n
      /\ r.calling = f.calling
  <2>1. f \in Clerk /\ n \in Nat /\ o \in Ops /\ m \in Nat
    BY <1>1, <1>2 DEF f, n, Clerk
  <2> HIDE DEF o, f, n, m
  <2>2. r \in Clerk /\ r.op = o /\ r.seq = m /\ r.since = n
        /\ r.calling = f.calling
    BY <2>1 DEF Clerk
  <2> QED BY <2>2 DEF m
<1> HIDE DEF o, f, n, m
<1>5. clerk'[c] = r /\ clerk' \in [Client -> Clerk]
      /\ \A d \in Client \ {c} : clerk'[d] = clerk[d]
  BY <1>1, <1>3, <1>4
<1> HIDE DEF r
<1> QED BY <1>2, <1>4, <1>5 DEF Invoke, o, f, n, m

(* A handler is called for the operation of its Clerk.                      *)
LEMMA CallEffect ==
  ASSUME TypeOK, NEW c \in Client, Call(c)
  PROVE  /\ clerk[c].op # Nil /\ clerk[c].calling = FALSE
         /\ clerk' \in [Client -> Clerk]
         /\ \A d \in Client \ {c} : clerk'[d] = clerk[d]
         /\ clerk'[c].op = clerk[c].op /\ clerk'[c].seq = clerk[c].seq
         /\ clerk'[c].since = clerk[c].since /\ clerk'[c].calling = TRUE
         /\ call' \in [Client -> Seq(Handler)]
         /\ \A d \in Client \ {c} : call'[d] = call[d]
         /\ \E h \in Handler :
               h.op = clerk[c].op /\ h.pc = "called" /\ call'[c] = Append(call[c], h)
         /\ UNCHANGED <<kv, chosen, tail, restarts, results>>
<1>1. clerk[c] \in Clerk /\ clerk \in [Client -> Clerk]
      /\ call[c] \in Seq(Handler) /\ call \in [Client -> Seq(Handler)]
  BY DEF TypeOK
<1>2. clerk[c].op \in Ops /\ clerk[c].calling = FALSE /\ clerk[c].op # Nil
  BY <1>1 DEF Call, Clerk
<1> DEFINE r == [clerk[c] EXCEPT !.calling = TRUE]
<1>3. r \in Clerk /\ r.op = clerk[c].op /\ r.seq = clerk[c].seq
      /\ r.since = clerk[c].since /\ r.calling = TRUE
  BY <1>1 DEF Clerk
<1>4. clerk' = [clerk EXCEPT ![c] = r]
  BY DEF Call
<1>5. PICK addr \in Server : call' = [call EXCEPT ![c] = Append(@,
                [op |-> clerk[c].op, server |-> addr, pc |-> "called", value |-> <<>>])]
  BY DEF Call
<1> DEFINE h == [op |-> clerk[c].op, server |-> addr, pc |-> "called", value |-> <<>>]
<1>6. h \in Handler /\ h.op = clerk[c].op /\ h.pc = "called"
  BY <1>2 DEF Handler, Data
<1> HIDE DEF h
<1>7. call' = [call EXCEPT ![c] = Append(call[c], h)]
  BY <1>5 DEF h
<1>8. Append(call[c], h) \in Seq(Handler)
  BY <1>1, <1>6
<1>9. /\ call' \in [Client -> Seq(Handler)] /\ call'[c] = Append(call[c], h)
      /\ \A d \in Client \ {c} : call'[d] = call[d]
  BY <1>1, <1>7, <1>8
<1>10. /\ clerk'[c] = r /\ clerk' \in [Client -> Clerk]
       /\ \A d \in Client \ {c} : clerk'[d] = clerk[d]
  BY <1>1, <1>3, <1>4
<1> QED BY <1>2, <1>3, <1>6, <1>9, <1>10 DEF Call

(* A Clerk gives up its call.                                               *)
LEMMA CallFailsEffect ==
  ASSUME TypeOK, NEW c \in Client, CallFails(c)
  PROVE  /\ clerk' \in [Client -> Clerk]
         /\ \A d \in Client \ {c} : clerk'[d] = clerk[d]
         /\ clerk'[c].op = clerk[c].op /\ clerk'[c].seq = clerk[c].seq
         /\ clerk'[c].since = clerk[c].since /\ clerk'[c].calling = FALSE
<1>1. clerk[c] \in Clerk /\ clerk \in [Client -> Clerk]
  BY DEF TypeOK
<1> DEFINE r == [clerk[c] EXCEPT !.calling = FALSE, !.leader = Nil]
<1>2. r \in Clerk /\ r.op = clerk[c].op /\ r.seq = clerk[c].seq
      /\ r.since = clerk[c].since /\ r.calling = FALSE
  BY <1>1 DEF Clerk
<1>3. clerk' = [clerk EXCEPT ![c] = r]
  BY DEF CallFails
<1> QED BY <1>1, <1>2, <1>3

(* The latest handler of c is forgotten if it has ended.                    *)
LEMMA ForgetEffect ==
  ASSUME TypeOK, NEW c \in Client, call[c] # <<>>, Forget(c)
  PROVE  /\ call' \in [Client -> Seq(Handler)]
         /\ \A d \in Client \ {c} : call'[d] = call[d]
         /\ Len(call'[c]) = Len(call[c])
         /\ \A j \in 1..Len(call[c]) : j # Len(call[c]) => call'[c][j] = call[c][j]
         /\ Latest(c).pc \notin {"ok", "wrongLeader", "killed"} =>
               call'[c][Len(call[c])] = Latest(c)
         /\ Latest(c).pc \in {"ok", "wrongLeader", "killed"} =>
               call'[c][Len(call[c])].pc = "gone"
         /\ call'[c][Len(call[c])].op = Latest(c).op
         /\ call'[c][Len(call[c])].server = Latest(c).server
<1>1. call[c] \in Seq(Handler) /\ call \in [Client -> Seq(Handler)]
  BY DEF TypeOK
<1>2. Len(call[c]) \in 1..Len(call[c])
  BY <1>1
<1>3. Latest(c) \in Handler
  BY <1>1, <1>2 DEF Latest
<1> DEFINE f == Latest(c)
           g == [f EXCEPT !.pc = "gone", !.value = <<>>]
           h == IF f.pc \in {"ok", "wrongLeader", "killed"} THEN g ELSE f
<1>5. call' = [call EXCEPT ![c] = [call[c] EXCEPT ![Len(call[c])] = h]]
  BY DEF Forget, Latest
<1> HIDE DEF f
<1>4. g \in Handler /\ g.pc = "gone" /\ g.op = f.op /\ g.server = f.server
  <2>1. f \in Handler /\ <<>> \in Data
    BY <1>3 DEF f, Data
  <2> QED BY <2>1 DEF Handler
<1> HIDE DEF g
<1>6. h \in Handler
  BY <1>3, <1>4 DEF f
<1> HIDE DEF h
<1>7. /\ call' \in [Client -> Seq(Handler)]
      /\ \A d \in Client \ {c} : call'[d] = call[d]
      /\ Len(call'[c]) = Len(call[c])
      /\ call'[c][Len(call[c])] = h
      /\ \A j \in 1..Len(call[c]) : j # Len(call[c]) => call'[c][j] = call[c][j]
  <2> DEFINE q == [call[c] EXCEPT ![Len(call[c])] = h]
  <2>1. /\ q \in Seq(Handler) /\ Len(q) = Len(call[c]) /\ q[Len(call[c])] = h
        /\ \A j \in 1..Len(call[c]) : j # Len(call[c]) => q[j] = call[c][j]
    BY <1>1, <1>2, <1>6
  <2> HIDE DEF q
  <2>2. call' = [call EXCEPT ![c] = q]
    BY <1>5 DEF q
  <2> QED BY <1>1, <2>1, <2>2
<1> QED BY <1>4, <1>7 DEF h, f

(* A handler ends: with an answer if its Clerk waits for it.                *)
LEMMA EndsEffect ==
  ASSUME TypeOK, NEW c \in Client, NEW k \in 1..Len(call[c]),
         NEW pc \in {"ok", "wrongLeader"}, NEW value \in Data, Ends(c, k, pc, value)
  PROVE  /\ call' \in [Client -> Seq(Handler)]
         /\ \A d \in Client \ {c} : call'[d] = call[d]
         /\ Len(call'[c]) = Len(call[c])
         /\ \A j \in 1..Len(call[c]) : j # k => call'[c][j] = call[c][j]
         /\ call'[c][k].op = call[c][k].op
         /\ call'[c][k].server = call[c][k].server
         /\ call'[c][k].pc \in {pc, "gone"}
         /\ clerk[c].calling /\ k = Len(call[c]) =>
               call'[c][k].pc = pc /\ call'[c][k].value = value
         /\ ~(clerk[c].calling /\ k = Len(call[c])) => call'[c][k].pc = "gone"
<1>1. call[c] \in Seq(Handler) /\ call \in [Client -> Seq(Handler)]
  BY DEF TypeOK
<1>2. call[c][k] \in Handler
  BY <1>1
<1> DEFINE f == call[c][k]
           a == [f EXCEPT !.pc = pc, !.value = value]
           g == [f EXCEPT !.pc = "gone"]
           h == IF clerk[c].calling /\ k = Len(call[c]) THEN a ELSE g
<1>3. call' = [call EXCEPT ![c] = [call[c] EXCEPT ![k] = h]]
  BY DEF Ends
<1>4. f \in Handler
  BY <1>2
<1> HIDE DEF f
<1>5. a \in Handler /\ a.pc = pc /\ a.value = value /\ a.op = f.op /\ a.server = f.server
  BY <1>4 DEF Handler
<1>6. g \in Handler /\ g.pc = "gone" /\ g.op = f.op /\ g.server = f.server
  BY <1>4 DEF Handler
<1> HIDE DEF a, g
<1>7. h \in Handler
  BY <1>5, <1>6
<1> HIDE DEF h
<1>8. /\ call' \in [Client -> Seq(Handler)]
      /\ \A d \in Client \ {c} : call'[d] = call[d]
      /\ Len(call'[c]) = Len(call[c])
      /\ call'[c][k] = h
      /\ \A j \in 1..Len(call[c]) : j # k => call'[c][j] = call[c][j]
  <2> DEFINE q == [call[c] EXCEPT ![k] = h]
  <2>1. /\ q \in Seq(Handler) /\ Len(q) = Len(call[c]) /\ q[k] = h
        /\ \A j \in 1..Len(call[c]) : j # k => q[j] = call[c][j]
    BY <1>1, <1>7
  <2> HIDE DEF q
  <2>2. call' = [call EXCEPT ![c] = q]
    BY <1>3 DEF q
  <2> QED BY <1>1, <2>1, <2>2
<1>9. /\ h.op = f.op /\ h.server = f.server /\ h.pc \in {pc, "gone"}
      /\ clerk[c].calling /\ k = Len(call[c]) => h.pc = pc /\ h.value = value
      /\ ~(clerk[c].calling /\ k = Len(call[c])) => h.pc = "gone"
  BY <1>5, <1>6 DEF h
<1> QED BY <1>8, <1>9 DEF f

(* A handler goes on to another place of its code.                          *)
MovesTo(c, k, pc) == call' = [call EXCEPT ![c][k].pc = pc]

(* MovesTo changes the place of one handler and nothing else.               *)
LEMMA MoveEffect ==
  ASSUME TypeOK, NEW c \in Client, NEW k \in 1..Len(call[c]),
         NEW pc \in {"started", "waiting", "timedOut"},
         MovesTo(c, k, pc)
  PROVE  /\ call' \in [Client -> Seq(Handler)]
         /\ \A d \in Client \ {c} : call'[d] = call[d]
         /\ Len(call'[c]) = Len(call[c])
         /\ \A j \in 1..Len(call[c]) : j # k => call'[c][j] = call[c][j]
         /\ call'[c][k].op = call[c][k].op
         /\ call'[c][k].server = call[c][k].server
         /\ call'[c][k].pc = pc
<1>1. call[c] \in Seq(Handler) /\ call \in [Client -> Seq(Handler)]
  BY DEF TypeOK
<1> DEFINE f == call[c][k]
           h == [f EXCEPT !.pc = pc]
<1>2. f \in Handler
  BY <1>1
<1>3. call' = [call EXCEPT ![c] = [call[c] EXCEPT ![k] = h]]
  BY DEF MovesTo
<1> HIDE DEF f
<1>4. h \in Handler /\ h.pc = pc /\ h.op = f.op /\ h.server = f.server
  BY <1>2 DEF Handler
<1> HIDE DEF h
<1>5. /\ call' \in [Client -> Seq(Handler)]
      /\ \A d \in Client \ {c} : call'[d] = call[d]
      /\ Len(call'[c]) = Len(call[c])
      /\ call'[c][k] = h
      /\ \A j \in 1..Len(call[c]) : j # k => call'[c][j] = call[c][j]
  <2> DEFINE q == [call[c] EXCEPT ![k] = h]
  <2>1. /\ q \in Seq(Handler) /\ Len(q) = Len(call[c]) /\ q[k] = h
        /\ \A j \in 1..Len(call[c]) : j # k => q[j] = call[c][j]
    BY <1>1, <1>4
  <2> HIDE DEF q
  <2>2. call' = [call EXCEPT ![c] = q]
    BY <1>3 DEF q
  <2> QED BY <1>1, <2>1, <2>2
<1> QED BY <1>4, <1>5 DEF f

(* The entry of c in callBack of s is replaced.                             *)
CallBackBecomes(s, c, b) == kv' = [kv EXCEPT ![s].callBack[c] = b]

(* Only the entry of c on s changes then.                                   *)
LEMMA CallBackEffect ==
  ASSUME TypeOK, NEW c \in Client, NEW s \in Server, NEW b \in CallBack \cup {Nil},
         CallBackBecomes(s, c, b)
  PROVE  /\ kv' \in [Server -> KVServer]
         /\ \A t \in Server \ {s} : kv'[t] = kv[t]
         /\ kv'[s].db = kv[s].db /\ kv'[s].seqCheck = kv[s].seqCheck
         /\ kv'[s].applied = kv[s].applied /\ kv'[s].offered = kv[s].offered
         /\ kv'[s].serving = kv[s].serving
         /\ kv'[s].callBack[c] = b
         /\ \A d \in Client \ {c} : kv'[s].callBack[d] = kv[s].callBack[d]
<1> DEFINE o == kv[s]
           m == [o.callBack EXCEPT ![c] = b]
           q == [o EXCEPT !.callBack = m]
<1>1. o \in KVServer /\ kv \in [Server -> KVServer]
  BY DEF TypeOK
<1>2. kv' = [kv EXCEPT ![s] = q]
  BY DEF CallBackBecomes
<1> HIDE DEF o
<1>3. o.callBack \in [Client -> CallBack \cup {Nil}]
  BY <1>1 DEF KVServer
<1>4. /\ m \in [Client -> CallBack \cup {Nil}] /\ m[c] = b
      /\ \A d \in Client \ {c} : m[d] = o.callBack[d]
  BY <1>3
<1> HIDE DEF m
<1>5. /\ q \in KVServer /\ q.callBack = m /\ q.db = o.db /\ q.seqCheck = o.seqCheck
      /\ q.applied = o.applied /\ q.offered = o.offered /\ q.serving = o.serving
  BY <1>1, <1>4 DEF KVServer
<1> HIDE DEF q
<1>6. /\ kv' \in [Server -> KVServer] /\ kv'[s] = q
      /\ \A t \in Server \ {s} : kv'[t] = kv[t]
  BY <1>1, <1>2, <1>5
<1> QED BY <1>4, <1>5, <1>6 DEF o

(* A handler takes what runServer sends.                                    *)
LEMMA SentEffect ==
  ASSUME TypeOK, NEW s \in Server, kv[s].serving # Nil,
         kv' = [kv EXCEPT ![s].serving.sending = FALSE]
  PROVE  /\ kv' \in [Server -> KVServer]
         /\ \A t \in Server \ {s} : kv'[t] = kv[t]
         /\ kv'[s].db = kv[s].db /\ kv'[s].seqCheck = kv[s].seqCheck
         /\ kv'[s].applied = kv[s].applied /\ kv'[s].offered = kv[s].offered
         /\ kv'[s].callBack = kv[s].callBack
         /\ kv'[s].serving \in Serving
         /\ kv'[s].serving.op = kv[s].serving.op
         /\ kv'[s].serving.value = kv[s].serving.value
         /\ kv'[s].serving.locked = kv[s].serving.locked
         /\ kv'[s].serving.sending = FALSE
<1> DEFINE o == kv[s]
           m == [o.serving EXCEPT !.sending = FALSE]
           q == [o EXCEPT !.serving = m]
<1>1. o \in KVServer /\ kv \in [Server -> KVServer] /\ o.serving # Nil
  BY DEF TypeOK
<1>2. kv' = [kv EXCEPT ![s] = q]
  OBVIOUS
<1> HIDE DEF o
<1> DEFINE v == o.serving
<1>3. v \in Serving
  BY <1>1 DEF KVServer
<1>4. m = [v EXCEPT !.sending = FALSE]
  OBVIOUS
<1> HIDE DEF m, v
<1>5. /\ m \in Serving /\ m.op = v.op /\ m.value = v.value /\ m.locked = v.locked
      /\ m.sending = FALSE
  BY <1>3, <1>4 DEF Serving
<1>6. /\ q \in KVServer /\ q.callBack = o.callBack /\ q.db = o.db
      /\ q.seqCheck = o.seqCheck /\ q.applied = o.applied /\ q.offered = o.offered
      /\ q.serving = m
  BY <1>1, <1>5 DEF KVServer
<1> HIDE DEF q
<1>7. /\ kv' \in [Server -> KVServer] /\ kv'[s] = q
      /\ \A t \in Server \ {s} : kv'[t] = kv[t]
  BY <1>1, <1>2, <1>6
<1> QED BY <1>5, <1>6, <1>7 DEF o, v

(* Raft offers an operation.                                                *)
LEMMA OfferEffect ==
  ASSUME TypeOK, NEW s \in Server, Offer(s)
  PROVE  /\ kv[s].applied < Len(chosen)
         /\ kv' \in [Server -> KVServer]
         /\ \A t \in Server \ {s} : kv'[t] = kv[t]
         /\ kv'[s].db = kv[s].db /\ kv'[s].seqCheck = kv[s].seqCheck
         /\ kv'[s].applied = kv[s].applied
         /\ kv'[s].callBack = kv[s].callBack
         /\ kv'[s].serving = kv[s].serving
         /\ UNCHANGED <<clerk, call, chosen, tail, restarts, results>>
<1> DEFINE o == kv[s]
           q == [o EXCEPT !.offered = TRUE]
<1>1. o \in KVServer /\ kv \in [Server -> KVServer]
  BY DEF TypeOK
<1>2. kv' = [kv EXCEPT ![s] = q]
  BY DEF Offer
<1> HIDE DEF o
<1>3. /\ q \in KVServer /\ q.callBack = o.callBack /\ q.db = o.db
      /\ q.seqCheck = o.seqCheck /\ q.applied = o.applied /\ q.serving = o.serving
  BY <1>1 DEF KVServer
<1> HIDE DEF q
<1>4. /\ kv' \in [Server -> KVServer] /\ kv'[s] = q
      /\ \A t \in Server \ {s} : kv'[t] = kv[t]
  BY <1>1, <1>2, <1>3
<1> QED BY <1>3, <1>4 DEF o, Offer

(* The body of the loop of runServer ends.                                  *)
LEMMA ApplyDoneEffect ==
  ASSUME TypeOK, NEW s \in Server, ApplyDone(s)
  PROVE  /\ kv' \in [Server -> KVServer]
         /\ \A t \in Server \ {s} : kv'[t] = kv[t]
         /\ kv'[s].db = kv[s].db /\ kv'[s].seqCheck = kv[s].seqCheck
         /\ kv'[s].applied = kv[s].applied /\ kv'[s].offered = kv[s].offered
         /\ kv'[s].callBack = kv[s].callBack
         /\ kv'[s].serving = Nil
         /\ UNCHANGED <<clerk, call, chosen, tail, restarts, results>>
<1> DEFINE o == kv[s]
           q == [o EXCEPT !.serving = Nil]
<1>1. o \in KVServer /\ kv \in [Server -> KVServer]
  BY DEF TypeOK
<1>2. kv' = [kv EXCEPT ![s] = q]
  BY DEF ApplyDone
<1> HIDE DEF o
<1>3. /\ q \in KVServer /\ q.callBack = o.callBack /\ q.db = o.db
      /\ q.seqCheck = o.seqCheck /\ q.applied = o.applied /\ q.offered = o.offered
      /\ q.serving = Nil
  BY <1>1 DEF KVServer
<1> HIDE DEF q
<1>4. /\ kv' \in [Server -> KVServer] /\ kv'[s] = q
      /\ \A t \in Server \ {s} : kv'[t] = kv[t]
  BY <1>1, <1>2, <1>3
<1> QED BY <1>3, <1>4 DEF o, ApplyDone

(* A server starts again, and its handlers are gone.                        *)
LEMMA RebornEffect ==
  ASSUME TypeOK, NEW s \in Server, Reborn(s)
  PROVE  /\ kv' \in [Server -> KVServer]
         /\ \A t \in Server \ {s} : kv'[t] = kv[t]
         /\ kv'[s].db = [k \in Key |-> <<>>]
         /\ kv'[s].seqCheck = [c \in Client |-> -1]
         /\ kv'[s].callBack = [c \in Client |-> Nil]
         /\ kv'[s].applied = 0 /\ kv'[s].offered = FALSE /\ kv'[s].serving = Nil
         /\ call' \in [Client -> Seq(Handler)]
         /\ \A c \in Client :
               /\ Len(call'[c]) = Len(call[c])
               /\ \A k \in 1..Len(call[c]) :
                     /\ call'[c][k].op = call[c][k].op
                     /\ call'[c][k].server = call[c][k].server
                     /\ call[c][k].server = s =>
                           call'[c][k].pc = IF call[c][k].pc = "gone" THEN "gone" ELSE "killed"
                     /\ call[c][k].server # s => call'[c][k] = call[c][k]
         /\ UNCHANGED <<clerk, chosen, tail, results>>
<1>1. /\ StartKVServer \in KVServer
      /\ StartKVServer.db = [k \in Key |-> <<>>]
      /\ StartKVServer.seqCheck = [c \in Client |-> -1]
      /\ StartKVServer.callBack = [c \in Client |-> Nil]
      /\ StartKVServer.applied = 0 /\ StartKVServer.offered = FALSE
      /\ StartKVServer.serving = Nil
  BY DEF StartKVServer, KVServer, Data
<1>2. kv \in [Server -> KVServer] /\ call \in [Client -> Seq(Handler)]
  BY DEF TypeOK
<1>3. kv' = [kv EXCEPT ![s] = StartKVServer]
  BY DEF Reborn
<1>4. /\ kv' \in [Server -> KVServer] /\ kv'[s] = StartKVServer
      /\ \A t \in Server \ {s} : kv'[t] = kv[t]
  BY <1>1, <1>2, <1>3
<1> DEFINE f(h) == IF h.server = s /\ h.pc # "gone"
                   THEN [h EXCEPT !.pc = "killed", !.value = <<>>] ELSE h
<1>5. ASSUME NEW h \in Handler
      PROVE  /\ f(h) \in Handler /\ f(h).op = h.op /\ f(h).server = h.server
             /\ h.server = s => f(h).pc = IF h.pc = "gone" THEN "gone" ELSE "killed"
             /\ h.server # s => f(h) = h
  <2>1. <<>> \in Data
    BY DEF Data
  <2> QED BY <2>1 DEF Handler
<1>6. call' = [c \in Client |-> [k \in 1..Len(call[c]) |-> f(call[c][k])]]
  BY DEF Reborn
<1> HIDE DEF f
<1>7. ASSUME NEW c \in Client
      PROVE  /\ call'[c] \in Seq(Handler)
             /\ Len(call'[c]) = Len(call[c])
             /\ \A k \in 1..Len(call[c]) :
                     /\ call'[c][k].op = call[c][k].op
                     /\ call'[c][k].server = call[c][k].server
                     /\ call[c][k].server = s =>
                           call'[c][k].pc = IF call[c][k].pc = "gone" THEN "gone" ELSE "killed"
                     /\ call[c][k].server # s => call'[c][k] = call[c][k]
  <2>1. call[c] \in Seq(Handler) /\ Len(call[c]) \in Nat
    BY <1>2
  <2>2. call'[c] = [k \in 1..Len(call[c]) |-> f(call[c][k])]
    BY <1>6
  <2>3. \A k \in 1..Len(call[c]) : call[c][k] \in Handler /\ f(call[c][k]) \in Handler
    BY <2>1, <1>5
  <2>4. call'[c] \in Seq(Handler) /\ Len(call'[c]) = Len(call[c])
    BY <2>1, <2>2, <2>3
  <2>5. \A k \in 1..Len(call[c]) : call'[c][k] = f(call[c][k])
    BY <2>2
  <2> QED BY <1>5, <2>3, <2>4, <2>5
<1>8. call' \in [Client -> Seq(Handler)]
  BY <1>6, <1>7
<1> QED BY <1>1, <1>4, <1>7, <1>8 DEF Reborn

(* What executing an operation does to the store.                           *)
LEMMA ExecuteEffect ==
  ASSUME NEW db \in [Key -> Data], NEW op \in Ops
  PROVE  /\ execute(db, op) \in [Key -> Data]
         /\ \A key \in Key : key # op.Key \/ op.Op = "Get" =>
               execute(db, op)[key] = db[key]
         /\ op.Op = "Put" => execute(db, op)[op.Key] = <<Value(op)>>
         /\ op.Op = "Append" => execute(db, op)[op.Key] = Append(db[op.Key], Value(op))
         /\ op.Op \in {"Get", "Put", "Append"}
<1>1. op.Op \in {"Get", "Put", "Append"} /\ op.Key \in Key /\ op.ClientId \in Client
      /\ op.ClientSeq \in Nat
  BY MethodAssumption DEF Ops
<1>2. Value(op) \in Client \X Nat
  BY <1>1 DEF Value
<1>3. <<Value(op)>> \in Data /\ Append(db[op.Key], Value(op)) \in Data
  BY <1>1, <1>2 DEF Data
<1>4. CASE op.Op = "Get"
  <2>1. execute(db, op) = db
    BY <1>4 DEF execute
  <2> QED BY <1>1, <1>4, <2>1
<1>5. CASE op.Op = "Put"
  <2>1. execute(db, op) = [db EXCEPT ![op.Key] = <<Value(op)>>]
    BY <1>5 DEF execute
  <2> HIDE DEF Data
  <2> QED BY <1>1, <1>3, <1>5, <2>1
<1>6. CASE op.Op = "Append"
  <2>1. execute(db, op) = [db EXCEPT ![op.Key] = Append(db[op.Key], Value(op))]
    BY <1>6 DEF execute
  <2> QED BY <1>1, <1>3, <1>6, <2>1
<1> QED BY <1>1, <1>4, <1>5, <1>6

(* An operation is received by runServer.                                   *)
Applies(s, op) ==
    LET o == kv[s]
        c == op.ClientId
    IN  /\ o.serving = Nil /\ o.applied < Len(chosen)
        /\ op = chosen[o.applied + 1] /\ op \in Ops /\ c \in Client
        /\ kv' \in [Server -> KVServer]
        /\ \A t \in Server \ {s} : kv'[t] = kv[t]
        /\ kv'[s].applied = o.applied + 1 /\ kv'[s].offered = FALSE
        /\ \A d \in Client : kv'[s].seqCheck[d] =
              IF d = c /\ fresh(o, op) THEN op.ClientSeq ELSE o.seqCheck[d]
        /\ kv'[s].db = IF fresh(o, op) THEN execute(o.db, op) ELSE o.db
        /\ \A d \in Client : d # c => kv'[s].callBack[d] = o.callBack[d]
        /\ wanted(o, op) => /\ kv'[s].callBack[c] \in CallBack
                            /\ kv'[s].callBack[c].listen = FALSE
        /\ ~wanted(o, op) => kv'[s].callBack[c] = o.callBack[c]
        /\ kv'[s].serving \in Serving
        /\ kv'[s].serving.op = op
        /\ kv'[s].serving.locked <=> o.callBack[c] # Nil
        /\ kv'[s].serving.sending <=> wanted(o, op)
        /\ op.Op = "Get" => kv'[s].serving.value = o.db[op.Key]
        /\ UNCHANGED <<clerk, call, chosen, tail, restarts, results>>

(* Apply does what Applies says.                                            *)
LEMMA ApplyEffect ==
  ASSUME KVTypes, NEW s \in Server, Apply(s)
  PROVE  Applies(s, chosen[kv[s].applied + 1])
<1> DEFINE o  == kv[s]
           op == chosen[o.applied + 1]
           c  == op.ClientId
<1>1. /\ o \in KVServer /\ kv \in [Server -> KVServer] /\ chosen \in Seq(Ops)
      /\ o.serving = Nil /\ o.applied < Len(chosen) /\ o.applied \in Nat
  BY DEF KVTypes, TypeOK, ReceivedOK, Apply, KVServer
<1>2. op \in Ops
  BY <1>1
<1>3. c \in Client /\ op.ClientSeq \in Nat /\ op.Key \in Key
  BY <1>2 DEF Ops
<1>4. /\ o.db \in [Key -> Data] /\ o.seqCheck \in [Client -> Nat \cup {-1}]
      /\ o.callBack \in [Client -> CallBack \cup {Nil}]
  BY <1>1 DEF KVServer
<1>5. PICK exec \in BOOLEAN : exec = fresh(o, op)
  <2>1. fresh(o, op) \in BOOLEAN
    <3>1. o.seqCheck[op.ClientId] + 1 \in Int /\ op.ClientSeq \in Int
      BY <1>3, <1>4
    <3> QED BY <3>1 DEF fresh
  <2> QED BY <2>1, Zenon
<1>6. PICK callback \in BOOLEAN : callback = wanted(o, op)
  <2>1. wanted(o, op) \in BOOLEAN
    BY Zenon DEF wanted
  <2> QED BY <2>1
<1>7. PICK locked \in BOOLEAN : locked = (o.callBack[c] # Nil)
  BY Zenon
<1> DEFINE sc == [o.seqCheck EXCEPT ![c] = IF exec THEN op.ClientSeq ELSE @]
           db == IF exec THEN execute(o.db, op) ELSE o.db
           b  == o.callBack[c]
           cb == [o.callBack EXCEPT ![c] = IF callback THEN [@ EXCEPT !.listen = FALSE] ELSE @]
           v  == IF op.Op = "Get" THEN o.db[op.Key] ELSE <<>>
           sv == [op |-> op, locked |-> locked, sending |-> callback, value |-> v]
           n  == o.applied + 1
           q  == [o EXCEPT !.offered = FALSE, !.applied = n, !.seqCheck = sc, !.db = db,
                           !.callBack = cb, !.serving = sv]
<1>8. kv' = [kv EXCEPT ![s] = q] /\ UNCHANGED <<clerk, call, chosen, tail, restarts, results>>
  BY ZenonT(60), <1>5, <1>6, <1>7 DEF Apply
<1>9. b \in CallBack \cup {Nil}
  BY <1>3, <1>4
<1>10. callback => b \in CallBack
  BY <1>6, <1>9 DEF wanted
<1> HIDE DEF o, op, c
<1>11. /\ sc \in [Client -> Nat \cup {-1}]
       /\ \A d \in Client : sc[d] = IF d = c /\ exec THEN op.ClientSeq ELSE o.seqCheck[d]
  BY <1>3, <1>4
<1>12. db \in [Key -> Data]
  BY <1>2, <1>4, ExecuteEffect
<1>13. /\ cb \in [Client -> CallBack \cup {Nil}]
       /\ \A d \in Client : d # c => cb[d] = o.callBack[d]
       /\ callback => cb[c] \in CallBack /\ cb[c].listen = FALSE
       /\ ~callback => cb[c] = b
  <2> DEFINE g == [b EXCEPT !.listen = FALSE]
  <2>1. ASSUME callback PROVE g \in CallBack /\ g.listen = FALSE
    <3> HIDE DEF b
    <3> QED BY <1>10, <2>1 DEF CallBack
  <2>2. cb = [o.callBack EXCEPT ![c] = IF callback THEN g ELSE b]
    OBVIOUS
  <2> HIDE DEF cb, g, b
  <2> QED BY <1>3, <1>4, <1>9, <2>1, <2>2
<1>14. v \in Data
  BY <1>3, <1>4 DEF Data
<1> HIDE DEF v
<1>15. sv \in Serving /\ sv.op = op /\ sv.locked = locked /\ sv.sending = callback
       /\ sv.value = v
  BY <1>2, <1>14 DEF Serving
<1>16. n \in Nat
  BY <1>1
<1> HIDE DEF sc, db, cb, sv, n
<1>17. /\ q \in KVServer /\ q.applied = n /\ q.offered = FALSE /\ q.seqCheck = sc
       /\ q.db = db /\ q.callBack = cb /\ q.serving = sv
  BY <1>1, <1>11, <1>12, <1>13, <1>15, <1>16 DEF KVServer
<1> HIDE DEF q
<1>18. /\ kv' \in [Server -> KVServer] /\ kv'[s] = q
       /\ \A t \in Server \ {s} : kv'[t] = kv[t]
  BY <1>1, <1>8, <1>17
<1>19. /\ kv'[s].applied = o.applied + 1 /\ kv'[s].offered = FALSE
       /\ kv'[s].db = IF exec THEN execute(o.db, op) ELSE o.db
       /\ \A d \in Client : kv'[s].seqCheck[d] =
                   IF d = c /\ exec THEN op.ClientSeq ELSE o.seqCheck[d]
  BY <1>11, <1>17, <1>18 DEF db, n
<1>20. /\ \A d \in Client : d # c => kv'[s].callBack[d] = o.callBack[d]
       /\ callback => kv'[s].callBack[c] \in CallBack /\ kv'[s].callBack[c].listen = FALSE
       /\ ~callback => kv'[s].callBack[c] = o.callBack[c]
  BY <1>13, <1>17, <1>18 DEF b
<1>21. /\ kv'[s].serving \in Serving /\ kv'[s].serving.op = op
       /\ kv'[s].serving.locked = locked /\ kv'[s].serving.sending = callback
       /\ op.Op = "Get" => kv'[s].serving.value = o.db[op.Key]
  BY <1>15, <1>17, <1>18 DEF v
<1> QED BY <1>1, <1>2, <1>3, <1>5, <1>6, <1>7, <1>8, <1>18, <1>19, <1>20, <1>21, Zenon
        DEF Applies, o, op, c

-----------------------------------------------------------------------------
(* The types.                                                               *)

(* The types hold initially.                                                *)
LEMMA InitTypes == Init => KVTypes
<1> SUFFICES ASSUME Init PROVE KVTypes
  OBVIOUS
<1>1. MakeClerk \in Clerk /\ MakeClerk.op = Nil /\ MakeClerk.calling = FALSE
  BY DEF MakeClerk, Clerk
<1>2. StartKVServer \in KVServer /\ StartKVServer.applied = 0
      /\ StartKVServer.offered = FALSE
  BY DEF StartKVServer, KVServer, Data
<1>3. clerk \in [Client -> Clerk] /\ \A c \in Client : clerk[c] = MakeClerk
  BY <1>1 DEF Init
<1>4. kv \in [Server -> KVServer] /\ \A s \in Server : kv[s] = StartKVServer
  BY <1>2 DEF Init
<1>5. /\ call \in [Client -> Seq(Handler)] /\ chosen \in Seq(Ops)
      /\ tail \in [Server -> Seq(Ops)] /\ restarts \in Nat /\ results \subseteq Result
      /\ chosen = <<>> /\ \A c \in Client : call[c] = <<>>
  BY DEF Init
<1>6. TypeOK
  BY <1>3, <1>4, <1>5 DEF TypeOK
<1>7. ClerksOK
  BY <1>1, <1>3 DEF ClerksOK
<1>8. HandlersOK
  BY <1>5 DEF HandlersOK
<1>9. ReceivedOK
  BY <1>2, <1>4, <1>5 DEF ReceivedOK
<1> QED BY <1>6, <1>7, <1>8, <1>9 DEF KVTypes

(* Steps that leave the servers alone.                                      *)
LEMMA InvokeTypes ==
  ASSUME KVTypes, NEW c \in Client, NEW method \in Method, NEW key \in Key,
         Invoke(c, method, key)
  PROVE  KVTypes'
<1>1. TypeOK
  BY DEF KVTypes
<1>2. /\ clerk[c].op = Nil
      /\ clerk' \in [Client -> Clerk]
      /\ \A d \in Client \ {c} : clerk'[d] = clerk[d]
      /\ clerk'[c].op \in Ops /\ clerk'[c].op.ClientId = c
      /\ clerk'[c].op.ClientSeq = clerk[c].seq
      /\ clerk'[c].seq = clerk[c].seq + 1
      /\ clerk'[c].calling = clerk[c].calling
      /\ UNCHANGED <<call, kv, chosen, tail, restarts, results>>
  BY <1>1, InvokeEffect, Zenon
<1>3. TypeOK'
  BY <1>1, <1>2 DEF TypeOK
<1>4. clerk[c].seq \in Nat /\ clerk[c].calling \in BOOLEAN
  BY <1>1 DEF TypeOK, Clerk
<1>5. ClerksOK'
  BY <1>2, <1>4 DEF KVTypes, ClerksOK
<1>6. HandlersOK' /\ ReceivedOK'
  BY <1>2 DEF KVTypes, HandlersOK, ReceivedOK
<1> QED BY <1>3, <1>5, <1>6 DEF KVTypes

(* A call adds a well-typed handler of its Clerk's own operation.           *)
LEMMA CallTypes ==
  ASSUME KVTypes, NEW c \in Client, Call(c)
  PROVE  KVTypes'
<1>1. TypeOK
  BY DEF KVTypes
<1>2. /\ clerk[c].op # Nil /\ clerk[c].calling = FALSE
      /\ clerk' \in [Client -> Clerk]
      /\ \A d \in Client \ {c} : clerk'[d] = clerk[d]
      /\ clerk'[c].op = clerk[c].op /\ clerk'[c].seq = clerk[c].seq
      /\ call' \in [Client -> Seq(Handler)]
      /\ \A d \in Client \ {c} : call'[d] = call[d]
      /\ UNCHANGED <<kv, chosen, tail, restarts, results>>
  BY <1>1, CallEffect, Zenon
<1>3. PICK h \in Handler :
         h.op = clerk[c].op /\ h.pc = "called" /\ call'[c] = Append(call[c], h)
  BY <1>1, CallEffect, Zenon
<1>4. TypeOK'
  BY <1>1, <1>2 DEF TypeOK
<1>5. call[c] \in Seq(Handler) /\ \A d \in Client : call[d] \in Seq(Handler)
  BY <1>1 DEF TypeOK
<1>6. /\ Len(call'[c]) = Len(call[c]) + 1 /\ call'[c][Len(call[c]) + 1] = h
      /\ \A k \in 1..Len(call[c]) : call'[c][k] = call[c][k]
      /\ call'[c] # <<>> /\ Len(call[c]) \in Nat
  BY <1>3, <1>5
<1>7. ClerksOK'
  BY <1>2, <1>6 DEF KVTypes, ClerksOK
<1>8. clerk[c].op.ClientId = c
  BY <1>2 DEF KVTypes, ClerksOK
<1>9. HandlersOK'
  <2> SUFFICES ASSUME NEW d \in Client, NEW k \in 1..Len(call'[d])
               PROVE  /\ call'[d][k].op.ClientId = d
                      /\ call'[d][k].pc \in {"started", "waiting", "timedOut"} =>
                            kv'[call'[d][k].server].callBack[d] # Nil
    BY DEF HandlersOK
  <2>1. CASE d # c
    BY <1>2, <2>1 DEF KVTypes, HandlersOK
  <2>2. CASE d = c /\ k = Len(call[c]) + 1
    BY <1>3, <1>6, <1>8, <2>2
  <2>3. CASE d = c /\ k \in 1..Len(call[c])
    BY <1>2, <1>6, <2>3 DEF KVTypes, HandlersOK
  <2> QED BY <1>6, <2>1, <2>2, <2>3
<1>10. ReceivedOK'
  BY <1>2 DEF KVTypes, ReceivedOK
<1> QED BY <1>4, <1>7, <1>9, <1>10 DEF KVTypes

(* A Clerk's call has ended: what clerk' and call' are then is enough.      *)
LEMMA ReturnTypes ==
  ASSUME KVTypes, NEW c \in Client, call[c] # <<>>, Forget(c),
         clerk' \in [Client -> Clerk],
         \A d \in Client \ {c} : clerk'[d] = clerk[d],
         clerk'[c].op \in {clerk[c].op, Nil}, clerk'[c].seq = clerk[c].seq,
         clerk'[c].calling = FALSE, results' \subseteq Result,
         UNCHANGED <<kv, chosen, tail, restarts>>
  PROVE  KVTypes'
<1>1. TypeOK
  BY DEF KVTypes
<1>2. /\ call' \in [Client -> Seq(Handler)]
      /\ \A d \in Client \ {c} : call'[d] = call[d]
      /\ Len(call'[c]) = Len(call[c])
      /\ \A j \in 1..Len(call[c]) : j # Len(call[c]) => call'[c][j] = call[c][j]
      /\ call'[c][Len(call[c])].pc \in {Latest(c).pc, "gone"}
      /\ call'[c][Len(call[c])].op = Latest(c).op
      /\ call'[c][Len(call[c])].server = Latest(c).server
  BY <1>1, ForgetEffect
<1>3. TypeOK'
  BY <1>1, <1>2 DEF TypeOK
<1>4. ClerksOK'
  <2> SUFFICES ASSUME NEW d \in Client
               PROVE  /\ clerk'[d].op # Nil => /\ clerk'[d].op.ClientId = d
                                               /\ clerk'[d].op.ClientSeq = clerk'[d].seq - 1
                      /\ clerk'[d].calling => clerk'[d].op # Nil /\ call'[d] # <<>>
    BY DEF ClerksOK
  <2>1. CASE d # c
    BY <1>2, <2>1 DEF KVTypes, ClerksOK
  <2>2. CASE d = c
    BY <2>2 DEF KVTypes, ClerksOK
  <2> QED BY <2>1, <2>2
<1>5. call[c] \in Seq(Handler)
  BY <1>1 DEF TypeOK
<1>6. HandlersOK'
  <2> SUFFICES ASSUME NEW d \in Client, NEW k \in 1..Len(call'[d])
               PROVE  /\ call'[d][k].op.ClientId = d
                      /\ call'[d][k].pc \in {"started", "waiting", "timedOut"} =>
                            kv'[call'[d][k].server].callBack[d] # Nil
    BY DEF HandlersOK
  <2>1. CASE d # c
    BY <1>2, <2>1 DEF KVTypes, HandlersOK
  <2>2. CASE d = c /\ k = Len(call[c])
    <3>1. Len(call[c]) \in 1..Len(call[c])
      BY <1>5
    <3>2. /\ Latest(c).op.ClientId = c
          /\ Latest(c).pc \in {"started", "waiting", "timedOut"} =>
                kv[Latest(c).server].callBack[c] # Nil
      BY <3>1 DEF KVTypes, HandlersOK, Latest
    <3> QED BY <1>2, <2>2, <3>2
  <2>3. CASE d = c /\ k # Len(call[c])
    BY <1>2, <2>3 DEF KVTypes, HandlersOK
  <2> QED BY <2>1, <2>2, <2>3
<1>7. ReceivedOK'
  BY DEF KVTypes, ReceivedOK
<1> QED BY <1>3, <1>4, <1>6, <1>7 DEF KVTypes

(* A lost request keeps the types.                                          *)
LEMMA RequestLostTypes ==
  ASSUME KVTypes, NEW c \in Client, RequestLost(c)
  PROVE  KVTypes'
<1>1. TypeOK /\ CallFails(c) /\ UNCHANGED <<call, kv, chosen, tail, restarts, results>>
  BY DEF KVTypes, RequestLost
<1>2. /\ clerk' \in [Client -> Clerk]
      /\ \A d \in Client \ {c} : clerk'[d] = clerk[d]
      /\ clerk'[c].op = clerk[c].op /\ clerk'[c].seq = clerk[c].seq
      /\ clerk'[c].calling = FALSE
  BY <1>1, CallFailsEffect
<1>3. TypeOK'
  BY <1>1, <1>2 DEF TypeOK
<1>4. ClerksOK'
  BY <1>1, <1>2 DEF KVTypes, ClerksOK
<1>5. HandlersOK' /\ ReceivedOK'
  BY <1>1 DEF KVTypes, HandlersOK, ReceivedOK
<1> QED BY <1>3, <1>4, <1>5 DEF KVTypes

(* A reply that arrives keeps the types, and what it adds to the results is *)
(* a result.                                                                *)
LEMMA ReplyArrivesTypes ==
  ASSUME KVTypes, NEW c \in Client, ReplyArrives(c)
  PROVE  KVTypes'
<1>1. TypeOK /\ Forget(c) /\ UNCHANGED <<kv, chosen, tail, restarts>>
  BY DEF KVTypes, ReplyArrives
<1>2. clerk[c].op # Nil /\ call[c] # <<>>
  BY DEF KVTypes, ClerksOK, ReplyArrives
<1>3. CASE Latest(c).pc = "wrongLeader" /\ CallFails(c) /\ UNCHANGED results
  <2>1. /\ clerk' \in [Client -> Clerk]
        /\ \A d \in Client \ {c} : clerk'[d] = clerk[d]
        /\ clerk'[c].op = clerk[c].op /\ clerk'[c].seq = clerk[c].seq
        /\ clerk'[c].calling = FALSE
    BY <1>1, <1>3, CallFailsEffect
  <2>2. results' \subseteq Result
    BY <1>1, <1>3 DEF TypeOK
  <2> QED BY <1>1, <1>2, <2>1, <2>2, ReturnTypes
<1>4. CASE /\ clerk' = [clerk EXCEPT ![c].op = Nil, ![c].calling = FALSE,
                                     ![c].leader = Latest(c).server]
           /\ results' = results \cup {[op |-> clerk[c].op, value |-> Latest(c).value,
                                        since |-> clerk[c].since]}
  <2>1. clerk \in [Client -> Clerk] /\ clerk[c] \in Clerk /\ call[c] \in Seq(Handler)
        /\ results \subseteq Result
    BY <1>1 DEF TypeOK
  <2>2. Latest(c) \in Handler
    BY <1>2, <2>1 DEF Latest
  <2>3. Latest(c).server \in Server /\ Latest(c).value \in Data
    BY <2>2 DEF Handler
  <2> DEFINE f == clerk[c]
             l == Latest(c).server
             r == [f EXCEPT !.op = Nil, !.calling = FALSE, !.leader = l]
             w == [op |-> f.op, value |-> Latest(c).value, since |-> f.since]
  <2>4. clerk' = [clerk EXCEPT ![c] = r]
    BY <1>4
  <2>5. w \in Result
    BY <1>2, <2>1, <2>3 DEF Clerk, Result
  <2>6. results' \subseteq Result
    BY <1>4, <2>1, <2>5
  <2>7. r \in Clerk /\ r.op = Nil /\ r.calling = FALSE /\ r.seq = f.seq
    <3>1. f \in Clerk /\ l \in Server
      BY <2>1, <2>3
    <3> HIDE DEF f, l
    <3> QED BY <3>1 DEF Clerk
  <2> HIDE DEF r
  <2>8. /\ clerk' \in [Client -> Clerk] /\ clerk'[c] = r
        /\ \A d \in Client \ {c} : clerk'[d] = clerk[d]
    BY <2>1, <2>4, <2>7
  <2> QED BY <1>1, <1>2, <2>6, <2>7, <2>8, ReturnTypes
<1> QED BY <1>3, <1>4 DEF ReplyArrives

(* A lost reply keeps the types.                                            *)
LEMMA ReplyLostTypes ==
  ASSUME KVTypes, NEW c \in Client, ReplyLost(c)
  PROVE  KVTypes'
<1>1. TypeOK /\ Forget(c) /\ CallFails(c) /\ UNCHANGED <<kv, chosen, tail, restarts, results>>
  BY DEF KVTypes, ReplyLost
<1>2. call[c] # <<>>
  BY DEF KVTypes, ClerksOK, ReplyLost
<1>3. /\ clerk' \in [Client -> Clerk]
      /\ \A d \in Client \ {c} : clerk'[d] = clerk[d]
      /\ clerk'[c].op = clerk[c].op /\ clerk'[c].seq = clerk[c].seq
      /\ clerk'[c].calling = FALSE
  BY <1>1, CallFailsEffect
<1>4. results' \subseteq Result
  BY <1>1 DEF TypeOK
<1> QED BY <1>1, <1>2, <1>3, <1>4, ReturnTypes

(* A step of a handler, of its own Clerk only: what it does to callBack,    *)
(* to its own place and to the log is enough.                               *)
LEMMA HandlerTypes ==
  ASSUME KVTypes, NEW c \in Client, NEW k \in 1..Len(call[c]),
         kv' \in [Server -> KVServer],
         \A s \in Server : kv'[s].applied = kv[s].applied /\ kv'[s].offered = kv[s].offered,
         \A s \in Server, d \in Client :
             kv[s].callBack[d] # Nil => kv'[s].callBack[d] # Nil,
         call' \in [Client -> Seq(Handler)],
         \A d \in Client \ {c} : call'[d] = call[d],
         Len(call'[c]) = Len(call[c]),
         \A j \in 1..Len(call[c]) : j # k => call'[c][j] = call[c][j],
         call'[c][k].op = call[c][k].op,
         call'[c][k].pc \in {"started", "waiting", "timedOut"} =>
             kv'[call'[c][k].server].callBack[c] # Nil,
         tail' \in [Server -> Seq(Ops)],
         UNCHANGED <<clerk, chosen, restarts, results>>
  PROVE  KVTypes'
<1>1. TypeOK'
  BY DEF KVTypes, TypeOK
<1>2. \A d \in Client : call[d] \in Seq(Handler) /\ call'[d] \in Seq(Handler)
  BY DEF KVTypes, TypeOK
<1>3. ClerksOK'
  <2> SUFFICES ASSUME NEW d \in Client, clerk[d].calling
               PROVE  clerk[d].op # Nil /\ call'[d] # <<>>
    BY DEF ClerksOK, KVTypes
  <2>1. clerk[d].op # Nil /\ call[d] # <<>>
    BY DEF KVTypes, ClerksOK
  <2>2. Len(call'[d]) = Len(call[d])
    OBVIOUS
  <2> QED BY <1>2, <2>1, <2>2
<1>4. HandlersOK'
  <2> SUFFICES ASSUME NEW d \in Client, NEW j \in 1..Len(call'[d])
               PROVE  /\ call'[d][j].op.ClientId = d
                      /\ call'[d][j].pc \in {"started", "waiting", "timedOut"} =>
                            kv'[call'[d][j].server].callBack[d] # Nil
    BY DEF HandlersOK
  <2>1. CASE d = c /\ j = k
    BY <2>1 DEF KVTypes, HandlersOK
  <2>2. CASE ~(d = c /\ j = k)
    <3>1. call'[d][j] = call[d][j] /\ j \in 1..Len(call[d])
      BY <2>2
    <3>2. call[d][j] \in Handler
      BY <1>2, <3>1
    <3>3. call[d][j].server \in Server
      BY <3>2 DEF Handler
    <3>4. /\ call[d][j].op.ClientId = d
          /\ call[d][j].pc \in {"started", "waiting", "timedOut"} =>
                kv[call[d][j].server].callBack[d] # Nil
      BY <3>1 DEF KVTypes, HandlersOK
    <3>5. kv[call[d][j].server].callBack[d] # Nil => kv'[call[d][j].server].callBack[d] # Nil
      BY <3>3
    <3> QED BY <3>1, <3>4, <3>5
  <2> QED BY <2>1, <2>2
<1>5. ReceivedOK'
  BY DEF KVTypes, ReceivedOK
<1> QED BY <1>1, <1>3, <1>4, <1>5 DEF KVTypes

(* k is a handler of c that the server s runs.                              *)
LEMMA RunningAt ==
  ASSUME TypeOK, NEW c \in Client, NEW k, NEW pc, At(c, k, pc)
  PROVE  /\ k \in 1..Len(call[c]) /\ call[c][k] \in Handler /\ call[c][k].pc = pc
         /\ call[c][k].server \in Server /\ call[c][k].op \in Ops
<1>1. k \in 1..Len(call[c]) /\ call[c][k].pc = pc /\ call[c] \in Seq(Handler)
  BY DEF At, TypeOK
<1>2. call[c][k] \in Handler
  BY <1>1
<1> QED BY <1>1, <1>2 DEF Handler

(* A handler that refuses keeps the types.                                  *)
LEMMA WrongLeaderTypes ==
  ASSUME KVTypes, NEW c \in Client, NEW k, WrongLeader(c, k)
  PROVE  KVTypes'
<1>1. /\ TypeOK /\ At(c, k, "called") /\ Ends(c, k, "wrongLeader", <<>>)
      /\ UNCHANGED <<clerk, kv, chosen, tail, restarts, results>>
  BY DEF KVTypes, WrongLeader
<1>2. k \in 1..Len(call[c])
  BY <1>1 DEF At
<1>3. <<>> \in Data
  BY DEF Data
<1>4. /\ call' \in [Client -> Seq(Handler)]
      /\ \A d \in Client \ {c} : call'[d] = call[d]
      /\ Len(call'[c]) = Len(call[c])
      /\ \A j \in 1..Len(call[c]) : j # k => call'[c][j] = call[c][j]
      /\ call'[c][k].op = call[c][k].op
      /\ call'[c][k].pc \in {"wrongLeader", "gone"}
  BY <1>1, <1>2, <1>3, EndsEffect
<1>5. kv' \in [Server -> KVServer] /\ tail' \in [Server -> Seq(Ops)]
  BY <1>1 DEF TypeOK
<1>6. call'[c][k].pc \notin {"started", "waiting", "timedOut"}
  BY <1>4
<1> QED BY <1>1, <1>2, <1>4, <1>5, <1>6, HandlerTypes

(* The server of a handler.                                                 *)
RunsOn(c, k, s) == s = call[c][k].server

HandlerStarted(c, k, s) ==
    /\ At(c, k, "called") /\ k \in 1..Len(call[c]) /\ s \in Server
    /\ MovesTo(c, k, "started")
    /\ kv' \in [Server -> KVServer]
    /\ \A t \in Server \ {s} : kv'[t] = kv[t]
    /\ kv'[s].db = kv[s].db /\ kv'[s].seqCheck = kv[s].seqCheck
    /\ kv'[s].applied = kv[s].applied /\ kv'[s].offered = kv[s].offered
    /\ kv'[s].serving = kv[s].serving
    /\ kv'[s].callBack[c] # Nil
    /\ kv[s].callBack[c] = Nil => kv'[s].callBack[c].listen = FALSE
    /\ kv[s].callBack[c] # Nil => kv'[s].callBack[c] = kv[s].callBack[c]
    /\ \A d \in Client \ {c} : kv'[s].callBack[d] = kv[s].callBack[d]
    /\ tail' \in [Server -> Seq(Ops)]
    /\ \A t \in Server : tail'[t] \in {tail[t], Append(tail[t], call[c][k].op)}
    /\ UNCHANGED <<clerk, chosen, restarts, results>>

(* HandlerStart does what HandlerStarted says: the entry in callBack        *)
(* exists, and the operation may be in the log.                             *)
LEMMA HandlerStartEffect ==
  ASSUME KVTypes, NEW c \in Client, NEW k, HandlerStart(c, k),
         NEW s \in Server, RunsOn(c, k, s)
  PROVE  HandlerStarted(c, k, s)
<1>1. TypeOK /\ At(c, k, "called")
  BY DEF KVTypes, HandlerStart
<1>2. k \in 1..Len(call[c]) /\ s \in Server /\ call[c][k].op \in Ops
  BY <1>1, RunningAt
<1>3. kv[s] \in KVServer /\ tail \in [Server -> Seq(Ops)]
  BY <1>1, <1>2 DEF TypeOK
<1>4. kv[s].callBack[c] \in CallBack \cup {Nil}
  BY <1>3 DEF KVServer
<1>5. newCallBack \in CallBack /\ newCallBack.listen = FALSE
  BY DEF newCallBack, CallBack
<1>6. PICK b \in CallBack \cup {Nil} :
         b = IF kv[s].callBack[c] = Nil THEN newCallBack ELSE kv[s].callBack[c]
  BY <1>4, <1>5
<1>7. kv' = [kv EXCEPT ![s].callBack[c] = b]
  BY <1>6 DEF HandlerStart, RunsOn
<1>9. /\ kv' \in [Server -> KVServer]
      /\ \A u \in Server \ {s} : kv'[u] = kv[u]
      /\ kv'[s].db = kv[s].db /\ kv'[s].seqCheck = kv[s].seqCheck
      /\ kv'[s].applied = kv[s].applied /\ kv'[s].offered = kv[s].offered
      /\ kv'[s].serving = kv[s].serving
      /\ kv'[s].callBack[c] = b
      /\ \A d \in Client \ {c} : kv'[s].callBack[d] = kv[s].callBack[d]
  <2>1. b \in CallBack \cup {Nil} /\ CallBackBecomes(s, c, b)
    BY <1>6, <1>7 DEF CallBackBecomes
  <2> QED BY <1>1, <2>1, CallBackEffect, Zenon
<1>10. /\ b # Nil
       /\ kv[s].callBack[c] = Nil => b.listen = FALSE
       /\ kv[s].callBack[c] # Nil => b = kv[s].callBack[c]
  BY <1>5, <1>6, NilAssumption
<1>11. /\ tail' \in [Server -> Seq(Ops)]
       /\ \A u \in Server : tail'[u] \in {tail[u], Append(tail[u], call[c][k].op)}
  <2> DEFINE op == call[c][k].op
  <2>1. tail' \in {tail, [tail EXCEPT ![s] = Append(@, op)]}
    BY DEF HandlerStart, RunsOn
  <2>2. op \in Ops /\ Append(tail[s], op) \in Seq(Ops)
    BY <1>2, <1>3
  <2> HIDE DEF op
  <2>3. /\ tail' \in [Server -> Seq(Ops)]
        /\ \A u \in Server : tail'[u] \in {tail[u], Append(tail[u], op)}
    BY <1>2, <1>3, <2>1, <2>2
  <2> QED BY <2>3 DEF op
<1>12. /\ MovesTo(c, k, "started")
       /\ UNCHANGED <<clerk, chosen, restarts, results>>
  BY DEF HandlerStart, MovesTo
<1> QED BY <1>1, <1>2, <1>9, <1>10, <1>11, <1>12, Zenon DEF HandlerStarted

(* Start keeps the types: the handler finds its entry in callBack.          *)
LEMMA HandlerStartTypes ==
  ASSUME KVTypes, NEW c \in Client, NEW k, HandlerStart(c, k)
  PROVE  KVTypes'
<1>s. PICK s \in Server : RunsOn(c, k, s)
  <2>1. TypeOK /\ At(c, k, "called")
    BY DEF KVTypes, HandlerStart
  <2> QED BY <2>1, RunningAt DEF RunsOn
<1>1. HandlerStarted(c, k, s)
  BY <1>s, HandlerStartEffect
<1>a. k \in 1..Len(call[c]) /\ MovesTo(c, k, "started") /\ tail' \in [Server -> Seq(Ops)]
      /\ UNCHANGED <<clerk, chosen, restarts, results>>
  BY <1>1 DEF HandlerStarted
<1>b. /\ kv' \in [Server -> KVServer]
      /\ \A t \in Server \ {s} : kv'[t] = kv[t]
      /\ kv'[s].applied = kv[s].applied /\ kv'[s].offered = kv[s].offered
      /\ kv'[s].callBack[c] # Nil
      /\ \A d \in Client \ {c} : kv'[s].callBack[d] = kv[s].callBack[d]
  BY <1>1 DEF HandlerStarted
<1>2. TypeOK
  BY DEF KVTypes
<1>3. /\ call' \in [Client -> Seq(Handler)]
      /\ \A d \in Client \ {c} : call'[d] = call[d]
      /\ Len(call'[c]) = Len(call[c])
      /\ \A j \in 1..Len(call[c]) : j # k => call'[c][j] = call[c][j]
      /\ call'[c][k].op = call[c][k].op
      /\ call'[c][k].server = s
  BY <1>s, <1>a, <1>2, MoveEffect DEF RunsOn
<1>4. \A t \in Server : kv'[t].applied = kv[t].applied /\ kv'[t].offered = kv[t].offered
  BY <1>b
<1>5. \A t \in Server, d \in Client : kv[t].callBack[d] # Nil => kv'[t].callBack[d] # Nil
  BY <1>b
<1>6. kv'[call'[c][k].server].callBack[c] # Nil
  BY <1>b, <1>3
<1> QED BY <1>a, <1>b, <1>3, <1>4, <1>5, <1>6, HandlerTypes

(* A handler registers with callBack and waits.                             *)
Listens(c, k, s) ==
    /\ At(c, k, "started") /\ k \in 1..Len(call[c])
    /\ CallBackFree(s, c)
    /\ MovesTo(c, k, "waiting")
    /\ kv' \in [Server -> KVServer]
    /\ \A t \in Server \ {s} : kv'[t] = kv[t]
    /\ kv'[s].db = kv[s].db /\ kv'[s].seqCheck = kv[s].seqCheck
    /\ kv'[s].applied = kv[s].applied /\ kv'[s].offered = kv[s].offered
    /\ kv'[s].serving = kv[s].serving
    /\ kv'[s].callBack[c] \in CallBack
    /\ kv'[s].callBack[c].wantSeq = call[c][k].op.ClientSeq
    /\ \A d \in Client \ {c} : kv'[s].callBack[d] = kv[s].callBack[d]
    /\ UNCHANGED <<clerk, chosen, tail, restarts, results>>

(* listenCallBack does what Listens says.                                   *)
LEMMA ListenEffect ==
  ASSUME KVTypes, NEW c \in Client, NEW k, listenCallBack(c, k),
         NEW s \in Server, RunsOn(c, k, s)
  PROVE  Listens(c, k, s)
<1>1. TypeOK /\ At(c, k, "started")
  BY DEF KVTypes, listenCallBack
<1>2. k \in 1..Len(call[c]) /\ call[c][k].op \in Ops
  BY <1>1, RunningAt
<1>3. call[c][k].op.ClientSeq \in Nat
  BY <1>2 DEF Ops
<1>4. PICK b : b = [listen |-> TRUE, wantSeq |-> call[c][k].op.ClientSeq]
  OBVIOUS
<1>5. b \in CallBack /\ b.wantSeq = call[c][k].op.ClientSeq
  BY <1>3, <1>4 DEF CallBack
<1>6. b \in CallBack \cup {Nil} /\ CallBackBecomes(s, c, b)
  BY <1>4, <1>5 DEF listenCallBack, RunsOn, CallBackBecomes
<1>7. /\ kv' \in [Server -> KVServer]
      /\ \A t \in Server \ {s} : kv'[t] = kv[t]
      /\ kv'[s].db = kv[s].db /\ kv'[s].seqCheck = kv[s].seqCheck
      /\ kv'[s].applied = kv[s].applied /\ kv'[s].offered = kv[s].offered
      /\ kv'[s].serving = kv[s].serving
      /\ kv'[s].callBack[c] = b
      /\ \A d \in Client \ {c} : kv'[s].callBack[d] = kv[s].callBack[d]
  BY <1>1, <1>6, CallBackEffect, Zenon
<1>8. CallBackFree(s, c) /\ MovesTo(c, k, "waiting")
      /\ UNCHANGED <<clerk, chosen, tail, restarts, results>>
  BY DEF listenCallBack, RunsOn, MovesTo
<1> QED BY <1>1, <1>2, <1>5, <1>7, <1>8 DEF Listens

(* A handler whose time is up withdraws from callBack.                      *)
Unlistens(c, k, s) ==
    /\ At(c, k, "timedOut") /\ k \in 1..Len(call[c])
    /\ CallBackFree(s, c)
    /\ Ends(c, k, "wrongLeader", <<>>)
    /\ kv' \in [Server -> KVServer]
    /\ \A t \in Server \ {s} : kv'[t] = kv[t]
    /\ kv'[s].db = kv[s].db /\ kv'[s].seqCheck = kv[s].seqCheck
    /\ kv'[s].applied = kv[s].applied /\ kv'[s].offered = kv[s].offered
    /\ kv'[s].serving = kv[s].serving
    /\ kv'[s].callBack[c] \in CallBack
    /\ kv'[s].callBack[c].listen = FALSE
    /\ \A d \in Client \ {c} : kv'[s].callBack[d] = kv[s].callBack[d]
    /\ UNCHANGED <<clerk, chosen, tail, restarts, results>>

(* unlistenCallBack does what Unlistens says.                               *)
LEMMA UnlistenEffect ==
  ASSUME KVTypes, NEW c \in Client, NEW k, unlistenCallBack(c, k),
         NEW s \in Server, RunsOn(c, k, s)
  PROVE  Unlistens(c, k, s)
<1>1. TypeOK /\ At(c, k, "timedOut")
  BY DEF KVTypes, unlistenCallBack
<1>2. k \in 1..Len(call[c]) /\ call[c][k].pc = "timedOut"
  BY <1>1, RunningAt
<1>3. kv[s].callBack[c] # Nil
  BY <1>2 DEF KVTypes, HandlersOK, RunsOn
<1>4. kv[s].callBack[c] \in CallBack
  BY <1>1, <1>3 DEF TypeOK, KVServer
<1>5. PICK a \in CallBack : a = kv[s].callBack[c]
  BY <1>4
<1>6. PICK b : b = [a EXCEPT !.listen = FALSE]
  OBVIOUS
<1>7. b \in CallBack /\ b.listen = FALSE
  BY <1>6 DEF CallBack
<1>8. b \in CallBack \cup {Nil} /\ CallBackBecomes(s, c, b)
  BY <1>5, <1>6, <1>7 DEF unlistenCallBack, RunsOn, CallBackBecomes
<1>9. /\ kv' \in [Server -> KVServer]
      /\ \A t \in Server \ {s} : kv'[t] = kv[t]
      /\ kv'[s].db = kv[s].db /\ kv'[s].seqCheck = kv[s].seqCheck
      /\ kv'[s].applied = kv[s].applied /\ kv'[s].offered = kv[s].offered
      /\ kv'[s].serving = kv[s].serving
      /\ kv'[s].callBack[c] = b
      /\ \A d \in Client \ {c} : kv'[s].callBack[d] = kv[s].callBack[d]
  BY <1>1, <1>8, CallBackEffect, Zenon
<1>10. CallBackFree(s, c) /\ Ends(c, k, "wrongLeader", <<>>)
      /\ UNCHANGED <<clerk, chosen, tail, restarts, results>>
  BY DEF unlistenCallBack, RunsOn
<1> QED BY <1>1, <1>2, <1>7, <1>9, <1>10 DEF Unlistens

(* A handler receives an answer.                                            *)
Receives(c, k, s) ==
    /\ At(c, k, "waiting") /\ k \in 1..Len(call[c])
    /\ kv[s].serving \in Serving
    /\ kv[s].serving.sending /\ kv[s].serving.op.ClientId = c
    /\ Ends(c, k, "ok", kv[s].serving.value)
    /\ kv' \in [Server -> KVServer]
    /\ \A t \in Server \ {s} : kv'[t] = kv[t]
    /\ kv'[s].db = kv[s].db /\ kv'[s].seqCheck = kv[s].seqCheck
    /\ kv'[s].applied = kv[s].applied /\ kv'[s].offered = kv[s].offered
    /\ kv'[s].callBack = kv[s].callBack
    /\ kv'[s].serving \in Serving
    /\ kv'[s].serving.op = kv[s].serving.op
    /\ kv'[s].serving.value = kv[s].serving.value
    /\ kv'[s].serving.locked = kv[s].serving.locked
    /\ kv'[s].serving.sending = FALSE
    /\ UNCHANGED <<clerk, chosen, tail, restarts, results>>

(* HandlerReceives does what Receives says.                                 *)
LEMMA ReceiveEffect ==
  ASSUME KVTypes, NEW c \in Client, NEW k, HandlerReceives(c, k),
         NEW s \in Server, RunsOn(c, k, s)
  PROVE  Receives(c, k, s)
<1>1. TypeOK /\ At(c, k, "waiting")
  BY DEF KVTypes, HandlerReceives
<1>2. k \in 1..Len(call[c])
  BY <1>1, RunningAt
<1>3. /\ kv[s].serving # Nil
      /\ kv[s].serving.sending /\ kv[s].serving.op.ClientId = c
      /\ Ends(c, k, "ok", kv[s].serving.value)
      /\ kv' = [kv EXCEPT ![s].serving.sending = FALSE]
      /\ UNCHANGED <<clerk, chosen, tail, restarts, results>>
  BY DEF HandlerReceives, RunsOn
<1>4. kv[s].serving \in Serving
  BY <1>1, <1>3 DEF TypeOK, KVServer
<1>5. /\ kv' \in [Server -> KVServer]
      /\ \A t \in Server \ {s} : kv'[t] = kv[t]
      /\ kv'[s].db = kv[s].db /\ kv'[s].seqCheck = kv[s].seqCheck
      /\ kv'[s].applied = kv[s].applied /\ kv'[s].offered = kv[s].offered
      /\ kv'[s].callBack = kv[s].callBack
      /\ kv'[s].serving \in Serving
      /\ kv'[s].serving.op = kv[s].serving.op
      /\ kv'[s].serving.value = kv[s].serving.value
      /\ kv'[s].serving.locked = kv[s].serving.locked
      /\ kv'[s].serving.sending = FALSE
  BY <1>1, <1>3, SentEffect
<1> QED BY <1>1, <1>2, <1>3, <1>4, <1>5 DEF Receives

(* Every handler runs on a server.                                          *)
LEMMA HandlerHome ==
  ASSUME KVTypes, NEW c \in Client, NEW k \in 1..Len(call[c])
  PROVE  \E s \in Server : RunsOn(c, k, s)
<1>1. call[c] \in Seq(Handler)
  BY DEF KVTypes, TypeOK
<1>2. call[c][k] \in Handler
  BY <1>1
<1> QED BY <1>2 DEF Handler, RunsOn

(* A handler that begins to wait keeps the types.                           *)
LEMMA ListenTypes ==
  ASSUME KVTypes, NEW c \in Client, NEW k, listenCallBack(c, k)
  PROVE  KVTypes'
<1>1. TypeOK /\ k \in 1..Len(call[c])
  BY DEF KVTypes, listenCallBack, At
<1>2. PICK s \in Server : RunsOn(c, k, s)
  BY <1>1, HandlerHome
<1>3. Listens(c, k, s)
  BY <1>2, ListenEffect
<1>4. /\ MovesTo(c, k, "waiting") /\ kv' \in [Server -> KVServer]
      /\ \A t \in Server \ {s} : kv'[t] = kv[t]
      /\ kv'[s].applied = kv[s].applied /\ kv'[s].offered = kv[s].offered
      /\ kv'[s].callBack[c] # Nil
      /\ \A d \in Client \ {c} : kv'[s].callBack[d] = kv[s].callBack[d]
      /\ UNCHANGED <<clerk, chosen, tail, restarts, results>>
  BY <1>3, NilAssumption DEF Listens
<1>5. /\ call' \in [Client -> Seq(Handler)]
      /\ \A d \in Client \ {c} : call'[d] = call[d]
      /\ Len(call'[c]) = Len(call[c])
      /\ \A j \in 1..Len(call[c]) : j # k => call'[c][j] = call[c][j]
      /\ call'[c][k].op = call[c][k].op
      /\ call'[c][k].server = s
  BY <1>1, <1>2, <1>4, MoveEffect DEF RunsOn
<1>6. \A t \in Server : kv'[t].applied = kv[t].applied /\ kv'[t].offered = kv[t].offered
  BY <1>4
<1>7. \A t \in Server, d \in Client : kv[t].callBack[d] # Nil => kv'[t].callBack[d] # Nil
  BY <1>4
<1>8. kv'[call'[c][k].server].callBack[c] # Nil /\ tail' \in [Server -> Seq(Ops)]
  BY <1>1, <1>4, <1>5 DEF TypeOK
<1> QED BY <1>1, <1>4, <1>5, <1>6, <1>7, <1>8, HandlerTypes

(* A handler whose time is up keeps the types.                              *)
LEMMA TimeoutTypes ==
  ASSUME KVTypes, NEW c \in Client, NEW k, HandlerTimeout(c, k)
  PROVE  KVTypes'
<1>1. /\ TypeOK /\ k \in 1..Len(call[c]) /\ call[c][k].pc = "waiting"
      /\ MovesTo(c, k, "timedOut")
      /\ UNCHANGED <<clerk, kv, chosen, tail, restarts, results>>
  BY DEF KVTypes, HandlerTimeout, At, MovesTo
<1>2. /\ call' \in [Client -> Seq(Handler)]
      /\ \A d \in Client \ {c} : call'[d] = call[d]
      /\ Len(call'[c]) = Len(call[c])
      /\ \A j \in 1..Len(call[c]) : j # k => call'[c][j] = call[c][j]
      /\ call'[c][k].op = call[c][k].op
      /\ call'[c][k].server = call[c][k].server
  BY <1>1, MoveEffect
<1>3. kv'[call'[c][k].server].callBack[c] # Nil
  BY <1>1, <1>2 DEF KVTypes, HandlersOK
<1>4. tail' \in [Server -> Seq(Ops)] /\ kv' \in [Server -> KVServer]
  BY <1>1 DEF TypeOK
<1> QED BY <1>1, <1>2, <1>3, <1>4, HandlerTypes

(* A handler that withdraws keeps the types.                                *)
LEMMA UnlistenTypes ==
  ASSUME KVTypes, NEW c \in Client, NEW k, unlistenCallBack(c, k)
  PROVE  KVTypes'
<1>1. TypeOK /\ k \in 1..Len(call[c])
  BY DEF KVTypes, unlistenCallBack, At
<1>2. PICK s \in Server : RunsOn(c, k, s)
  BY <1>1, HandlerHome
<1>3. Unlistens(c, k, s)
  BY <1>2, UnlistenEffect
<1>4. /\ Ends(c, k, "wrongLeader", <<>>) /\ kv' \in [Server -> KVServer]
      /\ \A t \in Server \ {s} : kv'[t] = kv[t]
      /\ kv'[s].applied = kv[s].applied /\ kv'[s].offered = kv[s].offered
      /\ kv'[s].callBack[c] # Nil
      /\ \A d \in Client \ {c} : kv'[s].callBack[d] = kv[s].callBack[d]
      /\ UNCHANGED <<clerk, chosen, tail, restarts, results>>
  BY <1>3, NilAssumption DEF Unlistens
<1>5. <<>> \in Data
  BY DEF Data
<1>6. /\ call' \in [Client -> Seq(Handler)]
      /\ \A d \in Client \ {c} : call'[d] = call[d]
      /\ Len(call'[c]) = Len(call[c])
      /\ \A j \in 1..Len(call[c]) : j # k => call'[c][j] = call[c][j]
      /\ call'[c][k].op = call[c][k].op
      /\ call'[c][k].pc \in {"wrongLeader", "gone"}
  BY <1>1, <1>4, <1>5, EndsEffect
<1>7. \A t \in Server : kv'[t].applied = kv[t].applied /\ kv'[t].offered = kv[t].offered
  BY <1>4
<1>8. \A t \in Server, d \in Client : kv[t].callBack[d] # Nil => kv'[t].callBack[d] # Nil
  BY <1>4
<1>9. call'[c][k].pc \notin {"started", "waiting", "timedOut"}
      /\ tail' \in [Server -> Seq(Ops)]
  BY <1>1, <1>4, <1>6 DEF TypeOK
<1> QED BY <1>1, <1>4, <1>6, <1>7, <1>8, <1>9, HandlerTypes

(* A handler that is answered keeps the types.                              *)
LEMMA ReceiveTypes ==
  ASSUME KVTypes, NEW c \in Client, NEW k, HandlerReceives(c, k)
  PROVE  KVTypes'
<1>1. TypeOK /\ k \in 1..Len(call[c])
  BY DEF KVTypes, HandlerReceives, At
<1>2. PICK s \in Server : RunsOn(c, k, s)
  BY <1>1, HandlerHome
<1>3. Receives(c, k, s)
  BY <1>2, ReceiveEffect
<1>4. /\ kv[s].serving \in Serving
      /\ Ends(c, k, "ok", kv[s].serving.value) /\ kv' \in [Server -> KVServer]
      /\ \A t \in Server \ {s} : kv'[t] = kv[t]
      /\ kv'[s].applied = kv[s].applied /\ kv'[s].offered = kv[s].offered
      /\ kv'[s].callBack = kv[s].callBack
      /\ UNCHANGED <<clerk, chosen, tail, restarts, results>>
  BY <1>3 DEF Receives
<1>5. PICK value \in Data : value = kv[s].serving.value
  BY <1>4 DEF Serving
<1>x. Ends(c, k, "ok", value)
  BY <1>4, <1>5
<1>6. /\ call' \in [Client -> Seq(Handler)]
      /\ \A d \in Client \ {c} : call'[d] = call[d]
      /\ Len(call'[c]) = Len(call[c])
      /\ \A j \in 1..Len(call[c]) : j # k => call'[c][j] = call[c][j]
      /\ call'[c][k].op = call[c][k].op
      /\ call'[c][k].pc \in {"ok", "gone"}
  BY <1>1, <1>x, EndsEffect
<1>7. \A t \in Server : kv'[t].applied = kv[t].applied /\ kv'[t].offered = kv[t].offered
  BY <1>4
<1>8. \A t \in Server, d \in Client : kv[t].callBack[d] # Nil => kv'[t].callBack[d] # Nil
  BY <1>4
<1>9. call'[c][k].pc \notin {"started", "waiting", "timedOut"}
      /\ tail' \in [Server -> Seq(Ops)]
  BY <1>1, <1>4, <1>6 DEF TypeOK
<1> QED BY <1>1, <1>4, <1>6, <1>7, <1>8, <1>9, HandlerTypes

(* An operation is committed.                                               *)
Commits(s) ==
    /\ tail[s] # <<>> /\ 1 \in 1..Len(tail[s])
    /\ chosen' = Append(chosen, tail[s][1]) /\ chosen' \in Seq(Ops)
    /\ Len(chosen') = Len(chosen) + 1
    /\ chosen'[Len(chosen) + 1] = tail[s][1]
    /\ \A q \in 1..Len(chosen) : chosen'[q] = chosen[q]
    /\ tail' \in [Server -> Seq(Ops)]
    /\ \A t \in Server : \A q \in 1..Len(tail'[t]) :
          t = s /\ q + 1 \in 1..Len(tail[s]) /\ tail'[t][q] = tail[s][q + 1]
    /\ UNCHANGED <<clerk, call, kv, restarts, results>>

(* Commit does what Commits says: chosen grows by the head of a log.        *)
LEMMA CommitEffect ==
  ASSUME TypeOK, NEW s \in Server, Commit(s)
  PROVE  Commits(s)
<1>1. tail \in [Server -> Seq(Ops)] /\ tail[s] \in Seq(Ops) /\ chosen \in Seq(Ops)
      /\ tail[s] # <<>>
  BY DEF TypeOK, Commit
<1>2. /\ Len(tail[s]) \in Nat /\ Len(tail[s]) > 0 /\ Head(tail[s]) = tail[s][1]
      /\ tail[s][1] \in Ops
      /\ Tail(tail[s]) \in Seq(Ops) /\ Len(Tail(tail[s])) = Len(tail[s]) - 1
      /\ \A q \in 1..Len(tail[s]) - 1 : Tail(tail[s])[q] = tail[s][q + 1]
  BY <1>1
<1>3. /\ chosen' = Append(chosen, tail[s][1]) /\ chosen' \in Seq(Ops)
      /\ Len(chosen') = Len(chosen) + 1
      /\ chosen'[Len(chosen) + 1] = tail[s][1]
      /\ \A q \in 1..Len(chosen) : chosen'[q] = chosen[q]
  BY <1>1, <1>2 DEF Commit
<1>4. /\ tail'[s] = Tail(tail[s]) /\ \A t \in Server \ {s} : tail'[t] = <<>>
      /\ tail' \in [Server -> Seq(Ops)]
  BY <1>2 DEF Commit
<1>5. \A t \in Server : \A q \in 1..Len(tail'[t]) :
         t = s /\ q + 1 \in 1..Len(tail[s]) /\ tail'[t][q] = tail[s][q + 1]
  BY <1>2, <1>4
<1>6. UNCHANGED <<clerk, call, kv, restarts, results>> /\ 1 \in 1..Len(tail[s])
  BY <1>2 DEF Commit
<1> QED BY <1>1, <1>3, <1>4, <1>5, <1>6 DEF Commits

(* A commitment keeps the types.                                            *)
LEMMA CommitTypes ==
  ASSUME KVTypes, NEW s \in Server, Commit(s)
  PROVE  KVTypes'
<1>1. TypeOK
  BY DEF KVTypes
<1>2. Commits(s)
  BY <1>1, CommitEffect
<1>3. /\ chosen' \in Seq(Ops) /\ tail' \in [Server -> Seq(Ops)]
      /\ Len(chosen') = Len(chosen) + 1 /\ Len(chosen) \in Nat
      /\ UNCHANGED <<clerk, call, kv, restarts, results>>
  BY <1>1, <1>2 DEF Commits, TypeOK
<1>4. TypeOK'
  BY <1>1, <1>3 DEF TypeOK
<1>5. ClerksOK' /\ HandlersOK'
  BY <1>3 DEF KVTypes, ClerksOK, HandlersOK
<1>6. ReceivedOK'
  <2>1. \A t \in Server : kv[t].applied \in Nat
    BY <1>1 DEF TypeOK, KVServer
  <2> QED BY <1>3, <2>1 DEF KVTypes, ReceivedOK
<1> QED BY <1>4, <1>5, <1>6 DEF KVTypes

(* A step of the server that keeps the entries of callBack and what has     *)
(* been received within what is committed.                                  *)
LEMMA ServerTypes ==
  ASSUME KVTypes, NEW s \in Server, kv' \in [Server -> KVServer],
         \A t \in Server \ {s} : kv'[t] = kv[t],
         \A d \in Client : kv[s].callBack[d] # Nil => kv'[s].callBack[d] # Nil,
         kv'[s].applied <= Len(chosen), kv'[s].offered => kv'[s].applied < Len(chosen),
         UNCHANGED <<clerk, call, chosen, tail, restarts, results>>
  PROVE  KVTypes'
<1>1. TypeOK'
  BY DEF KVTypes, TypeOK
<1>2. ClerksOK'
  BY DEF KVTypes, ClerksOK
<1>3. \A t \in Server, d \in Client : kv[t].callBack[d] # Nil => kv'[t].callBack[d] # Nil
  OBVIOUS
<1>4. HandlersOK'
  <2> SUFFICES ASSUME NEW d \in Client, NEW j \in 1..Len(call[d]),
                      call[d][j].pc \in {"started", "waiting", "timedOut"}
               PROVE  kv'[call[d][j].server].callBack[d] # Nil
    BY DEF HandlersOK, KVTypes
  <2>1. call[d] \in Seq(Handler)
    BY DEF KVTypes, TypeOK
  <2>2. call[d][j] \in Handler
    BY <2>1
  <2>3. call[d][j].server \in Server
    BY <2>2 DEF Handler
  <2>4. kv[call[d][j].server].callBack[d] # Nil
    BY DEF KVTypes, HandlersOK
  <2> QED BY <1>3, <2>3, <2>4
<1>5. ReceivedOK'
  BY DEF KVTypes, ReceivedOK
<1> QED BY <1>1, <1>2, <1>4, <1>5 DEF KVTypes

(* An offer keeps the types: there is something to receive.                 *)
LEMMA OfferTypes ==
  ASSUME KVTypes, NEW s \in Server, Offer(s)
  PROVE  KVTypes'
<1>1. TypeOK /\ kv[s] \in KVServer /\ chosen \in Seq(Ops)
  BY DEF KVTypes, TypeOK
<1>2. /\ kv[s].applied < Len(chosen)
      /\ kv' \in [Server -> KVServer]
      /\ \A t \in Server \ {s} : kv'[t] = kv[t]
      /\ kv'[s].applied = kv[s].applied
      /\ kv'[s].callBack = kv[s].callBack
      /\ UNCHANGED <<clerk, call, chosen, tail, restarts, results>>
  BY <1>1, OfferEffect
<1>3. kv'[s].applied <= Len(chosen)
  BY <1>1, <1>2 DEF KVServer
<1> QED BY <1>2, <1>3, ServerTypes

(* The end of the loop's body keeps the types.                              *)
LEMMA ApplyDoneTypes ==
  ASSUME KVTypes, NEW s \in Server, ApplyDone(s)
  PROVE  KVTypes'
<1>1. TypeOK
  BY DEF KVTypes
<1>2. /\ kv' \in [Server -> KVServer]
      /\ \A t \in Server \ {s} : kv'[t] = kv[t]
      /\ kv'[s].applied = kv[s].applied /\ kv'[s].offered = kv[s].offered
      /\ kv'[s].callBack = kv[s].callBack
      /\ UNCHANGED <<clerk, call, chosen, tail, restarts, results>>
  BY <1>1, ApplyDoneEffect
<1>3. kv'[s].applied <= Len(chosen) /\ (kv'[s].offered => kv'[s].applied < Len(chosen))
  BY <1>2 DEF KVTypes, ReceivedOK
<1> QED BY <1>2, <1>3, ServerTypes

(* Execution keeps the types: the server has received no more than is       *)
(* committed.                                                               *)
LEMMA ApplyTypes ==
  ASSUME KVTypes, NEW s \in Server, Apply(s)
  PROVE  KVTypes'
<1>1. PICK op : op = chosen[kv[s].applied + 1]
  OBVIOUS
<1>2. Applies(s, op)
  BY <1>1, ApplyEffect
<1>3. /\ kv[s].applied < Len(chosen) /\ op.ClientId \in Client
      /\ kv' \in [Server -> KVServer]
      /\ \A t \in Server \ {s} : kv'[t] = kv[t]
      /\ kv'[s].applied = kv[s].applied + 1 /\ kv'[s].offered = FALSE
      /\ UNCHANGED <<clerk, call, chosen, tail, restarts, results>>
  BY <1>2 DEF Applies
<1>4. \A d \in Client : kv[s].callBack[d] # Nil => kv'[s].callBack[d] # Nil
  <2> SUFFICES ASSUME NEW d \in Client, kv[s].callBack[d] # Nil
               PROVE  kv'[s].callBack[d] # Nil
    OBVIOUS
  <2>1. CASE d # op.ClientId
    BY <1>2, <2>1 DEF Applies
  <2>2. CASE d = op.ClientId
    BY <1>2, <2>2, NilAssumption DEF Applies
  <2> QED BY <2>1, <2>2
<1>5. kv[s].applied \in Nat /\ Len(chosen) \in Nat
  BY DEF KVTypes, TypeOK, KVServer
<1>6. kv'[s].applied <= Len(chosen)
  BY <1>3, <1>5
<1> QED BY <1>3, <1>4, <1>6, ServerTypes

(* A restart keeps the types: no handler waits where callBack is empty.     *)
LEMMA RebornTypes ==
  ASSUME KVTypes, NEW s \in Server, Reborn(s), restarts' \in Nat
  PROVE  KVTypes'
<1>1. TypeOK
  BY DEF KVTypes
<1>2. /\ kv' \in [Server -> KVServer]
      /\ \A t \in Server \ {s} : kv'[t] = kv[t]
      /\ kv'[s].applied = 0 /\ kv'[s].offered = FALSE
      /\ call' \in [Client -> Seq(Handler)]
      /\ \A c \in Client :
            /\ Len(call'[c]) = Len(call[c])
            /\ \A k \in 1..Len(call[c]) :
                  /\ call'[c][k].op = call[c][k].op
                  /\ call'[c][k].server = call[c][k].server
                  /\ call[c][k].server = s =>
                        call'[c][k].pc = IF call[c][k].pc = "gone" THEN "gone" ELSE "killed"
                  /\ call[c][k].server # s => call'[c][k] = call[c][k]
      /\ UNCHANGED <<clerk, chosen, tail, results>>
  BY <1>1, RebornEffect
<1>3. TypeOK'
  BY <1>1, <1>2 DEF TypeOK
<1>4. ClerksOK'
  <2> SUFFICES ASSUME NEW c \in Client, clerk[c].calling
               PROVE  clerk[c].op # Nil /\ call'[c] # <<>>
    BY <1>2 DEF ClerksOK, KVTypes
  <2>1. clerk[c].op # Nil /\ call[c] # <<>>
    BY DEF KVTypes, ClerksOK
  <2>2. Len(call'[c]) = Len(call[c]) /\ call[c] \in Seq(Handler) /\ call'[c] \in Seq(Handler)
    BY <1>1, <1>2 DEF TypeOK
  <2> QED BY <2>1, <2>2
<1>5. HandlersOK'
  <2> SUFFICES ASSUME NEW c \in Client, NEW k \in 1..Len(call'[c])
               PROVE  /\ call'[c][k].op.ClientId = c
                      /\ call'[c][k].pc \in {"started", "waiting", "timedOut"} =>
                            kv'[call'[c][k].server].callBack[c] # Nil
    BY DEF HandlersOK
  <2>1. k \in 1..Len(call[c]) /\ call[c] \in Seq(Handler)
    BY <1>1, <1>2 DEF TypeOK
  <2>2. call[c][k] \in Handler
    BY <2>1
  <2>3. call[c][k].server \in Server
    BY <2>2 DEF Handler
  <2>4. /\ call[c][k].op.ClientId = c
        /\ call[c][k].pc \in {"started", "waiting", "timedOut"} =>
              kv[call[c][k].server].callBack[c] # Nil
    BY <2>1 DEF KVTypes, HandlersOK
  <2>5. CASE call[c][k].server = s
    BY <1>2, <2>1, <2>4, <2>5
  <2>6. CASE call[c][k].server # s
    BY <1>2, <2>1, <2>3, <2>4, <2>6
  <2> QED BY <2>5, <2>6
<1>6. ReceivedOK'
  <2>1. Len(chosen) \in Nat
    BY <1>1 DEF TypeOK
  <2> QED BY <1>2, <2>1 DEF KVTypes, ReceivedOK
<1> QED BY <1>3, <1>4, <1>5, <1>6 DEF KVTypes

(* Every step keeps the types.                                              *)
LEMMA TypesStep == KVTypes /\ [Next]_vars => KVTypes'
<1> SUFFICES ASSUME KVTypes, [Next]_vars PROVE KVTypes'
  OBVIOUS
<1>1. ASSUME NEW c \in Client, ClerkStep(c) PROVE KVTypes'
  <2>1. CASE \E method \in Method, key \in Key : Invoke(c, method, key)
    BY <2>1, InvokeTypes
  <2>2. CASE Call(c)
    BY <2>2, CallTypes
  <2>3. CASE RequestLost(c)
    BY <2>3, RequestLostTypes
  <2>4. CASE ReplyArrives(c)
    BY <2>4, ReplyArrivesTypes
  <2>5. CASE ReplyLost(c)
    BY <2>5, ReplyLostTypes
  <2> QED BY <1>1, <2>1, <2>2, <2>3, <2>4, <2>5 DEF ClerkStep
<1>2. ASSUME NEW c \in Client, NEW k, HandlerStep(c, k) PROVE KVTypes'
  <2>1. CASE WrongLeader(c, k)
    BY <2>1, WrongLeaderTypes
  <2>2. CASE HandlerStart(c, k)
    BY <2>2, HandlerStartTypes
  <2>3. CASE listenCallBack(c, k)
    BY <2>3, ListenTypes
  <2>4. CASE HandlerTimeout(c, k)
    BY <2>4, TimeoutTypes
  <2>5. CASE unlistenCallBack(c, k)
    BY <2>5, UnlistenTypes
  <2>6. CASE HandlerReceives(c, k)
    BY <2>6, ReceiveTypes
  <2> QED BY <1>2, <2>1, <2>2, <2>3, <2>4, <2>5, <2>6 DEF HandlerStep
<1>3. ASSUME NEW s \in Server, Commit(s) \/ ServerStep(s) \/ Restart(s) PROVE KVTypes'
  <2>0. restarts \in Nat
    BY DEF KVTypes, TypeOK
  <2>1. CASE Commit(s)
    BY <2>1, CommitTypes
  <2>2. CASE Offer(s)
    BY <2>2, OfferTypes
  <2>3. CASE Apply(s)
    BY <2>3, ApplyTypes
  <2>4. CASE ApplyDone(s)
    BY <2>4, ApplyDoneTypes
  <2>5. CASE FatalUnlock(s)
    <3>1. Reborn(s) /\ restarts' \in Nat
      BY <2>0, <2>5 DEF FatalUnlock
    <3> QED BY <3>1, RebornTypes
  <2>6. CASE Restart(s)
    <3>1. Reborn(s) /\ restarts' \in Nat
      BY <2>0, <2>6 DEF Restart
    <3> QED BY <3>1, RebornTypes
  <2> QED BY <1>3, <2>1, <2>2, <2>3, <2>4, <2>5, <2>6 DEF ServerStep
<1>4. CASE UNCHANGED vars
  <2>1. UNCHANGED <<clerk, call, kv, chosen, tail, restarts, results>>
    BY <1>4 DEF vars
  <2> QED BY <2>1 DEF KVTypes, TypeOK, ClerksOK, HandlersOK, ReceivedOK
<1> QED BY <1>1, <1>2, <1>3, <1>4 DEF Next

(* Every variable of the key/value service keeps its type, whatever the     *)
(* Clerks, the network and crashes do: in particular no handler finds its   *)
(* entry of callBack missing, and runServer receives only what Raft has     *)
(* committed.                                                               *)
THEOREM KVTypeCorrect == Spec => []TypeOK
<1>1. KVTypes => TypeOK
  BY DEF KVTypes
<1> QED BY <1>1, InitTypes, TypesStep, PTL DEF Spec

-----------------------------------------------------------------------------
(* What a replay is, one operation after the other.                         *)

(* Whether the next operation is executed depends on those before it only.  *)
LEMMA ExecutedNext ==
  ASSUME NEW n \in Nat
  PROVE  /\ Executed(n) \subseteq 1..n
         /\ Executed(n + 1) \subseteq Executed(n) \cup {n + 1}
         /\ Executed(n) \subseteq Executed(n + 1)
         /\ n + 1 \in Executed(n + 1) <=>
               \A q \in 1..n : chosen[q].ClientId = chosen[n + 1].ClientId =>
                                  chosen[q].ClientSeq < chosen[n + 1].ClientSeq
<1>1. 1..(n + 1) = 1..n \cup {n + 1} /\ (n + 1) - 1 = n
  OBVIOUS
<1> QED BY <1>1 DEF Executed

(* One more operation is one more write of its key if it is executed and no *)
(* Get.                                                                     *)
LEMMA WritesNext ==
  ASSUME NEW n \in Nat, NEW key
  PROVE  /\ Writes(n, key) \subseteq 1..n
         /\ n + 1 \notin Writes(n + 1, key) => Writes(n + 1, key) = Writes(n, key)
         /\ n + 1 \in Writes(n + 1, key) => Writes(n + 1, key) = Writes(n, key) \cup {n + 1}
  BY ExecutedNext DEF Writes

(* A Put is all that is kept, an Append is kept with the rest, and anything *)
(* else changes nothing.                                                    *)
LEMMA KeptNext ==
  ASSUME NEW n \in Nat, NEW key
  PROVE  /\ Kept(n, key) \subseteq 1..n
         /\ IsFiniteSet(Kept(n, key)) /\ Cardinality(Kept(n, key)) \in Nat
         /\ n + 1 \notin Writes(n + 1, key) => Kept(n + 1, key) = Kept(n, key)
         /\ n + 1 \in Writes(n + 1, key) /\ chosen[n + 1].Op = "Put" =>
               Kept(n + 1, key) = {n + 1}
         /\ n + 1 \in Writes(n + 1, key) /\ chosen[n + 1].Op # "Put" =>
               Kept(n + 1, key) = Kept(n, key) \cup {n + 1}
<1>1. Writes(n, key) \subseteq 1..n
  BY WritesNext
<1>2. Kept(n, key) \subseteq 1..n
  BY <1>1 DEF Kept
<1>3. IsFiniteSet(1..n)
  BY FS_Interval
<1>4. IsFiniteSet(Kept(n, key)) /\ Cardinality(Kept(n, key)) \in Nat
  BY <1>2, <1>3, FS_Subset, FS_CardinalityType
<1>5. ASSUME n + 1 \notin Writes(n + 1, key) PROVE Kept(n + 1, key) = Kept(n, key)
  <2>1. Writes(n + 1, key) = Writes(n, key)
    BY <1>5, WritesNext
  <2> QED BY <2>1 DEF Kept
<1>6. ASSUME n + 1 \in Writes(n + 1, key)
      PROVE  /\ Writes(n + 1, key) = Writes(n, key) \cup {n + 1}
             /\ \A q \in Writes(n + 1, key) : q <= n + 1
  BY <1>1, <1>6, WritesNext
<1>7. ASSUME n + 1 \in Writes(n + 1, key), chosen[n + 1].Op = "Put"
      PROVE  Kept(n + 1, key) = {n + 1}
  <2>1. \A p \in Kept(n + 1, key) : p = n + 1
    <3> SUFFICES ASSUME NEW p \in Kept(n + 1, key) PROVE p = n + 1
      OBVIOUS
    <3>1. p \in Writes(n + 1, key) /\ n + 1 <= p
      BY <1>7 DEF Kept
    <3> QED BY <1>1, <1>6, <1>7, <3>1
  <2>2. n + 1 \in Kept(n + 1, key)
    BY <1>6, <1>7 DEF Kept
  <2> QED BY <2>1, <2>2
<1>8. ASSUME n + 1 \in Writes(n + 1, key), chosen[n + 1].Op # "Put"
      PROVE  Kept(n + 1, key) = Kept(n, key) \cup {n + 1}
  <2>1. Writes(n + 1, key) = Writes(n, key) \cup {n + 1}
    BY <1>6, <1>8
  <2>2. n + 1 \in Kept(n + 1, key)
    BY <1>6, <1>8 DEF Kept
  <2>3. Kept(n, key) \subseteq Kept(n + 1, key)
    BY <1>8, <2>1 DEF Kept
  <2>4. Kept(n + 1, key) \subseteq Kept(n, key) \cup {n + 1}
    BY <2>1 DEF Kept
  <2> QED BY <2>2, <2>3, <2>4
<1> QED BY <1>2, <1>4, <1>5, <1>7, <1>8

(* A place beyond all others of a set has the last rank, and changes no     *)
(* other.                                                                   *)
LEMMA RankedNext ==
  ASSUME NEW n \in Nat, NEW S \in SUBSET (1..n)
  PROVE  /\ Cardinality(S \cup {n + 1}) = Cardinality(S) + 1
         /\ \A i \in 1..Cardinality(S) : Ranked(S \cup {n + 1}, i) = Ranked(S, i)
         /\ Ranked(S \cup {n + 1}, Cardinality(S) + 1) = {n + 1}
<1>1. IsFiniteSet(S)
  <2>1. IsFiniteSet(1..n) /\ S \subseteq 1..n
    BY FS_Interval
  <2> QED BY <2>1, FS_Subset
<1>2. PICK k \in Nat : k = Cardinality(S)
  BY <1>1, FS_CardinalityType
<1>3. Cardinality(S \cup {n + 1}) = k + 1
  BY <1>1, <1>2, FS_AddElement
<1>4. PICK m \in Nat : m = n + 1
  OBVIOUS
<1>5. {q \in S \cup {m} : q <= m} = S \cup {m}
  <2>1. \A q \in S \cup {m} : q <= m
    BY <1>4
  <2> QED BY <2>1
<1>6. ASSUME NEW p \in S
      PROVE  {q \in S \cup {m} : q <= p} = {q \in S : q <= p}
  BY <1>4
<1>7. ASSUME NEW p \in S
      PROVE  /\ Cardinality({q \in S : q <= p}) \in Nat
             /\ Cardinality({q \in S : q <= p}) <= k
  <2>1. {q \in S : q <= p} \subseteq S
    OBVIOUS
  <2>2. PICK T : T = {q \in S : q <= p}
    OBVIOUS
  <2>3. T \subseteq S
    BY <2>1, <2>2
  <2>4. Cardinality(T) <= Cardinality(S) /\ IsFiniteSet(T)
    BY <1>1, <2>3, FS_Subset
  <2>5. Cardinality(T) \in Nat
    BY <2>4, FS_CardinalityType
  <2> QED BY <1>2, <2>2, <2>4, <2>5
<1>8. ASSUME NEW i \in 1..k PROVE Ranked(S \cup {m}, i) = Ranked(S, i)
  <2>1. ASSUME NEW p \in Ranked(S \cup {m}, i) PROVE p \in Ranked(S, i)
    <3>1. p \in S \cup {m} /\ Cardinality({q \in S \cup {m} : q <= p}) = i
      BY <2>1 DEF Ranked
    <3>2. p # m
      <4> SUFFICES ASSUME p = m PROVE FALSE
        OBVIOUS
      <4>1. Cardinality({q \in S \cup {m} : q <= p}) = k + 1
        BY <1>3, <1>4, <1>5
      <4> QED BY <3>1, <4>1
    <3>3. p \in S
      BY <3>1, <3>2
    <3>4. {q \in S \cup {m} : q <= p} = {q \in S : q <= p}
      BY <3>3, <1>6
    <3> QED BY <3>1, <3>3, <3>4 DEF Ranked
  <2>2. ASSUME NEW p \in Ranked(S, i) PROVE p \in Ranked(S \cup {m}, i)
    <3>1. p \in S /\ Cardinality({q \in S : q <= p}) = i
      BY <2>2 DEF Ranked
    <3>2. {q \in S \cup {m} : q <= p} = {q \in S : q <= p}
      BY <3>1, <1>6
    <3> QED BY <3>1, <3>2 DEF Ranked
  <2> QED BY <2>1, <2>2
<1>9. Ranked(S \cup {m}, k + 1) = {m}
  <2>1. ASSUME NEW p \in Ranked(S \cup {m}, k + 1) PROVE p = m
    <3>1. p \in S \cup {m} /\ Cardinality({q \in S \cup {m} : q <= p}) = k + 1
      BY <2>1 DEF Ranked
    <3>2. CASE p \in S
      <4>1. {q \in S \cup {m} : q <= p} = {q \in S : q <= p}
        BY <3>2, <1>6
      <4>2. Cardinality({q \in S : q <= p}) \in Nat /\ Cardinality({q \in S : q <= p}) <= k
        BY <3>2, <1>7
      <4> QED BY <3>1, <4>1, <4>2
    <3> QED BY <3>1, <3>2
  <2>2. m \in Ranked(S \cup {m}, k + 1)
    BY <1>3, <1>4, <1>5 DEF Ranked
  <2> QED BY <2>1, <2>2
<1> QED BY <1>2, <1>3, <1>4, <1>8, <1>9

(* The element of a singleton.                                              *)
LEMMA TheOnly == ASSUME NEW x PROVE The({x}) = x
  BY DEF The

(* The value at a place.                                                    *)
ValuesOf(S) == {Value(chosen[p]) : p \in S}

(* An operation that writes nothing to a key does not change its replay.    *)
LEMMA ReplaySkip ==
  ASSUME NEW n \in Nat, NEW key, n + 1 \notin Writes(n + 1, key)
  PROVE  Replay(n + 1, key) = Replay(n, key)
<1>1. Kept(n + 1, key) = Kept(n, key)
  BY KeptNext
<1> QED BY <1>1 DEF Replay

(* After a Put that is executed, the replay is its value alone.             *)
LEMMA ReplayPut ==
  ASSUME NEW n \in Nat, NEW key, n + 1 \in Writes(n + 1, key), chosen[n + 1].Op = "Put"
  PROVE  Replay(n + 1, key) = <<Value(chosen[n + 1])>>
<1>1. Kept(n + 1, key) = {n + 1}
  BY KeptNext
<1>2. /\ Cardinality({} \cup {n + 1}) = Cardinality({}) + 1
      /\ Ranked({} \cup {n + 1}, Cardinality({}) + 1) = {n + 1}
  <2>1. {} \in SUBSET (1..n)
    OBVIOUS
  <2> QED BY <2>1, RankedNext
<1>3. Cardinality({n + 1}) = 1 /\ Ranked({n + 1}, 1) = {n + 1}
  <2>1. Cardinality({}) = 0 /\ {} \cup {n + 1} = {n + 1}
    BY FS_EmptySet
  <2> QED BY <1>2, <2>1
<1>4. Replay(n + 1, key) =
         [i \in 1..Cardinality(Kept(n + 1, key)) |-> The(ValuesOf(Ranked(Kept(n + 1, key), i)))]
  BY DEF Replay, ValuesOf
<1>5. Replay(n + 1, key) = [i \in 1..1 |-> The(ValuesOf(Ranked({n + 1}, i)))]
  BY <1>1, <1>3, <1>4
<1>6. The(ValuesOf(Ranked({n + 1}, 1))) = Value(chosen[n + 1])
  <2>1. ValuesOf({n + 1}) = {Value(chosen[n + 1])}
    BY DEF ValuesOf
  <2> QED BY <1>3, <2>1, TheOnly
<1>7. \A i \in 1..1 : The(ValuesOf(Ranked({n + 1}, i))) = Value(chosen[n + 1])
  BY <1>6
<1> QED BY <1>5, <1>7

(* After an Append that is executed, the replay is one value longer.        *)
LEMMA ReplayAppend ==
  ASSUME NEW n \in Nat, NEW key, n + 1 \in Writes(n + 1, key), chosen[n + 1].Op # "Put",
         Replay(n, key) \in Data, Value(chosen[n + 1]) \in Client \X Nat
  PROVE  Replay(n + 1, key) = Append(Replay(n, key), Value(chosen[n + 1]))
<1>1. PICK K : K = Kept(n, key)
  OBVIOUS
<1>2. Kept(n + 1, key) = K \cup {n + 1} /\ K \in SUBSET (1..n) /\ Cardinality(K) \in Nat
  BY <1>1, KeptNext
<1>3. PICK k \in Nat : k = Cardinality(K)
  BY <1>2
<1>4. /\ Cardinality(K \cup {n + 1}) = k + 1
      /\ \A i \in 1..k : Ranked(K \cup {n + 1}, i) = Ranked(K, i)
      /\ Ranked(K \cup {n + 1}, k + 1) = {n + 1}
  BY <1>2, <1>3, RankedNext
<1>5. PICK d : d = Replay(n, key)
  OBVIOUS
<1>6. d = [i \in 1..k |-> The(ValuesOf(Ranked(K, i)))]
  BY <1>1, <1>3, <1>5 DEF Replay, ValuesOf
<1>7. Replay(n + 1, key) = [i \in 1..(k + 1) |-> The(ValuesOf(Ranked(K \cup {n + 1}, i)))]
  BY <1>2, <1>4 DEF Replay, ValuesOf
<1>8. PICK v \in Client \X Nat : v = Value(chosen[n + 1])
  OBVIOUS
<1>9. The(ValuesOf(Ranked(K \cup {n + 1}, k + 1))) = v
  <2>1. ValuesOf({n + 1}) = {v}
    BY <1>8 DEF ValuesOf
  <2> QED BY <1>4, <2>1, TheOnly
<1>10. d \in Seq(Client \X Nat) /\ DOMAIN d = 1..k
  BY <1>5, <1>6 DEF Data
<1>11. Len(d) = k
  BY <1>10
<1>12. \A i \in 1..k : The(ValuesOf(Ranked(K \cup {n + 1}, i))) = d[i]
  BY <1>4, <1>6
<1>13. Append(d, v) = [i \in 1..(k + 1) |-> The(ValuesOf(Ranked(K \cup {n + 1}, i)))]
  <2> DEFINE e == Append(d, v)
             F(i) == The(ValuesOf(Ranked(K \cup {n + 1}, i)))
  <2>1. /\ e \in Seq(Client \X Nat) /\ Len(e) = k + 1 /\ e[k + 1] = v
        /\ \A i \in 1..k : e[i] = d[i]
    BY <1>10, <1>11
  <2> HIDE DEF e
  <2>a. \A i \in 1..k : F(i) = d[i]
    BY <1>12
  <2>b. F(k + 1) = v
    BY <1>9
  <2> HIDE DEF F
  <2>2. \A i \in 1..(k + 1) : e[i] = F(i)
    BY <2>1, <2>a, <2>b
  <2>3. e = [i \in 1..(k + 1) |-> e[i]]
    BY <2>1
  <2>4. e = [i \in 1..(k + 1) |-> F(i)]
    BY <2>2, <2>3
  <2> QED BY <2>4 DEF e, F
<1> QED BY <1>5, <1>7, <1>8, <1>13

(* What is committed later does not change the replay of what was before.   *)
LEMMA ReplayStable ==
  ASSUME NEW n \in Nat, NEW key, \A q \in 1..n : chosen'[q] = chosen[q]
  PROVE  Replay(n, key)' = Replay(n, key)
<1>1. Executed(n)' = Executed(n) /\ Executed(n) \subseteq 1..n
  BY DEF Executed
<1>2. Writes(n, key)' = Writes(n, key) /\ Writes(n, key) \subseteq 1..n
  BY <1>1 DEF Writes
<1>3. Kept(n, key)' = Kept(n, key) /\ Kept(n, key) \subseteq 1..n
  BY <1>2 DEF Kept
<1>4. \A i : ValuesOf(Ranked(Kept(n, key), i))' = ValuesOf(Ranked(Kept(n, key), i))
  <2> SUFFICES ASSUME NEW i
               PROVE  ValuesOf(Ranked(Kept(n, key), i))' = ValuesOf(Ranked(Kept(n, key), i))
    OBVIOUS
  <2>1. PICK R : R = Ranked(Kept(n, key), i)
    OBVIOUS
  <2>2. Ranked(Kept(n, key), i)' = R
    BY <1>3, <2>1 DEF Ranked
  <2>3. R \subseteq 1..n
    BY <1>3, <2>1 DEF Ranked
  <2>4. {Value(chosen'[p]) : p \in R} = {Value(chosen[p]) : p \in R}
    BY <2>3
  <2> QED BY <2>1, <2>2, <2>4 DEF ValuesOf
<1> QED BY <1>3, <1>4 DEF Replay, ValuesOf

-----------------------------------------------------------------------------
(* The stores.                                                              *)

(* Nothing is replayed from nothing.                                        *)
LEMMA ReplayNothing == ASSUME NEW key PROVE Replay(0, key) = <<>>
<1>1. Kept(0, key) \subseteq 1..0
  BY KeptNext
<1>2. Kept(0, key) = {}
  BY <1>1
<1>3. Cardinality(Kept(0, key)) = 0
  BY <1>2, FS_EmptySet
<1> QED BY <1>3 DEF Replay

(* A server that has received nothing.                                      *)
LEMMA StoreEmpty ==
  ASSUME NEW s \in Server, kv[s].db = [k \in Key |-> <<>>],
         kv[s].seqCheck = [c \in Client |-> -1], kv[s].applied = 0
  PROVE  StoreAt(s)
<1>1. SeqCheckOK(s)
  BY DEF SeqCheckOK
<1>2. ASSUME NEW key \in Key PROVE OrderOK(kv[s].db[key], kv[s].seqCheck)
  <2>1. kv[s].db[key] = <<>> /\ Len(<<>>) = 0
    OBVIOUS
  <2> QED BY <2>1 DEF OrderOK
<1>3. ASSUME NEW key \in Key PROVE kv[s].db[key] = Replay(kv[s].applied, key)
  BY ReplayNothing
<1> QED BY <1>1, <1>2, <1>3 DEF StoreAt

(* A step that does not touch the store of s.                               *)
LEMMA StoreKept ==
  ASSUME KVTypes, NEW s \in Server, StoreAt(s),
         kv'[s].db = kv[s].db, kv'[s].seqCheck = kv[s].seqCheck,
         kv'[s].applied = kv[s].applied,
         \A q \in 1..Len(chosen) : chosen'[q] = chosen[q]
  PROVE  StoreAt(s)'
<1>1. PICK n \in Nat : n = kv[s].applied
  BY DEF KVTypes, TypeOK, KVServer
<1>2. n <= Len(chosen) /\ Len(chosen) \in Nat
  BY <1>1 DEF KVTypes, TypeOK, ReceivedOK
<1>3. \A q \in 1..n : chosen'[q] = chosen[q]
  BY <1>2
<1>4. SeqCheckOK(s)'
  <2>1. SeqCheckOK(s)
    BY DEF StoreAt
  <2> QED BY <1>1, <1>3, <2>1 DEF SeqCheckOK
<1>5. ASSUME NEW key \in Key PROVE OrderOK(kv'[s].db[key], kv'[s].seqCheck)
  BY DEF StoreAt
<1>6. ASSUME NEW key \in Key PROVE kv'[s].db[key] = Replay(kv[s].applied, key)'
  <2>1. kv[s].db[key] = Replay(n, key)
    BY <1>1 DEF StoreAt
  <2>2. Replay(n, key)' = Replay(n, key)
    BY <1>3, ReplayStable
  <2>3. Replay(kv[s].applied, key)' = Replay(n, key)'
    BY <1>1
  <2> QED BY <2>1, <2>2, <2>3
<1> QED BY <1>4, <1>5, <1>6 DEF StoreAt

(* An operation is executed exactly if no operation of its client that was  *)
(* received before it is as late.                                           *)
LEMMA FreshIsExecuted ==
  ASSUME KVTypes, NEW s \in Server, SeqCheckOK(s), NEW op,
         NEW n \in Nat, n = kv[s].applied, n < Len(chosen), op = chosen[n + 1]
  PROVE  fresh(kv[s], op) <=> n + 1 \in Executed(n + 1)
<1>1. chosen \in Seq(Ops) /\ kv[s].seqCheck \in [Client -> Nat \cup {-1}]
  BY DEF KVTypes, TypeOK, KVServer
<1>2. \A q \in 1..(n + 1) : chosen[q] \in Ops
  BY <1>1
<1>3. \A q \in 1..(n + 1) : chosen[q].ClientId \in Client /\ chosen[q].ClientSeq \in Nat
  BY <1>2 DEF Ops
<1>4. PICK c \in Client : c = op.ClientId
  BY <1>3
<1>5. PICK m \in Nat : m = op.ClientSeq
  BY <1>3
<1>6. PICK h \in Nat \cup {-1} : h = kv[s].seqCheck[c]
  BY <1>1
<1>7. fresh(kv[s], op) <=> m >= h + 1
  BY <1>4, <1>5, <1>6 DEF fresh
<1>8. n + 1 \in Executed(n + 1) <=>
         \A q \in 1..n : chosen[q].ClientId = c => chosen[q].ClientSeq < m
  BY <1>4, <1>5, ExecutedNext
<1>9. /\ \A q \in 1..n : chosen[q].ClientId = c => chosen[q].ClientSeq <= h
      /\ h # -1 => \E q \in 1..n : chosen[q].ClientId = c /\ chosen[q].ClientSeq = h
  BY <1>6 DEF SeqCheckOK
<1>10. ASSUME m >= h + 1, NEW q \in 1..n, chosen[q].ClientId = c
       PROVE  chosen[q].ClientSeq < m
  <2>1. chosen[q].ClientSeq <= h /\ chosen[q].ClientSeq \in Nat
    BY <1>3, <1>9, <1>10
  <2> QED BY <1>10, <2>1
<1>11. ASSUME \A q \in 1..n : chosen[q].ClientId = c => chosen[q].ClientSeq < m
       PROVE  m >= h + 1
  <2>1. CASE h = -1
    BY <2>1
  <2>2. CASE h # -1
    <3>1. h < m
      BY <1>9, <1>11, <2>2
    <3> QED BY <3>1
  <2> QED BY <2>1, <2>2
<1> QED BY <1>7, <1>8, <1>10, <1>11

(* Appending a value later than all of its client keeps the order.          *)
LEMMA OrderAppend ==
  ASSUME NEW held \in Data, NEW sc \in [Client -> Nat \cup {-1}], OrderOK(held, sc),
         NEW c \in Client, NEW m \in Nat, m >= sc[c] + 1,
         NEW sd \in [Client -> Nat \cup {-1}],
         sd[c] = m, \A d \in Client : d # c => sd[d] = sc[d]
  PROVE  /\ OrderOK(held, sd)
         /\ OrderOK(<<<<c, m>>>>, sd)
         /\ OrderOK(Append(held, <<c, m>>), sd)
<1>1. \A i \in 1..Len(held) : held[i] \in Client \X Nat
  BY DEF Data
<1>2. \A i \in 1..Len(held) : held[i][1] \in Client /\ held[i][2] \in Nat
  BY <1>1
<1>3. \A i \in 1..Len(held) : held[i][2] <= sc[held[i][1]]
  BY DEF OrderOK
<1>4. \A d \in Client : sc[d] <= sd[d]
  BY DEF OrderOK
<1>5. \A i \in 1..Len(held) : held[i][2] <= sd[held[i][1]]
  BY <1>2, <1>3, <1>4
<1>6. OrderOK(held, sd)
  BY <1>5 DEF OrderOK
<1>7. OrderOK(<<<<c, m>>>>, sd)
  <2>1. Len(<<<<c, m>>>>) = 1 /\ <<<<c, m>>>>[1] = <<c, m>>
    OBVIOUS
  <2> QED BY <2>1 DEF OrderOK
<1>8. OrderOK(Append(held, <<c, m>>), sd)
  <2>1. PICK e : e = Append(held, <<c, m>>)
    OBVIOUS
  <2>2. PICK k \in Nat : k = Len(held)
    BY DEF Data
  <2>3. /\ Len(e) = k + 1 /\ e[k + 1] = <<c, m>>
        /\ \A i \in 1..k : e[i] = held[i]
    BY <2>1, <2>2 DEF Data
  <2>4. e[k + 1][1] = c /\ e[k + 1][2] = m
    BY <2>3
  <2>5. ASSUME NEW i \in 1..(k + 1) PROVE e[i][2] <= sd[e[i][1]]
    <3>1. CASE i = k + 1
      BY <2>4, <3>1
    <3>2. CASE i \in 1..k
      BY <1>5, <2>2, <2>3, <3>2
    <3> QED BY <3>1, <3>2
  <2>6. ASSUME NEW i \in 1..(k + 1), NEW j \in 1..(k + 1), i < j, e[i][1] = e[j][1]
        PROVE  e[i][2] < e[j][2]
    <3>1. CASE j = k + 1
      <4>1. i \in 1..k /\ e[i] = held[i] /\ held[i][1] = c
        BY <2>3, <2>4, <2>6, <3>1
      <4>2. held[i][2] <= sc[c] /\ held[i][2] \in Nat
        BY <1>2, <1>3, <2>2, <4>1
      <4>3. held[i][2] < m
        BY <4>2
      <4> QED BY <2>4, <3>1, <4>1, <4>3
    <3>2. CASE j \in 1..k
      <4>1. i \in 1..k
        BY <2>6, <3>2
      <4> QED BY <2>2, <2>3, <2>6, <3>2, <4>1 DEF OrderOK
    <3> QED BY <3>1, <3>2
  <2> QED BY <2>1, <2>3, <2>5, <2>6 DEF OrderOK
<1> QED BY <1>6, <1>7, <1>8

(* runServer executes what it has received as the replay does.              *)
LEMMA StoreApply ==
  ASSUME KVTypes, NEW s \in Server, StoreAt(s), Apply(s)
  PROVE  StoreAt(s)'
<1>1. PICK op : op = chosen[kv[s].applied + 1]
  OBVIOUS
<1>2. Applies(s, op)
  BY <1>1, ApplyEffect
<1>3. PICK n \in Nat : n = kv[s].applied
  BY DEF KVTypes, TypeOK, KVServer
<1>4. /\ n < Len(chosen) /\ op = chosen[n + 1] /\ op \in Ops /\ chosen' = chosen
      /\ kv'[s].applied = n + 1 /\ kv' \in [Server -> KVServer]
  BY <1>1, <1>2, <1>3 DEF Applies
<1>5. PICK c \in Client : c = op.ClientId
  BY <1>4 DEF Ops
<1>6. PICK m \in Nat : m = op.ClientSeq
  BY <1>4 DEF Ops
<1>7. PICK sc \in [Client -> Nat \cup {-1}] : sc = kv[s].seqCheck
  BY DEF KVTypes, TypeOK, KVServer
<1>8. PICK sd \in [Client -> Nat \cup {-1}] : sd = kv'[s].seqCheck
  BY <1>4 DEF KVServer
<1>9. PICK db \in [Key -> Data] : db = kv[s].db
  BY DEF KVTypes, TypeOK, KVServer
<1>10. fresh(kv[s], op) <=> m >= sc[c] + 1
  BY <1>5, <1>6, <1>7 DEF fresh
<1>11. \A d \in Client : sd[d] = IF d = c /\ m >= sc[c] + 1 THEN m ELSE sc[d]
  BY <1>2, <1>5, <1>6, <1>7, <1>8, <1>10 DEF Applies
<1>12. kv'[s].db = IF m >= sc[c] + 1 THEN execute(db, op) ELSE db
  BY <1>2, <1>9, <1>10 DEF Applies
<1>13. SeqCheckOK(s)
  BY DEF StoreAt
<1>14. m >= sc[c] + 1 <=> n + 1 \in Executed(n + 1)
  BY <1>3, <1>4, <1>10, <1>13, FreshIsExecuted
<1>15. SeqCheckOK(s)'
  <2>1. \A q \in 1..n : /\ chosen[q].ClientId \in Client /\ chosen[q].ClientSeq \in Nat
                        /\ chosen[q].ClientSeq <= sc[chosen[q].ClientId]
    <3>1. chosen \in Seq(Ops)
      BY DEF KVTypes, TypeOK
    <3>2. \A q \in 1..n : chosen[q] \in Ops
      BY <1>4, <3>1
    <3> QED BY <1>3, <1>7, <1>13, <3>2 DEF Ops, SeqCheckOK
  <2>2. \A d \in Client : sc[d] # -1 =>
           \E q \in 1..n : chosen[q].ClientId = d /\ chosen[q].ClientSeq = sc[d]
    BY <1>3, <1>7, <1>13 DEF SeqCheckOK
  <2>3. \A d \in Client : sc[d] <= sd[d]
    BY <1>11
  <2>4. m <= sd[c]
    BY <1>11
  <2>5. ASSUME NEW q \in 1..(n + 1) PROVE chosen[q].ClientSeq <= sd[chosen[q].ClientId]
    <3>1. CASE q = n + 1
      BY <1>4, <1>5, <1>6, <2>4, <3>1
    <3>2. CASE q \in 1..n
      <4>1. chosen[q].ClientSeq <= sc[chosen[q].ClientId]
            /\ sc[chosen[q].ClientId] <= sd[chosen[q].ClientId]
            /\ chosen[q].ClientSeq \in Nat /\ chosen[q].ClientId \in Client
        BY <2>1, <2>3, <3>2
      <4> QED BY <4>1
    <3> QED BY <3>1, <3>2
  <2>6. ASSUME NEW d \in Client, sd[d] # -1
        PROVE  \E q \in 1..(n + 1) : chosen[q].ClientId = d /\ chosen[q].ClientSeq = sd[d]
    <3>1. CASE d = c /\ m >= sc[c] + 1
      BY <1>4, <1>5, <1>6, <1>11, <3>1
    <3>2. CASE ~(d = c /\ m >= sc[c] + 1)
      <4>1. sd[d] = sc[d]
        BY <1>11, <3>2
      <4>2. PICK q \in 1..n : chosen[q].ClientId = d /\ chosen[q].ClientSeq = sc[d]
        BY <2>2, <2>6, <4>1
      <4> QED BY <4>1, <4>2
    <3> QED BY <3>1, <3>2
  <2> QED BY <1>4, <1>8, <2>5, <2>6 DEF SeqCheckOK
<1>16. \A key \in Key : OrderOK(db[key], sc) /\ db[key] = Replay(n, key) /\ db[key] \in Data
  BY <1>3, <1>7, <1>9 DEF StoreAt
<1>17. /\ execute(db, op) \in [Key -> Data]
       /\ \A key \in Key : key # op.Key \/ op.Op = "Get" => execute(db, op)[key] = db[key]
       /\ op.Op = "Put" => execute(db, op)[op.Key] = <<Value(op)>>
       /\ op.Op = "Append" => execute(db, op)[op.Key] = Append(db[op.Key], Value(op))
       /\ op.Op \in {"Get", "Put", "Append"}
  BY <1>4, ExecuteEffect
<1>18. Value(op) = <<c, m>> /\ Value(op) \in Client \X Nat
  BY <1>5, <1>6 DEF Value
<1>19. \A key : n + 1 \in Writes(n + 1, key) <=>
                  m >= sc[c] + 1 /\ op.Key = key /\ op.Op # "Get"
  BY <1>4, <1>14 DEF Writes
<1>20. ASSUME NEW key \in Key
       PROVE  OrderOK(kv'[s].db[key], sd) /\ kv'[s].db[key] = Replay(n + 1, key)
  <2>0. OrderOK(db[key], sc) /\ db[key] = Replay(n, key) /\ db[key] \in Data
    BY <1>16
  <2>1. CASE ~(m >= sc[c] + 1)
    <3>1. kv'[s].db[key] = db[key] /\ sd = sc
      BY <1>11, <1>12, <2>1
    <3>2. Replay(n + 1, key) = Replay(n, key)
      BY <1>19, <2>1, ReplaySkip
    <3> QED BY <2>0, <3>1, <3>2
  <2>2. CASE m >= sc[c] + 1
    <3>0. sd[c] = m /\ \A d \in Client : d # c => sd[d] = sc[d]
      BY <1>11, <2>2
    <3>1. /\ OrderOK(db[key], sd)
          /\ OrderOK(<<<<c, m>>>>, sd)
          /\ OrderOK(Append(db[key], <<c, m>>), sd)
      BY <2>0, <2>2, <3>0, OrderAppend
    <3>2. kv'[s].db[key] = execute(db, op)[key]
      BY <1>12, <2>2
    <3>3. CASE key # op.Key \/ op.Op = "Get"
      <4>1. kv'[s].db[key] = db[key]
        BY <1>17, <3>2, <3>3
      <4>2. Replay(n + 1, key) = Replay(n, key)
        BY <1>19, <3>3, ReplaySkip
      <4> QED BY <2>0, <3>1, <4>1, <4>2
    <3>4. CASE key = op.Key /\ op.Op = "Put"
      <4>1. kv'[s].db[key] = <<Value(op)>>
        BY <1>17, <3>2, <3>4
      <4>2. Replay(n + 1, key) = <<Value(op)>>
        BY <1>4, <1>19, <2>2, <3>4, ReplayPut
      <4> QED BY <1>18, <3>1, <4>1, <4>2
    <3>5. CASE key = op.Key /\ op.Op = "Append"
      <4>1. kv'[s].db[key] = Append(db[key], Value(op))
        BY <1>17, <3>2, <3>5
      <4>2. n + 1 \in Writes(n + 1, key) /\ chosen[n + 1].Op # "Put"
        BY <1>4, <1>19, <2>2, <3>5
      <4>3. Replay(n + 1, key) = Append(Replay(n, key), Value(op))
        BY <1>4, <1>18, <2>0, <4>2, ReplayAppend
      <4> QED BY <1>18, <2>0, <3>1, <4>1, <4>3
    <3> QED BY <1>17, <3>3, <3>4, <3>5
  <2> QED BY <2>1, <2>2
<1>21. ASSUME NEW key \in Key PROVE kv'[s].db[key] = Replay(kv[s].applied, key)'
  <2>1. Replay(n + 1, key)' = Replay(n + 1, key)
    BY <1>4, ReplayStable
  <2>2. Replay(kv[s].applied, key)' = Replay(n + 1, key)'
    BY <1>4
  <2> QED BY <1>20, <2>1, <2>2
<1> QED BY <1>8, <1>15, <1>20, <1>21 DEF StoreAt

(* No server's store is touched, and what was committed stays.              *)
StoresUntouched ==
    /\ \A t \in Server : /\ kv'[t].db = kv[t].db /\ kv'[t].seqCheck = kv[t].seqCheck
                         /\ kv'[t].applied = kv[t].applied
    /\ \A q \in 1..Len(chosen) : chosen'[q] = chosen[q]

(* A step that leaves the stores alone keeps what holds of them.            *)
LEMMA StoresKept ==
  ASSUME KVTypes, StoreOK, StoresUntouched
  PROVE  StoreOK'
<1> SUFFICES ASSUME NEW s \in Server PROVE StoreAt(s)'
  BY DEF StoreOK
<1> QED BY StoreKept DEF StoresUntouched, StoreOK

(* Only Apply and the start of a server touch a store.                      *)
LEMMA ClerksLeaveStores ==
  ASSUME KVTypes, NEW c \in Client, ClerkStep(c)
  PROVE  StoresUntouched /\ UNCHANGED <<kv, chosen, tail, restarts>>
<1>1. UNCHANGED <<kv, chosen, tail, restarts>>
  BY DEF ClerkStep, Invoke, Call, RequestLost, ReplyArrives, ReplyLost
<1> QED BY <1>1 DEF StoresUntouched

(* Handlers do not touch the stores.                                        *)
LEMMA HandlersLeaveStores ==
  ASSUME KVTypes, NEW c \in Client, NEW k, HandlerStep(c, k)
  PROVE  StoresUntouched
<1>1. CASE WrongLeader(c, k) \/ HandlerTimeout(c, k)
  BY <1>1 DEF WrongLeader, HandlerTimeout, StoresUntouched
<1>2. CASE HandlerStart(c, k)
  <2>1. k \in 1..Len(call[c])
    BY <1>2 DEF HandlerStart, At
  <2>2. PICK s \in Server : RunsOn(c, k, s)
    BY <2>1, HandlerHome
  <2>3. HandlerStarted(c, k, s)
    BY <1>2, <2>2, HandlerStartEffect
  <2> QED BY <2>3 DEF HandlerStarted, StoresUntouched
<1>3. CASE listenCallBack(c, k)
  <2>1. k \in 1..Len(call[c])
    BY <1>3 DEF listenCallBack, At
  <2>2. PICK s \in Server : RunsOn(c, k, s)
    BY <2>1, HandlerHome
  <2>3. Listens(c, k, s)
    BY <1>3, <2>2, ListenEffect
  <2> QED BY <2>3 DEF Listens, StoresUntouched
<1>4. CASE unlistenCallBack(c, k)
  <2>1. k \in 1..Len(call[c])
    BY <1>4 DEF unlistenCallBack, At
  <2>2. PICK s \in Server : RunsOn(c, k, s)
    BY <2>1, HandlerHome
  <2>3. Unlistens(c, k, s)
    BY <1>4, <2>2, UnlistenEffect
  <2> QED BY <2>3 DEF Unlistens, StoresUntouched
<1>5. CASE HandlerReceives(c, k)
  <2>1. k \in 1..Len(call[c])
    BY <1>5 DEF HandlerReceives, At
  <2>2. PICK s \in Server : RunsOn(c, k, s)
    BY <2>1, HandlerHome
  <2>3. Receives(c, k, s)
    BY <1>5, <2>2, ReceiveEffect
  <2> QED BY <2>3 DEF Receives, StoresUntouched
<1> QED BY <1>1, <1>2, <1>3, <1>4, <1>5 DEF HandlerStep

(* The stores are right initially.                                          *)
LEMMA StoreInit == Init => StoreOK
<1> SUFFICES ASSUME Init, NEW s \in Server PROVE StoreAt(s)
  BY DEF StoreOK
<1>1. kv[s] = StartKVServer
  BY DEF Init
<1>2. kv[s].db = [k \in Key |-> <<>>] /\ kv[s].seqCheck = [c \in Client |-> -1]
      /\ kv[s].applied = 0
  BY <1>1 DEF StartKVServer
<1> QED BY <1>2, StoreEmpty

(* A server that starts again has the store of one that has received        *)
(* nothing.                                                                 *)
LEMMA StoreReborn ==
  ASSUME KVTypes, StoreOK, NEW s \in Server, Reborn(s)
  PROVE  StoreOK'
<1>1. TypeOK
  BY DEF KVTypes
<1>2. /\ \A t \in Server \ {s} : kv'[t] = kv[t]
      /\ kv'[s].db = [k \in Key |-> <<>>]
      /\ kv'[s].seqCheck = [c \in Client |-> -1]
      /\ kv'[s].applied = 0 /\ chosen' = chosen
  BY <1>1, RebornEffect
<1>3. ASSUME NEW t \in Server PROVE StoreAt(t)'
  <2>1. CASE t = s
    <3>1. SeqCheckOK(t)'
      BY <1>2, <2>1 DEF SeqCheckOK
    <3>2. ASSUME NEW key \in Key PROVE OrderOK(kv'[t].db[key], kv'[t].seqCheck)
      <4>1. kv'[t].db[key] = <<>> /\ Len(<<>>) = 0
        BY <1>2, <2>1
      <4> QED BY <4>1 DEF OrderOK
    <3>3. ASSUME NEW key \in Key PROVE kv'[t].db[key] = Replay(kv[t].applied, key)'
      <4>1. kv'[t].db[key] = <<>>
        BY <1>2, <2>1
      <4>2. Replay(kv[t].applied, key)' = Replay(0, key)'
        BY <1>2, <2>1
      <4>3. Replay(0, key)' = Replay(0, key)
        BY ReplayStable
      <4> QED BY <4>1, <4>2, <4>3, ReplayNothing
    <3> QED BY <3>1, <3>2, <3>3 DEF StoreAt
  <2>2. CASE t # s
    <3>1. StoreAt(t) /\ kv'[t] = kv[t]
      BY <1>2, <2>2 DEF StoreOK
    <3> QED BY <1>2, <3>1, StoreKept
  <2> QED BY <2>1, <2>2
<1> QED BY <1>3 DEF StoreOK

(* Every step keeps the stores right.                                       *)
LEMMA StoreStep == KVTypes /\ StoreOK /\ [Next]_vars => StoreOK'
<1> SUFFICES ASSUME KVTypes, StoreOK, [Next]_vars PROVE StoreOK'
  OBVIOUS
<1>0. TypeOK
  BY DEF KVTypes
<1>1. ASSUME NEW c \in Client, ClerkStep(c) PROVE StoreOK'
  BY <1>1, ClerksLeaveStores, StoresKept
<1>2. ASSUME NEW c \in Client, NEW k, HandlerStep(c, k) PROVE StoreOK'
  BY <1>2, HandlersLeaveStores, StoresKept
<1>3. ASSUME NEW s \in Server, Commit(s) \/ ServerStep(s) \/ Restart(s) PROVE StoreOK'
  <2>1. CASE Commit(s)
    <3>1. Commits(s)
      BY <1>0, <2>1, CommitEffect
    <3>2. StoresUntouched
      BY <3>1 DEF Commits, StoresUntouched
    <3> QED BY <3>2, StoresKept
  <2>2. CASE Offer(s)
    <3>1. /\ \A t \in Server \ {s} : kv'[t] = kv[t]
          /\ kv'[s].db = kv[s].db /\ kv'[s].seqCheck = kv[s].seqCheck
          /\ kv'[s].applied = kv[s].applied /\ chosen' = chosen
      BY <1>0, <2>2, OfferEffect
    <3>2. StoresUntouched
      BY <3>1 DEF StoresUntouched
    <3> QED BY <3>2, StoresKept
  <2>3. CASE Apply(s)
    <3>1. PICK op : op = chosen[kv[s].applied + 1]
      OBVIOUS
    <3>2. Applies(s, op)
      BY <2>3, <3>1, ApplyEffect
    <3>3. chosen' = chosen /\ \A t \in Server \ {s} : kv'[t] = kv[t]
      BY <3>2 DEF Applies
    <3>4. StoreAt(s)'
      BY <2>3, StoreApply DEF StoreOK
    <3>5. ASSUME NEW t \in Server, t # s PROVE StoreAt(t)'
      <4>1. StoreAt(t) /\ kv'[t] = kv[t]
        BY <3>3, <3>5 DEF StoreOK
      <4> QED BY <3>3, <4>1, StoreKept
    <3> QED BY <3>4, <3>5 DEF StoreOK
  <2>4. CASE ApplyDone(s)
    <3>1. /\ \A t \in Server \ {s} : kv'[t] = kv[t]
          /\ kv'[s].db = kv[s].db /\ kv'[s].seqCheck = kv[s].seqCheck
          /\ kv'[s].applied = kv[s].applied /\ chosen' = chosen
      BY <1>0, <2>4, ApplyDoneEffect
    <3>2. StoresUntouched
      BY <3>1 DEF StoresUntouched
    <3> QED BY <3>2, StoresKept
  <2>5. CASE FatalUnlock(s) \/ Restart(s)
    <3>1. Reborn(s)
      BY <2>5 DEF FatalUnlock, Restart
    <3> QED BY <3>1, StoreReborn
  <2> QED BY <1>3, <2>1, <2>2, <2>3, <2>4, <2>5 DEF ServerStep
<1>4. CASE UNCHANGED vars
  <2>1. StoresUntouched
    BY <1>4 DEF vars, StoresUntouched
  <2> QED BY <2>1, StoresKept
<1> QED BY <1>1, <1>2, <1>3, <1>4 DEF Next

(* On every server a key holds each value once and the values of a client   *)
(* in the order of its calls, with any number of servers, Clerks, retries,  *)
(* partitions and restarts (seqCheck in runServer).                         *)
THEOREM OnceInOrder == Spec => []AppendsOnceInOrder
<1>1. StoreOK => AppendsOnceInOrder
  BY DEF StoreOK, StoreAt, OrderOK, AppendsOnceInOrder
<1> QED BY <1>1, InitTypes, TypesStep, StoreInit, StoreStep, PTL DEF Spec

(* A server's store is the replay of what it has received, so that servers  *)
(* that have received the same, restarted or not, hold the same.            *)
THEOREM StoresReplay == Spec => []StoreIsReplay
<1>1. StoreOK => StoreIsReplay
  BY DEF StoreOK, StoreAt, StoreIsReplay
<1> QED BY <1>1, InitTypes, TypesStep, StoreInit, StoreStep, PTL DEF Spec

-----------------------------------------------------------------------------
(* The Clerks, without partitions.                                          *)

(* What is committed stays.                                                 *)
ChosenGrows ==
    /\ Len(chosen) <= Len(chosen') /\ Len(chosen') \in Nat
    /\ \A q \in 1..Len(chosen) : chosen'[q] = chosen[q]

(* A step that takes no part in the connection of c.                        *)
Elsewhere(c) ==
    /\ clerk'[c] = clerk[c] /\ call'[c] = call[c]
    /\ \A s \in Server : kv'[s].callBack[c] = kv[s].callBack[c]
    /\ \A s \in Server : SendsTo(c, s)' =>
          SendsTo(c, s) /\ kv'[s].serving = kv[s].serving

(* An answer stays right when more is committed.                            *)
LEMMA AnswerKept ==
  ASSUME KVTypes, NEW c \in Client, AnswerOK(c), ChosenGrows,
         clerk'[c].op = clerk[c].op,
         clerk'[c].calling /\ Latest(c)'.pc = "ok" =>
             clerk[c].calling /\ Latest(c).pc = "ok" /\ Latest(c)'.value = Latest(c).value
  PROVE  AnswerOK(c)'
<1> SUFFICES ASSUME clerk'[c].calling /\ Latest(c)'.pc = "ok"
             PROVE  \E n \in 1..Len(chosen') : AnsweredAt(c, n)'
  BY DEF AnswerOK
<1>1. PICK n \in 1..Len(chosen) : AnsweredAt(c, n)
  BY DEF AnswerOK
<1>2. Len(chosen) \in Nat
  BY DEF KVTypes, TypeOK
<1>3. n \in 1..Len(chosen') /\ chosen'[n] = chosen[n] /\ n \in Nat /\ n - 1 \in Nat
      /\ \A q \in 1..(n - 1) : chosen'[q] = chosen[q]
  BY <1>2 DEF ChosenGrows
<1>4. PICK key : key = clerk[c].op.Key
  OBVIOUS
<1>5. PICK m \in Nat : m = n - 1
  BY <1>3
<1>6. Replay(m, key)' = Replay(m, key)
  BY <1>3, <1>5, ReplayStable
<1>7. Replay(n - 1, clerk[c].op.Key)' = Replay(m, key)'
  BY <1>4, <1>5
<1>8. Replay(n - 1, clerk[c].op.Key) = Replay(m, key)
  BY <1>4, <1>5
<1>9. AnsweredAt(c, n)'
  BY <1>1, <1>3, <1>6, <1>7, <1>8 DEF AnsweredAt
<1> QED BY <1>3, <1>9

(* What was committed before an operation was invoked stays as it is.       *)
LEMMA SinceKept ==
  ASSUME KVTypes, NEW c \in Client, SinceOK(c), ChosenGrows,
         clerk'[c].op \in {clerk[c].op, Nil}, clerk'[c].since = clerk[c].since
  PROVE  SinceOK(c)'
<1> SUFFICES ASSUME clerk'[c].op # Nil
             PROVE  /\ clerk'[c].since <= Len(chosen')
                    /\ \A q \in 1..clerk'[c].since : chosen'[q].ClientId = c =>
                          chosen'[q].ClientSeq < clerk'[c].op.ClientSeq
  BY DEF SinceOK
<1>1. /\ clerk[c].since <= Len(chosen)
      /\ \A q \in 1..clerk[c].since :
              chosen[q].ClientId = c => chosen[q].ClientSeq < clerk[c].op.ClientSeq
      /\ clerk'[c].op = clerk[c].op
  BY DEF SinceOK
<1>2. Len(chosen) \in Nat /\ clerk[c].since \in Nat
  BY DEF KVTypes, TypeOK, Clerk
<1>3. \A q \in 1..clerk[c].since : chosen'[q] = chosen[q]
  BY <1>1, <1>2 DEF ChosenGrows
<1>4. clerk[c].since <= Len(chosen')
  BY <1>1, <1>2 DEF ChosenGrows
<1> QED BY <1>1, <1>3, <1>4

(* A step that takes no part in a connection keeps what holds of it.        *)
LEMMA ConnectionKept ==
  ASSUME KVTypes, NEW c \in Client, ConnectionOK(c), ChosenGrows, Elsewhere(c)
  PROVE  ConnectionOK(c)'
<1>1. Latest(c)' = Latest(c)
  BY DEF Elsewhere, Latest
<1>2. OneHandler(c)'
  BY <1>1 DEF ConnectionOK, OneHandler, Elsewhere
<1>3. AnswerOK(c)'
  BY <1>1, AnswerKept DEF ConnectionOK, Elsewhere
<1>4. SinceOK(c)'
  BY SinceKept DEF ConnectionOK, Elsewhere
<1>5. ASSUME NEW s \in Server PROVE ListenOK(c, s)' /\ SendOK(c, s)'
  <2>1. WaitsAt(c, s)' <=> WaitsAt(c, s)
    BY <1>1 DEF WaitsAt, Elsewhere
  <2>2. ListensAt(c, s)' <=> ListensAt(c, s)
    BY DEF ListensAt, Elsewhere
  <2>3. ListenOK(c, s)'
    BY <2>1, <2>2 DEF ConnectionOK, ListenOK, Elsewhere
  <2>4. SendOK(c, s)'
    <3> SUFFICES ASSUME SendsTo(c, s)'
                 PROVE  /\ kv'[s].serving.locked = TRUE
                        /\ WaitsAt(c, s)'
                        /\ kv'[s].serving.op = clerk'[c].op
                        /\ kv'[s].callBack[c] # Nil /\ ~ListensAt(c, s)'
      BY DEF SendOK
    <3>1. SendsTo(c, s) /\ kv'[s].serving = kv[s].serving
      BY DEF Elsewhere
    <3>2. SendOK(c, s)
      BY DEF ConnectionOK
    <3> QED BY <2>1, <2>2, <3>1, <3>2 DEF SendOK, Elsewhere
  <2> QED BY <2>3, <2>4
<1> QED BY <1>2, <1>3, <1>4, <1>5 DEF ConnectionOK

(* A step that does not touch what s executes, or ends it.                  *)
LEMMA ServingKept ==
  ASSUME KVTypes, NEW s \in Server, ServingOK(s), ChosenGrows,
         kv'[s].serving # Nil =>
             /\ kv[s].serving # Nil /\ kv'[s].applied = kv[s].applied
             /\ kv'[s].serving.op = kv[s].serving.op
             /\ kv'[s].serving.value = kv[s].serving.value
  PROVE  ServingOK(s)'
<1> SUFFICES ASSUME kv'[s].serving # Nil
             PROVE  /\ kv'[s].applied > 0
                    /\ kv'[s].serving.op = chosen'[kv'[s].applied]
                    /\ kv'[s].serving.op.Op = "Get" => kv'[s].serving.value =
                          Replay(kv[s].applied - 1, kv[s].serving.op.Key)'
  BY DEF ServingOK
<1>1. /\ kv[s].applied > 0 /\ kv[s].serving.op = chosen[kv[s].applied]
      /\ kv[s].serving.op.Op = "Get" =>
              kv[s].serving.value = Replay(kv[s].applied - 1, kv[s].serving.op.Key)
  BY DEF ServingOK
<1>2. PICK n \in Nat : n = kv[s].applied
  BY DEF KVTypes, TypeOK, KVServer
<1>3. n <= Len(chosen) /\ Len(chosen) \in Nat
  BY <1>2 DEF KVTypes, TypeOK, ReceivedOK
<1>4. PICK m \in Nat : m = n - 1
  BY <1>1, <1>2
<1>5. PICK key : key = kv[s].serving.op.Key
  OBVIOUS
<1>6. Replay(m, key)' = Replay(m, key)
  <2>1. \A q \in 1..m : chosen'[q] = chosen[q]
    BY <1>3, <1>4 DEF ChosenGrows
  <2> QED BY <2>1, ReplayStable
<1>7. Replay(kv[s].applied - 1, kv[s].serving.op.Key)' = Replay(m, key)'
  BY <1>2, <1>4, <1>5
<1>8. Replay(kv[s].applied - 1, kv[s].serving.op.Key) = Replay(m, key)
  BY <1>2, <1>4, <1>5
<1>9. chosen'[n] = chosen[n]
  BY <1>1, <1>2, <1>3 DEF ChosenGrows
<1> QED BY <1>1, <1>2, <1>6, <1>7, <1>8, <1>9

(* What the Clerks returned stays right.                                    *)
LEMMA ResultsKept ==
  ASSUME KVTypes, ResultsOK, ChosenGrows, results' = results
  PROVE  ResultsOK'
<1>1. Len(chosen) \in Nat /\ results \subseteq Result
  BY DEF KVTypes, TypeOK
<1>2. Executed(Len(chosen)) \subseteq Executed(Len(chosen))'
  BY <1>1 DEF Executed, ChosenGrows
<1>3. AcknowledgedIsExecuted'
  <2> SUFFICES ASSUME NEW r \in results
               PROVE  \E p \in Executed(Len(chosen))' : chosen'[p] = r.op
    BY DEF AcknowledgedIsExecuted
  <2>1. PICK p \in Executed(Len(chosen)) : chosen[p] = r.op
    BY DEF ResultsOK, AcknowledgedIsExecuted
  <2>2. p \in 1..Len(chosen)
    BY <1>1, <2>1 DEF Executed
  <2> QED BY <1>2, <2>1, <2>2 DEF ChosenGrows
<1>4. ReadsAreCurrent'
  <2> SUFFICES ASSUME NEW r \in results, r.op.Op = "Get"
               PROVE  \E n \in (r.since + 1)..Len(chosen') :
                         chosen'[n] = r.op /\ r.value = Replay(n - 1, r.op.Key)'
    BY DEF ReadsAreCurrent
  <2>1. PICK n \in (r.since + 1)..Len(chosen) :
           chosen[n] = r.op /\ r.value = Replay(n - 1, r.op.Key)
    BY DEF ResultsOK, ReadsAreCurrent
  <2>2. r.since \in Nat
    BY <1>1 DEF Result
  <2>3. n \in (r.since + 1)..Len(chosen') /\ chosen'[n] = chosen[n] /\ n - 1 \in Nat
        /\ \A q \in 1..(n - 1) : chosen'[q] = chosen[q]
    BY <1>1, <2>2 DEF ChosenGrows
  <2>4. PICK m \in Nat : m = n - 1
    BY <2>3
  <2>5. PICK key : key = r.op.Key
    OBVIOUS
  <2>6. Replay(m, key)' = Replay(m, key)
    BY <2>3, <2>4, ReplayStable
  <2>7. Replay(n - 1, r.op.Key)' = Replay(m, key)' /\ Replay(n - 1, r.op.Key) = Replay(m, key)
    BY <2>4, <2>5
  <2> QED BY <2>1, <2>3, <2>6, <2>7
<1> QED BY <1>3, <1>4 DEF ResultsOK

(* What is in Raft and whoever it belongs to stay as they are.              *)
LEMMA InRaftKept ==
  ASSUME KVTypes, InRaftOK, chosen' = chosen, tail' = tail,
         \A d \in Client : clerk'[d].seq = clerk[d].seq
                           /\ clerk'[d].op \in {clerk[d].op, Nil}
  PROVE  InRaftOK'
<1>1. /\ \A q \in 1..Len(chosen) : chosen[q] \in Ops
      /\ \A s \in Server : \A q \in 1..Len(tail[s]) : tail[s][q] \in Ops
  BY DEF KVTypes, TypeOK
<1>2. ASSUME NEW op \in Ops, NotAhead(op) PROVE NotAhead(op)'
  <2>1. op.ClientId \in Client
    BY DEF Ops
  <2> QED BY <1>2, <2>1 DEF NotAhead
<1>3. ASSUME NEW q \in 1..Len(chosen') PROVE NotAhead(chosen[q])'
  <2>1. PICK op \in Ops : op = chosen[q]
    BY <1>1
  <2>2. NotAhead(op)
    BY <2>1 DEF InRaftOK
  <2>3. NotAhead(op)'
    BY <1>2, <2>2
  <2> QED BY <2>1, <2>3
<1>4. ASSUME NEW s \in Server, NEW q \in 1..Len(tail'[s]) PROVE NotAhead(tail[s][q])'
  <2>1. PICK op \in Ops : op = tail[s][q]
    BY <1>1
  <2>2. NotAhead(op)
    BY <2>1 DEF InRaftOK
  <2>3. NotAhead(op)'
    BY <1>2, <2>2
  <2> QED BY <2>1, <2>3
<1> QED BY <1>3, <1>4 DEF InRaftOK

(* Nobody listens or is sent to for a Clerk whose handler does not wait.    *)
Idle(c) == \A s \in Server : ~ListensAt(c, s) /\ ~SendsTo(c, s)

(* Without a handler that waits, nobody listens or is sent to.              *)
LEMMA NobodyWaits ==
  ASSUME NEW c \in Client, ConnectionOK(c), \A s \in Server : ~WaitsAt(c, s)
  PROVE  Idle(c)
BY DEF ConnectionOK, ListenOK, SendOK, Idle

(* When nobody listens or is sent to, the rest of a connection is enough.   *)
LEMMA IdleConnection ==
  ASSUME NEW c \in Client, OneHandler(c)', AnswerOK(c)', SinceOK(c)', Idle(c)'
  PROVE  ConnectionOK(c)'
BY DEF ConnectionOK, ListenOK, SendOK, Idle

(* A step about c alone leaves the rest of the invariant to the Clerk's own *)
(* part, Raft's and that of the results.                                    *)
ServingStays(s) ==
    kv'[s].serving # Nil =>
        /\ kv[s].serving # Nil /\ kv'[s].applied = kv[s].applied
        /\ kv'[s].serving.op = kv[s].serving.op
        /\ kv'[s].serving.value = kv[s].serving.value

(* Everything about other Clerks and about servers is kept then.            *)
LEMMA OnlyThisClerk ==
  ASSUME KVTypes, ClerksServed, NEW c \in Client, chosen' = chosen,
         \A d \in Client \ {c} : Elsewhere(d),
         \A s \in Server : ServingStays(s),
         ConnectionOK(c)', InRaftOK', ResultsOK'
  PROVE  ClerksServed'
<1>1. ChosenGrows
  BY DEF KVTypes, TypeOK, ChosenGrows
<1>2. ASSUME NEW d \in Client PROVE ConnectionOK(d)'
  <2>1. CASE d = c
    BY <2>1
  <2>2. CASE d # c
    <3>1. Elsewhere(d) /\ ConnectionOK(d)
      BY <2>2 DEF ClerksServed
    <3> QED BY <1>1, <3>1, ConnectionKept
  <2> QED BY <2>1, <2>2
<1>3. ASSUME NEW s \in Server PROVE ServingOK(s)'
  <2>1. ServingOK(s) /\ ServingStays(s)
    BY DEF ClerksServed
  <2> QED BY <1>1, <2>1, ServingKept DEF ServingStays
<1> QED BY <1>2, <1>3 DEF ClerksServed

(* The same for steps of Clerks, which leave servers and Raft alone.        *)
LEMMA OnlyThisClerkStep ==
  ASSUME KVTypes, ClerksServed, NEW c \in Client,
         UNCHANGED <<kv, chosen, tail>>,
         \A d \in Client \ {c} : clerk'[d] = clerk[d] /\ call'[d] = call[d],
         OneHandler(c)', AnswerOK(c)', SinceOK(c)', Idle(c), InRaftOK', ResultsOK'
  PROVE  ClerksServed'
<1>1. ASSUME NEW d \in Client \ {c} PROVE Elsewhere(d)
  <2>1. \A s \in Server : SendsTo(d, s)' => SendsTo(d, s) /\ kv'[s].serving = kv[s].serving
    BY DEF SendsTo
  <2> QED BY <2>1 DEF Elsewhere
<1>2. ASSUME NEW s \in Server PROVE ServingStays(s)
  BY DEF ServingStays
<1>3. Idle(c)'
  BY DEF Idle, ListensAt, SendsTo
<1>4. ConnectionOK(c)'
  BY <1>3, IdleConnection
<1> QED BY <1>1, <1>2, <1>4, OnlyThisClerk

(* A Clerk that is not calling has no handler left.                         *)
LEMMA NotCalling ==
  ASSUME NEW c \in Client, ConnectionOK(c), clerk[c].calling = FALSE
  PROVE  Idle(c) /\ \A k \in 1..Len(call[c]) : call[c][k].pc = "gone"
<1>1. \A s \in Server : ~WaitsAt(c, s)
  BY DEF WaitsAt
<1>2. Idle(c)
  BY <1>1, NobodyWaits
<1> QED BY <1>2 DEF ConnectionOK, OneHandler

(* A new operation is later than all of its Clerk that Raft holds.          *)
LEMMA InvokeServed ==
  ASSUME KVTypes, ClerksServed, NEW c \in Client, NEW method \in Method, NEW key \in Key,
         Invoke(c, method, key)
  PROVE  ClerksServed'
<1>1. /\ clerk[c].op = Nil
      /\ \A d \in Client \ {c} : clerk'[d] = clerk[d]
      /\ clerk'[c].op \in Ops
      /\ clerk'[c].op.ClientSeq = clerk[c].seq
      /\ clerk'[c].seq = clerk[c].seq + 1
      /\ clerk'[c].since = Len(chosen)
      /\ clerk'[c].calling = clerk[c].calling
      /\ UNCHANGED <<call, kv, chosen, tail, restarts, results>>
  BY InvokeEffect DEF KVTypes
<1>2. clerk[c] \in Clerk /\ chosen \in Seq(Ops) /\ tail \in [Server -> Seq(Ops)]
  BY DEF KVTypes, TypeOK
<1>3. clerk[c].calling = FALSE /\ clerk[c].seq \in Nat
  BY <1>1, <1>2 DEF KVTypes, ClerksOK, Clerk
<1>4. ConnectionOK(c)
  BY DEF ClerksServed
<1>5. Idle(c) /\ \A k \in 1..Len(call[c]) : call[c][k].pc = "gone"
  BY <1>3, <1>4, NotCalling
<1>6. OneHandler(c)' /\ AnswerOK(c)'
  BY <1>1, <1>3, <1>5 DEF OneHandler, AnswerOK
<1>7. ASSUME NEW op \in Ops, NotAhead(op)
      PROVE  NotAhead(op)' /\ (op.ClientId = c => op.ClientSeq < clerk'[c].op.ClientSeq)
  <2>1. op.ClientId \in Client /\ op.ClientSeq \in Nat
    BY DEF Ops
  <2>2. CASE op.ClientId # c
    BY <1>1, <1>7, <2>1, <2>2 DEF NotAhead
  <2>3. CASE op.ClientId = c
    BY <1>1, <1>3, <1>7, <2>1, <2>3 DEF NotAhead
  <2> QED BY <2>2, <2>3
<1>8. ASSUME NEW q \in 1..Len(chosen)
      PROVE  /\ NotAhead(chosen[q])'
             /\ chosen[q].ClientId = c => chosen[q].ClientSeq < clerk'[c].op.ClientSeq
  <2>1. PICK op \in Ops : op = chosen[q]
    BY <1>2
  <2>2. NotAhead(op)
    BY <2>1 DEF ClerksServed, InRaftOK
  <2>3. NotAhead(op)' /\ (op.ClientId = c => op.ClientSeq < clerk'[c].op.ClientSeq)
    BY <1>7, <2>2
  <2> QED BY <1>1, <2>1, <2>3
<1>9. ASSUME NEW s \in Server, NEW q \in 1..Len(tail[s]) PROVE NotAhead(tail[s][q])'
  <2>1. PICK op \in Ops : op = tail[s][q]
    BY <1>2
  <2>2. NotAhead(op)
    BY <2>1 DEF ClerksServed, InRaftOK
  <2>3. NotAhead(op)'
    BY <1>7, <2>2
  <2> QED BY <1>1, <2>1, <2>3
<1>10. InRaftOK'
  BY <1>1, <1>8, <1>9 DEF InRaftOK
<1>11. SinceOK(c)'
  <2>1. Len(chosen) \in Nat
    BY <1>2
  <2> QED BY <1>1, <1>8, <2>1 DEF SinceOK
<1>12. ResultsOK'
  <2>1. ChosenGrows
    BY <1>1, <1>2 DEF ChosenGrows
  <2> QED BY <1>1, <2>1, ResultsKept DEF ClerksServed
<1> QED BY <1>1, <1>5, <1>6, <1>10, <1>11, <1>12, OnlyThisClerkStep

(* A call starts the only handler of its Clerk.                             *)
LEMMA CallServed ==
  ASSUME KVTypes, ClerksServed, NEW c \in Client, Call(c)
  PROVE  ClerksServed'
<1>1. /\ clerk[c].op # Nil /\ clerk[c].calling = FALSE
      /\ \A d \in Client \ {c} : clerk'[d] = clerk[d]
      /\ clerk'[c].op = clerk[c].op /\ clerk'[c].seq = clerk[c].seq
      /\ clerk'[c].since = clerk[c].since /\ clerk'[c].calling = TRUE
      /\ call' \in [Client -> Seq(Handler)]
      /\ \A d \in Client \ {c} : call'[d] = call[d]
      /\ \E h \in Handler :
            h.op = clerk[c].op /\ h.pc = "called" /\ call'[c] = Append(call[c], h)
      /\ UNCHANGED <<kv, chosen, tail, restarts, results>>
  BY CallEffect DEF KVTypes
<1>2. call[c] \in Seq(Handler) /\ chosen \in Seq(Ops)
  BY DEF KVTypes, TypeOK
<1>3. PICK h \in Handler :
         h.op = clerk[c].op /\ h.pc = "called" /\ call'[c] = Append(call[c], h)
  BY <1>1
<1>4. /\ Len(call'[c]) = Len(call[c]) + 1 /\ call'[c][Len(call'[c])] = h
      /\ \A k \in 1..Len(call[c]) : call'[c][k] = call[c][k]
      /\ Len(call[c]) \in Nat
  BY <1>2, <1>3
<1>5. ConnectionOK(c) /\ InRaftOK /\ ResultsOK
  BY DEF ClerksServed
<1>6. Idle(c) /\ \A k \in 1..Len(call[c]) : call[c][k].pc = "gone"
  BY <1>1, <1>5, NotCalling
<1>7. Latest(c)' = h
  BY <1>4 DEF Latest
<1>8. OneHandler(c)'
  <2>1. ASSUME NEW k \in 1..Len(call'[c]), call'[c][k].pc # "gone"
        PROVE  k = Len(call'[c]) /\ clerk'[c].calling
    BY <1>1, <1>4, <1>6, <2>1
  <2> QED BY <1>1, <1>3, <1>7, <2>1 DEF OneHandler
<1>9. AnswerOK(c)'
  BY <1>3, <1>7 DEF AnswerOK
<1>10. ChosenGrows
  BY <1>1, <1>2 DEF ChosenGrows
<1>11. SinceOK(c)'
  BY <1>1, <1>5, <1>10, SinceKept DEF ConnectionOK
<1>12. InRaftOK'
  <2>1. \A d \in Client : clerk'[d].seq = clerk[d].seq /\ clerk'[d].op \in {clerk[d].op, Nil}
    BY <1>1
  <2> QED BY <1>1, <1>5, <2>1, InRaftKept
<1>13. ResultsOK'
  BY <1>1, <1>5, <1>10, ResultsKept
<1> QED BY <1>1, <1>6, <1>8, <1>9, <1>11, <1>12, <1>13, OnlyThisClerkStep

(* A lost request leaves its Clerk without a handler.                       *)
LEMMA RequestLostServed ==
  ASSUME KVTypes, ClerksServed, NEW c \in Client, RequestLost(c)
  PROVE  ClerksServed'
<1>1. TypeOK /\ CallFails(c) /\ UNCHANGED <<call, kv, chosen, tail, restarts, results>>
      /\ clerk[c] \in Clerk /\ ~clerk[c].calling
  BY DEF KVTypes, RequestLost, TypeOK
<1>2. /\ \A d \in Client \ {c} : clerk'[d] = clerk[d]
      /\ clerk'[c].op = clerk[c].op /\ clerk'[c].seq = clerk[c].seq
      /\ clerk'[c].since = clerk[c].since /\ clerk'[c].calling = FALSE
  BY <1>1, CallFailsEffect
<1>3. clerk[c].calling = FALSE
  BY <1>1 DEF Clerk
<1>4. ConnectionOK(c) /\ InRaftOK /\ ResultsOK
  BY DEF ClerksServed
<1>5. Idle(c) /\ \A k \in 1..Len(call[c]) : call[c][k].pc = "gone"
  BY <1>3, <1>4, NotCalling
<1>6. OneHandler(c)' /\ AnswerOK(c)'
  BY <1>1, <1>2, <1>5 DEF OneHandler, AnswerOK
<1>7. ChosenGrows
  BY <1>1 DEF ChosenGrows, TypeOK
<1>8. SinceOK(c)'
  BY <1>2, <1>4, <1>7, SinceKept DEF ConnectionOK
<1>9. InRaftOK'
  <2>1. \A d \in Client : clerk'[d].seq = clerk[d].seq /\ clerk'[d].op \in {clerk[d].op, Nil}
    BY <1>2
  <2> QED BY <1>1, <1>4, <2>1, InRaftKept
<1>10. ResultsOK'
  BY <1>1, <1>4, <1>7, ResultsKept
<1> QED BY <1>1, <1>2, <1>5, <1>6, <1>8, <1>9, <1>10, OnlyThisClerkStep

(* A call has ended and its handler is forgotten.                           *)
Returned(c) ==
    /\ clerk[c].calling /\ Latest(c).pc \in {"ok", "wrongLeader", "killed"}
    /\ Forget(c)
    /\ \A d \in Client \ {c} : clerk'[d] = clerk[d]
    /\ clerk'[c].op \in {clerk[c].op, Nil} /\ clerk'[c].seq = clerk[c].seq
    /\ clerk'[c].since = clerk[c].since /\ clerk'[c].calling = FALSE
    /\ UNCHANGED <<kv, chosen, tail, restarts>>

(* The end of a call leaves its Clerk without a handler.                    *)
LEMMA ReturnServed ==
  ASSUME KVTypes, ClerksServed, NEW c \in Client, Returned(c), ResultsOK'
  PROVE  ClerksServed'
<1>1. TypeOK /\ Forget(c) /\ call[c] # <<>> /\ call[c] \in Seq(Handler)
      /\ Latest(c).pc \in {"ok", "wrongLeader", "killed"}
  BY DEF KVTypes, TypeOK, ClerksOK, Returned
<1>2. /\ \A d \in Client \ {c} : call'[d] = call[d]
      /\ Len(call'[c]) = Len(call[c])
      /\ \A j \in 1..Len(call[c]) : j # Len(call[c]) => call'[c][j] = call[c][j]
      /\ call'[c][Len(call[c])].pc = "gone"
  BY <1>1, ForgetEffect
<1>3. /\ \A d \in Client \ {c} : clerk'[d] = clerk[d]
      /\ clerk'[c].op \in {clerk[c].op, Nil} /\ clerk'[c].seq = clerk[c].seq
      /\ clerk'[c].since = clerk[c].since /\ clerk'[c].calling = FALSE
      /\ UNCHANGED <<kv, chosen, tail>>
  BY DEF Returned
<1>4. ConnectionOK(c) /\ InRaftOK
  BY DEF ClerksServed
<1>5. Idle(c)
  <2>1. \A s \in Server : ~WaitsAt(c, s)
    BY <1>1 DEF WaitsAt
  <2> QED BY <1>4, <2>1, NobodyWaits
<1>6. OneHandler(c)'
  <2>1. \A k \in 1..Len(call[c]) : call[c][k].pc # "gone" => k = Len(call[c])
    BY <1>4 DEF ConnectionOK, OneHandler
  <2>2. \A k \in 1..Len(call'[c]) : call'[c][k].pc = "gone"
    BY <1>2, <2>1
  <2> QED BY <1>3, <2>2 DEF OneHandler
<1>7. AnswerOK(c)'
  BY <1>3 DEF AnswerOK
<1>8. ChosenGrows
  BY <1>1, <1>3 DEF ChosenGrows, TypeOK
<1>9. SinceOK(c)'
  BY <1>3, <1>4, <1>8, SinceKept DEF ConnectionOK
<1>10. InRaftOK'
  <2>1. \A d \in Client : clerk'[d].seq = clerk[d].seq /\ clerk'[d].op \in {clerk[d].op, Nil}
    BY <1>3
  <2> QED BY <1>3, <1>4, <2>1, InRaftKept
<1> QED BY <1>2, <1>3, <1>5, <1>6, <1>7, <1>9, <1>10, OnlyThisClerkStep

(* The first place where the operation of a Clerk is committed is one where *)
(* it is executed.                                                          *)
LEMMA FirstIsExecuted ==
  ASSUME KVTypes, InRaftOK, NEW c \in Client, clerk[c].op # Nil,
         NEW n \in 1..Len(chosen), chosen[n] = clerk[c].op
  PROVE  \E p \in Executed(Len(chosen)) : chosen[p] = clerk[c].op
<1>1. chosen \in Seq(Ops) /\ Len(chosen) \in Nat /\ clerk[c] \in Clerk
  BY DEF KVTypes, TypeOK
<1>2. PICK op \in Ops : op = clerk[c].op
  BY <1>1 DEF Clerk
<1>3. op.ClientId = c /\ op.ClientSeq = clerk[c].seq - 1 /\ clerk[c].seq \in Nat
      /\ op.ClientSeq \in Nat
  BY <1>1, <1>2 DEF KVTypes, ClerksOK, Clerk, Ops
<1> DEFINE T == {q \in 1..Len(chosen) : chosen[q] = op}
<1>4. PICK p \in T : \A q \in T : q >= p
  <2>1. T \subseteq Nat /\ T # {}
    BY <1>2
  <2> HIDE DEF T
  <2>2. IsWellFoundedOn(OpToRel(<, Nat), Nat)
    BY NatLessThanWellFounded
  <2>3. PICK p \in T : \A q \in T : ~(<<q, p>> \in OpToRel(<, Nat))
    BY <2>1, <2>2, WFMin
  <2>4. \A q \in T : ~(q < p)
    BY <2>1, <2>3 DEF OpToRel
  <2> QED BY <2>1, <2>4
<1>5. ASSUME NEW q \in 1..(p - 1), chosen[q].ClientId = chosen[p].ClientId
      PROVE  chosen[q].ClientSeq < chosen[p].ClientSeq
  <2>1. q \in 1..Len(chosen) /\ q < p /\ chosen[p] = op
    BY <1>1, <1>4
  <2>2. chosen[q] # op
    BY <1>4, <2>1
  <2>3. NotAhead(chosen[q]) /\ chosen[q] \in Ops
    BY <1>1, <2>1 DEF InRaftOK
  <2>4. chosen[q].ClientSeq \in Nat /\ chosen[q].ClientId = c
    BY <1>3, <1>5, <2>1, <2>3 DEF Ops
  <2>5. chosen[q].ClientSeq < clerk[c].seq /\ chosen[q].ClientSeq # op.ClientSeq
    BY <1>2, <2>2, <2>3, <2>4 DEF NotAhead
  <2> QED BY <1>3, <2>1, <2>4, <2>5
<1>6. p \in Executed(Len(chosen)) /\ chosen[p] = op
  BY <1>1, <1>4, <1>5 DEF Executed
<1> QED BY <1>2, <1>6

(* An answer that arrives is that of an operation that was executed, and,   *)
(* for a Get, the value at a place committed since it was invoked.          *)
LEMMA AnswerIsRight ==
  ASSUME KVTypes, ClerksServed, NEW c \in Client, clerk[c].calling, Latest(c).pc = "ok",
         NEW w, w.op = clerk[c].op, w.value = Latest(c).value, w.since = clerk[c].since
  PROVE  /\ \E p \in Executed(Len(chosen)) : chosen[p] = w.op
         /\ w.op.Op = "Get" => \E n \in (w.since + 1)..Len(chosen) :
               chosen[n] = w.op /\ w.value = Replay(n - 1, w.op.Key)
<1>1. AnswerOK(c) /\ SinceOK(c) /\ InRaftOK
  BY DEF ClerksServed, ConnectionOK
<1>2. clerk[c].op # Nil
  BY DEF KVTypes, ClerksOK
<1>3. PICK n \in 1..Len(chosen) : AnsweredAt(c, n)
  BY <1>1 DEF AnswerOK
<1>4. chosen[n] = clerk[c].op
  BY <1>3 DEF AnsweredAt
<1>5. \E p \in Executed(Len(chosen)) : chosen[p] = w.op
  BY <1>1, <1>2, <1>4, FirstIsExecuted
<1>6. clerk[c] \in Clerk /\ Len(chosen) \in Nat
  BY DEF KVTypes, TypeOK
<1>7. clerk[c].op \in Ops /\ clerk[c].since \in Nat
  BY <1>2, <1>6 DEF Clerk
<1>8. clerk[c].op.ClientId = c /\ clerk[c].op.ClientSeq \in Nat
  BY <1>2, <1>7 DEF KVTypes, ClerksOK, Ops
<1>9. n \notin 1..clerk[c].since
  BY <1>1, <1>2, <1>4, <1>8 DEF SinceOK
<1>10. n \in (w.since + 1)..Len(chosen)
  BY <1>6, <1>7, <1>9
<1>11. w.op.Op = "Get" => w.value = Replay(n - 1, w.op.Key)
  BY <1>3 DEF AnsweredAt
<1> QED BY <1>4, <1>5, <1>10, <1>11

(* Without partitions, a reply is lost only when the handler has ended.     *)
LEMMA ReplyLostServed ==
  ASSUME KVTypes, ClerksServed, ~Partitions, NEW c \in Client, ReplyLost(c)
  PROVE  ClerksServed'
<1>1. TypeOK /\ CallFails(c) /\ results' = results /\ chosen' = chosen
  BY DEF KVTypes, ReplyLost
<1>2. /\ \A d \in Client \ {c} : clerk'[d] = clerk[d]
      /\ clerk'[c].op = clerk[c].op /\ clerk'[c].seq = clerk[c].seq
      /\ clerk'[c].since = clerk[c].since /\ clerk'[c].calling = FALSE
  BY <1>1, CallFailsEffect
<1>3. Returned(c)
  BY <1>2 DEF ReplyLost, Returned
<1>4. ResultsOK'
  <2>1. ChosenGrows
    BY <1>1 DEF ChosenGrows, TypeOK
  <2> QED BY <1>1, <2>1, ResultsKept DEF ClerksServed
<1> QED BY <1>3, <1>4, ReturnServed

(* What a Clerk returns is executed and current.                            *)
LEMMA ReplyArrivesServed ==
  ASSUME KVTypes, ClerksServed, NEW c \in Client, ReplyArrives(c)
  PROVE  ClerksServed'
<1>1. TypeOK /\ Forget(c) /\ clerk[c].calling /\ UNCHANGED <<kv, chosen, tail, restarts>>
  BY DEF KVTypes, ReplyArrives
<1>2. ChosenGrows
  BY <1>1 DEF ChosenGrows, TypeOK
<1>3. CASE Latest(c).pc = "wrongLeader" /\ CallFails(c) /\ UNCHANGED results
  <2>1. /\ \A d \in Client \ {c} : clerk'[d] = clerk[d]
        /\ clerk'[c].op = clerk[c].op /\ clerk'[c].seq = clerk[c].seq
        /\ clerk'[c].since = clerk[c].since /\ clerk'[c].calling = FALSE
    BY <1>1, <1>3, CallFailsEffect
  <2>2. Returned(c)
    BY <1>1, <1>3, <2>1 DEF Returned
  <2>3. ResultsOK'
    BY <1>2, <1>3, ResultsKept DEF ClerksServed
  <2> QED BY <2>2, <2>3, ReturnServed
<1>4. CASE /\ Latest(c).pc = "ok"
           /\ clerk' = [clerk EXCEPT ![c].op = Nil, ![c].calling = FALSE,
                                     ![c].leader = Latest(c).server]
           /\ results' = results \cup {[op |-> clerk[c].op, value |-> Latest(c).value,
                                        since |-> clerk[c].since]}
  <2>1. clerk \in [Client -> Clerk] /\ clerk[c] \in Clerk
    BY <1>1 DEF TypeOK
  <2>2. /\ \A d \in Client \ {c} : clerk'[d] = clerk[d]
        /\ clerk'[c].op = Nil /\ clerk'[c].seq = clerk[c].seq
        /\ clerk'[c].since = clerk[c].since /\ clerk'[c].calling = FALSE
    <3> DEFINE f == clerk[c]
               l == Latest(c).server
               r == [f EXCEPT !.op = Nil, !.calling = FALSE, !.leader = l]
    <3>1. clerk' = [clerk EXCEPT ![c] = r]
      BY <1>4
    <3>2. f \in Clerk
      BY <2>1
    <3> HIDE DEF f, l
    <3>3. r.op = Nil /\ r.calling = FALSE /\ r.seq = f.seq /\ r.since = f.since
      BY <3>2 DEF Clerk
    <3> HIDE DEF r
    <3>4. clerk'[c] = r /\ \A d \in Client \ {c} : clerk'[d] = clerk[d]
      BY <2>1, <3>1
    <3> QED BY <3>3, <3>4 DEF f
  <2>3. Returned(c)
    BY <1>1, <1>4, <2>2 DEF Returned
  <2>4. PICK w : w = [op |-> clerk[c].op, value |-> Latest(c).value, since |-> clerk[c].since]
    OBVIOUS
  <2>5. w.op = clerk[c].op /\ w.value = Latest(c).value /\ w.since = clerk[c].since
    BY <2>4
  <2>6. /\ \E p \in Executed(Len(chosen)) : chosen[p] = w.op
        /\ w.op.Op = "Get" => \E n \in (w.since + 1)..Len(chosen) :
              chosen[n] = w.op /\ w.value = Replay(n - 1, w.op.Key)
    BY <1>1, <1>4, <2>5, AnswerIsRight
  <2>7. ResultsOK'
    <3>1. results' = results \cup {w}
      BY <1>4, <2>4
    <3>2. ResultsOK
      BY DEF ClerksServed
    <3>3. AcknowledgedIsExecuted'
      <4>1. ASSUME NEW r \in results'
            PROVE  \E p \in Executed(Len(chosen)) : chosen[p] = r.op
        BY <2>6, <3>1, <3>2 DEF ResultsOK, AcknowledgedIsExecuted
      <4>2. Executed(Len(chosen))' = Executed(Len(chosen))
        BY <1>1 DEF Executed
      <4> QED BY <1>1, <4>1, <4>2 DEF AcknowledgedIsExecuted
    <3>4. ReadsAreCurrent'
      <4> SUFFICES ASSUME NEW r \in results', r.op.Op = "Get"
                   PROVE  \E n \in (r.since + 1)..Len(chosen') :
                             chosen'[n] = r.op /\ r.value = Replay(n - 1, r.op.Key)'
        BY DEF ReadsAreCurrent
      <4>1. PICK n \in (r.since + 1)..Len(chosen) :
               chosen[n] = r.op /\ r.value = Replay(n - 1, r.op.Key)
        BY <2>6, <3>1, <3>2 DEF ResultsOK, ReadsAreCurrent
      <4>2. r.since \in Nat /\ Len(chosen) \in Nat
        <5>1. w.since \in Nat
          BY <2>1, <2>5 DEF Clerk
        <5> QED BY <1>1, <3>1, <5>1 DEF TypeOK, Result
      <4>3. PICK m \in Nat : m = n - 1
        BY <4>2
      <4>4. PICK key : key = r.op.Key
        OBVIOUS
      <4>5. Replay(m, key)' = Replay(m, key)
        <5>1. \A q \in 1..m : chosen'[q] = chosen[q]
          BY <1>1
        <5> QED BY <5>1, ReplayStable
      <4>6. Replay(n - 1, r.op.Key)' = Replay(m, key)'
            /\ Replay(n - 1, r.op.Key) = Replay(m, key)
        BY <4>3, <4>4
      <4> QED BY <1>1, <4>1, <4>5, <4>6
    <3> QED BY <3>3, <3>4 DEF ResultsOK
  <2> QED BY <2>3, <2>7, ReturnServed
<1> QED BY <1>3, <1>4 DEF ReplyArrives

(* A handler that has not ended is the latest one, and its Clerk waits.     *)
LEMMA IsLatest ==
  ASSUME NEW c \in Client, ConnectionOK(c), NEW k \in 1..Len(call[c]),
         call[c][k].pc # "gone"
  PROVE  /\ k = Len(call[c]) /\ clerk[c].calling /\ Latest(c) = call[c][k]
         /\ Latest(c).op = clerk[c].op
BY DEF ConnectionOK, OneHandler, Latest

(* A step of the handler k of c, at its place and at its servers.           *)
HandlerMoves(c, k) ==
    /\ k \in 1..Len(call[c]) /\ call[c][k].pc # "gone"
    /\ \A d \in Client \ {c} : call'[d] = call[d]
    /\ Len(call'[c]) = Len(call[c])
    /\ \A j \in 1..Len(call[c]) : j # k => call'[c][j] = call[c][j]
    /\ call'[c][k].op = call[c][k].op /\ call'[c][k].server = call[c][k].server
    /\ UNCHANGED <<clerk, chosen, results>>

ServersKeep(c) ==
    \A s \in Server :
        /\ ServingStays(s)
        /\ \A d \in Client \ {c} :
              /\ kv'[s].callBack[d] = kv[s].callBack[d]
              /\ SendsTo(d, s)' => SendsTo(d, s) /\ kv'[s].serving = kv[s].serving

(* A step of a handler keeps all but what it does for its own Clerk.        *)
LEMMA HandlerServed ==
  ASSUME KVTypes, ClerksServed, NEW c \in Client, NEW k, HandlerMoves(c, k),
         ServersKeep(c), AnswerOK(c)', InRaftOK',
         \A s \in Server : ListenOK(c, s)' /\ SendOK(c, s)'
  PROVE  ClerksServed'
<1>1. ConnectionOK(c) /\ ResultsOK
  BY DEF ClerksServed
<1>2. k \in 1..Len(call[c]) /\ call[c][k].pc # "gone"
  BY DEF HandlerMoves
<1>3. /\ k = Len(call[c]) /\ clerk[c].calling /\ Latest(c) = call[c][k]
      /\ Latest(c).op = clerk[c].op
  BY <1>1, <1>2, IsLatest
<1>4. chosen' = chosen /\ clerk' = clerk /\ results' = results
  BY DEF HandlerMoves
<1>5. ChosenGrows
  BY <1>4 DEF ChosenGrows, KVTypes, TypeOK
<1>6. OneHandler(c)'
  <2>1. Latest(c)'.op = clerk'[c].op
    BY <1>3, <1>4 DEF HandlerMoves, Latest
  <2>2. \A j \in 1..Len(call[c]) : call[c][j].pc # "gone" => j = Len(call[c])
    BY <1>1 DEF ConnectionOK, OneHandler
  <2>3. \A j \in 1..Len(call'[c]) : call'[c][j].pc # "gone" => j = Len(call'[c])
    BY <1>3, <2>2 DEF HandlerMoves
  <2> QED BY <1>3, <1>4, <2>1, <2>3 DEF OneHandler
<1>7. SinceOK(c)'
  <2>1. SinceOK(c) /\ clerk'[c].op \in {clerk[c].op, Nil} /\ clerk'[c].since = clerk[c].since
    BY <1>1, <1>4 DEF ConnectionOK
  <2> QED BY <1>5, <2>1, SinceKept
<1>8. ConnectionOK(c)'
  BY <1>6, <1>7 DEF ConnectionOK
<1>9. ASSUME NEW d \in Client \ {c} PROVE Elsewhere(d)
  BY <1>4 DEF HandlerMoves, ServersKeep, Elsewhere
<1>10. \A s \in Server : ServingStays(s)
  BY DEF ServersKeep
<1>11. ResultsOK'
  BY <1>1, <1>4, <1>5, ResultsKept
<1> QED BY <1>4, <1>8, <1>9, <1>10, <1>11, OnlyThisClerk

(* The servers as they are to all clients but c, field by field.            *)
LEMMA ServersKept ==
  ASSUME NEW c \in Client, NEW s \in Server,
         \A t \in Server \ {s} : kv'[t] = kv[t],
         kv'[s].applied = kv[s].applied, kv'[s].serving = kv[s].serving,
         \A d \in Client \ {c} : kv'[s].callBack[d] = kv[s].callBack[d]
  PROVE  ServersKeep(c)
<1>1. \A t \in Server : kv'[t].applied = kv[t].applied /\ kv'[t].serving = kv[t].serving
      /\ \A d \in Client \ {c} : kv'[t].callBack[d] = kv[t].callBack[d]
  OBVIOUS
<1>2. \A t \in Server : ServingStays(t)
  BY <1>1 DEF ServingStays
<1>3. ASSUME NEW t \in Server, NEW d \in Client \ {c}, SendsTo(d, t)'
      PROVE  SendsTo(d, t)
  BY <1>1, <1>3 DEF SendsTo
<1> QED BY <1>1, <1>2, <1>3 DEF ServersKeep

(* Nothing is new in Raft.                                                  *)
LEMMA RaftUntouched ==
  ASSUME KVTypes, ClerksServed, UNCHANGED <<clerk, chosen, tail>>
  PROVE  InRaftOK'
<1>1. \A d \in Client : clerk'[d].seq = clerk[d].seq /\ clerk'[d].op \in {clerk[d].op, Nil}
  OBVIOUS
<1>2. InRaftOK
  BY DEF ClerksServed
<1> QED BY <1>1, <1>2, InRaftKept

(* A handler that does not answer leaves its Clerk without an answer.       *)
LEMMA NoAnswer ==
  ASSUME KVTypes, ClerksServed, NEW c \in Client, NEW k, HandlerMoves(c, k),
         call'[c][k].pc # "ok"
  PROVE  AnswerOK(c)'
<1>1. ConnectionOK(c) /\ k \in 1..Len(call[c]) /\ call[c][k].pc # "gone"
  BY DEF ClerksServed, HandlerMoves
<1>2. k = Len(call[c]) /\ Len(call'[c]) = Len(call[c])
  BY <1>1, IsLatest DEF HandlerMoves
<1>3. Latest(c)'.pc # "ok"
  BY <1>2 DEF Latest
<1> QED BY <1>3 DEF AnswerOK

(* A handler that does not wait.                                            *)
LEMMA HandlerIdle ==
  ASSUME ClerksServed, NEW c \in Client, NEW k \in 1..Len(call[c]),
         call[c][k].pc \in {"called", "started"}
  PROVE  Idle(c)
<1>1. ConnectionOK(c) /\ call[c][k].pc # "gone"
  BY DEF ClerksServed
<1>2. Latest(c) = call[c][k]
  BY <1>1, IsLatest
<1>3. \A s \in Server : ~WaitsAt(c, s)
  BY <1>2 DEF WaitsAt
<1> QED BY <1>1, <1>3, NobodyWaits

(* A handler that refuses leaves nobody listening.                          *)
LEMMA WrongLeaderServed ==
  ASSUME KVTypes, ClerksServed, NEW c \in Client, NEW k, WrongLeader(c, k)
  PROVE  ClerksServed'
<1>1. /\ TypeOK /\ At(c, k, "called") /\ Ends(c, k, "wrongLeader", <<>>)
      /\ UNCHANGED <<clerk, kv, chosen, tail, restarts, results>>
  BY DEF KVTypes, WrongLeader
<1>2. k \in 1..Len(call[c]) /\ call[c][k].pc = "called"
  BY <1>1 DEF At
<1>3. <<>> \in Data
  BY DEF Data
<1>4. /\ \A d \in Client \ {c} : call'[d] = call[d]
      /\ Len(call'[c]) = Len(call[c])
      /\ \A j \in 1..Len(call[c]) : j # k => call'[c][j] = call[c][j]
      /\ call'[c][k].op = call[c][k].op
      /\ call'[c][k].server = call[c][k].server
      /\ call'[c][k].pc \in {"wrongLeader", "gone"}
  BY <1>1, <1>2, <1>3, EndsEffect
<1>5. HandlerMoves(c, k)
  BY <1>1, <1>2, <1>4 DEF HandlerMoves
<1>6. Idle(c)
  BY <1>2, HandlerIdle
<1>7. \A s \in Server : ListenOK(c, s)' /\ SendOK(c, s)'
  BY <1>1, <1>6 DEF Idle, ListensAt, SendsTo, ListenOK, SendOK
<1>8. ServersKeep(c)
  BY <1>1 DEF ServersKeep, ServingStays, SendsTo
<1>9. AnswerOK(c)'
  BY <1>4, <1>5, NoAnswer
<1>10. InRaftOK'
  BY <1>1, RaftUntouched
<1> QED BY <1>5, <1>7, <1>8, <1>9, <1>10, HandlerServed

(* Start adds the operation of a Clerk to a log.                            *)
LEMMA StartedInRaft ==
  ASSUME KVTypes, InRaftOK, NEW op \in Ops, NotAhead(op),
         clerk' = clerk, chosen' = chosen,
         \A t \in Server : tail'[t] \in {tail[t], Append(tail[t], op)}
  PROVE  InRaftOK'
<1>1. ASSUME NEW t \in Server, NEW q \in 1..Len(tail'[t]) PROVE NotAhead(tail[t][q])'
  <2>1. tail[t] \in Seq(Ops)
    BY DEF KVTypes, TypeOK
  <2>2. tail'[t][q] = op \/ (q \in 1..Len(tail[t]) /\ tail'[t][q] = tail[t][q])
    <3>1. CASE tail'[t] = tail[t]
      BY <1>1, <3>1
    <3>2. CASE tail'[t] = Append(tail[t], op)
      BY <1>1, <2>1, <3>2
    <3> QED BY <3>1, <3>2
  <2>3. PICK o : o = tail'[t][q]
    OBVIOUS
  <2>4. NotAhead(o)
    BY <2>2, <2>3 DEF InRaftOK
  <2> QED BY <2>3, <2>4 DEF NotAhead
<1>2. ASSUME NEW q \in 1..Len(chosen') PROVE NotAhead(chosen[q])'
  <2>1. NotAhead(chosen[q])
    BY <1>2 DEF InRaftOK
  <2> QED BY <2>1 DEF NotAhead
<1> QED BY <1>1, <1>2 DEF InRaftOK

(* Start takes the operation its Clerk is busy with.                        *)
LEMMA HandlerStartServed ==
  ASSUME KVTypes, ClerksServed, NEW c \in Client, NEW k, HandlerStart(c, k)
  PROVE  ClerksServed'
<1>1. TypeOK /\ At(c, k, "called")
  BY DEF KVTypes, HandlerStart
<1>2. k \in 1..Len(call[c]) /\ call[c][k].pc = "called" /\ call[c][k].op \in Ops
  BY <1>1, RunningAt
<1>3. PICK s \in Server : RunsOn(c, k, s)
  BY <1>2, HandlerHome
<1>4. HandlerStarted(c, k, s)
  BY <1>3, HandlerStartEffect
<1>5. /\ MovesTo(c, k, "started")
      /\ \A t \in Server : tail'[t] \in {tail[t], Append(tail[t], call[c][k].op)}
      /\ UNCHANGED <<clerk, chosen, restarts, results>>
  BY <1>4 DEF HandlerStarted
<1>6. /\ \A t \in Server \ {s} : kv'[t] = kv[t]
      /\ kv'[s].applied = kv[s].applied /\ kv'[s].serving = kv[s].serving
      /\ kv[s].callBack[c] = Nil => kv'[s].callBack[c].listen = FALSE
      /\ kv[s].callBack[c] # Nil => kv'[s].callBack[c] = kv[s].callBack[c]
      /\ \A d \in Client \ {c} : kv'[s].callBack[d] = kv[s].callBack[d]
  BY <1>4 DEF HandlerStarted
<1>7. /\ \A d \in Client \ {c} : call'[d] = call[d]
      /\ Len(call'[c]) = Len(call[c])
      /\ \A j \in 1..Len(call[c]) : j # k => call'[c][j] = call[c][j]
      /\ call'[c][k].op = call[c][k].op
      /\ call'[c][k].server = call[c][k].server
      /\ call'[c][k].pc = "started"
  BY <1>1, <1>2, <1>5, MoveEffect
<1>8. HandlerMoves(c, k)
  BY <1>2, <1>5, <1>7 DEF HandlerMoves
<1>9. ServersKeep(c)
  BY <1>6, ServersKept
<1>10. Idle(c)
  BY <1>2, HandlerIdle
<1>11. \A t \in Server : ~ListensAt(c, t)' /\ ~SendsTo(c, t)'
  BY <1>6, <1>10 DEF Idle, ListensAt, SendsTo
<1>12. \A t \in Server : ListenOK(c, t)' /\ SendOK(c, t)'
  BY <1>11 DEF ListenOK, SendOK
<1>13. AnswerOK(c)'
  BY <1>7, <1>8, NoAnswer
<1>14. InRaftOK'
  <2>1. PICK op \in Ops : op = call[c][k].op
    BY <1>2
  <2>2. ConnectionOK(c) /\ InRaftOK
    BY DEF ClerksServed
  <2>3. clerk[c].calling /\ op = clerk[c].op
    BY <1>2, <2>1, <2>2, IsLatest
  <2>4. clerk[c] \in Clerk
    BY <1>1 DEF TypeOK
  <2>5. op.ClientId = c /\ op.ClientSeq = clerk[c].seq - 1 /\ clerk[c].seq \in Nat
    BY <2>3, <2>4 DEF KVTypes, ClerksOK, Clerk
  <2>6. NotAhead(op)
    BY <2>3, <2>5 DEF NotAhead
  <2>7. \A t \in Server : tail'[t] \in {tail[t], Append(tail[t], op)}
    BY <1>5, <2>1
  <2> QED BY <1>5, <2>2, <2>6, <2>7, StartedInRaft
<1> QED BY <1>8, <1>9, <1>12, <1>13, <1>14, HandlerServed

(* A handler listens for the operation its Clerk is busy with.              *)
LEMMA ListenServed ==
  ASSUME KVTypes, ClerksServed, NEW c \in Client, NEW k, listenCallBack(c, k)
  PROVE  ClerksServed'
<1>1. TypeOK /\ At(c, k, "started")
  BY DEF KVTypes, listenCallBack
<1>2. k \in 1..Len(call[c]) /\ call[c][k].pc = "started"
  BY <1>1, RunningAt
<1>3. PICK s \in Server : RunsOn(c, k, s)
  BY <1>2, HandlerHome
<1>4. Listens(c, k, s)
  BY <1>3, ListenEffect
<1>5. MovesTo(c, k, "waiting") /\ UNCHANGED <<clerk, chosen, tail, restarts, results>>
  BY <1>4 DEF Listens
<1>6. /\ \A t \in Server \ {s} : kv'[t] = kv[t]
      /\ kv'[s].applied = kv[s].applied /\ kv'[s].serving = kv[s].serving
      /\ kv'[s].callBack[c].wantSeq = call[c][k].op.ClientSeq
      /\ \A d \in Client \ {c} : kv'[s].callBack[d] = kv[s].callBack[d]
  BY <1>4 DEF Listens
<1>7. /\ \A d \in Client \ {c} : call'[d] = call[d]
      /\ Len(call'[c]) = Len(call[c])
      /\ \A j \in 1..Len(call[c]) : j # k => call'[c][j] = call[c][j]
      /\ call'[c][k].op = call[c][k].op
      /\ call'[c][k].server = call[c][k].server
      /\ call'[c][k].pc = "waiting"
  BY <1>1, <1>2, <1>5, MoveEffect
<1>8. HandlerMoves(c, k)
  BY <1>2, <1>5, <1>7 DEF HandlerMoves
<1>9. ServersKeep(c)
  BY <1>6, ServersKept
<1>10. Idle(c) /\ ConnectionOK(c)
  BY <1>2, HandlerIdle DEF ClerksServed
<1>11. k = Len(call[c]) /\ clerk[c].calling /\ call[c][k].op = clerk[c].op
  BY <1>2, <1>10, IsLatest
<1>12. WaitsAt(c, s)'
  <2>1. Latest(c)'.server = s /\ Latest(c)'.pc = "waiting"
    BY <1>3, <1>7, <1>11 DEF Latest, RunsOn
  <2> QED BY <1>5, <1>11, <2>1 DEF WaitsAt
<1>13. \A t \in Server : ~SendsTo(c, t)' /\ (t # s => ~ListensAt(c, t)')
  BY <1>6, <1>10 DEF Idle, ListensAt, SendsTo
<1>14. ListenOK(c, s)'
  BY <1>5, <1>6, <1>11, <1>12 DEF ListenOK
<1>15. \A t \in Server : ListenOK(c, t)' /\ SendOK(c, t)'
  BY <1>13, <1>14 DEF ListenOK, SendOK
<1>16. AnswerOK(c)'
  BY <1>7, <1>8, NoAnswer
<1>17. InRaftOK'
  BY <1>5, RaftUntouched
<1> QED BY <1>8, <1>9, <1>15, <1>16, <1>17, HandlerServed

(* A handler whose time is up still listens.                                *)
LEMMA TimeoutServed ==
  ASSUME KVTypes, ClerksServed, NEW c \in Client, NEW k, HandlerTimeout(c, k)
  PROVE  ClerksServed'
<1>1. TypeOK /\ At(c, k, "waiting") /\ MovesTo(c, k, "timedOut")
      /\ UNCHANGED <<clerk, kv, chosen, tail, restarts, results>>
  BY DEF KVTypes, HandlerTimeout, MovesTo
<1>2. k \in 1..Len(call[c]) /\ call[c][k].pc = "waiting"
  BY <1>1, RunningAt
<1>3. /\ \A d \in Client \ {c} : call'[d] = call[d]
      /\ Len(call'[c]) = Len(call[c])
      /\ \A j \in 1..Len(call[c]) : j # k => call'[c][j] = call[c][j]
      /\ call'[c][k].op = call[c][k].op
      /\ call'[c][k].server = call[c][k].server
      /\ call'[c][k].pc = "timedOut"
  BY <1>1, <1>2, MoveEffect
<1>4. HandlerMoves(c, k)
  BY <1>1, <1>2, <1>3 DEF HandlerMoves
<1>5. ServersKeep(c)
  BY <1>1 DEF ServersKeep, ServingStays, SendsTo
<1>6. ConnectionOK(c)
  BY DEF ClerksServed
<1>7. k = Len(call[c]) /\ clerk[c].calling /\ Latest(c) = call[c][k]
  BY <1>2, <1>6, IsLatest
<1>8. Latest(c)'.server = Latest(c).server /\ Latest(c)'.pc = "timedOut"
  BY <1>3, <1>7 DEF Latest
<1>9. \A t \in Server : WaitsAt(c, t) => WaitsAt(c, t)'
  BY <1>1, <1>8 DEF WaitsAt
<1>10. \A t \in Server : (ListensAt(c, t)' <=> ListensAt(c, t))
                         /\ (SendsTo(c, t)' <=> SendsTo(c, t))
  BY <1>1 DEF ListensAt, SendsTo
<1>11. ASSUME NEW t \in Server PROVE ListenOK(c, t)' /\ SendOK(c, t)'
  <2>1. ListenOK(c, t) /\ SendOK(c, t)
    BY <1>6 DEF ConnectionOK
  <2>2. ListenOK(c, t)'
    BY <1>1, <1>9, <1>10, <2>1 DEF ListenOK
  <2>3. SendOK(c, t)'
    BY <1>1, <1>9, <1>10, <2>1 DEF SendOK
  <2> QED BY <2>2, <2>3
<1>12. AnswerOK(c)'
  BY <1>3, <1>4, NoAnswer
<1>13. InRaftOK'
  BY <1>1, RaftUntouched
<1> QED BY <1>4, <1>5, <1>11, <1>12, <1>13, HandlerServed

(* A handler that waits at s: nothing is heard of its Clerk elsewhere.      *)
LEMMA WaitsOnlyHere ==
  ASSUME ClerksServed, NEW c \in Client, NEW k \in 1..Len(call[c]),
         call[c][k].pc \in {"waiting", "timedOut"}, NEW s \in Server, RunsOn(c, k, s)
  PROVE  /\ k = Len(call[c]) /\ clerk[c].calling
         /\ \A t \in Server \ {s} : ~ListensAt(c, t) /\ ~SendsTo(c, t)
<1>1. ConnectionOK(c) /\ call[c][k].pc # "gone"
  BY DEF ClerksServed
<1>2. k = Len(call[c]) /\ clerk[c].calling /\ Latest(c) = call[c][k]
  BY <1>1, IsLatest
<1>3. \A t \in Server \ {s} : ~WaitsAt(c, t)
  BY <1>2 DEF WaitsAt, RunsOn
<1> QED BY <1>1, <1>2, <1>3 DEF ConnectionOK, ListenOK, SendOK

(* A handler that withdraws is not being sent to: the mutex is free.        *)
LEMMA UnlistenServed ==
  ASSUME KVTypes, ClerksServed, NEW c \in Client, NEW k, unlistenCallBack(c, k)
  PROVE  ClerksServed'
<1>1. TypeOK /\ At(c, k, "timedOut")
  BY DEF KVTypes, unlistenCallBack
<1>2. k \in 1..Len(call[c]) /\ call[c][k].pc = "timedOut"
  BY <1>1, RunningAt
<1>3. PICK s \in Server : RunsOn(c, k, s)
  BY <1>2, HandlerHome
<1>4. Unlistens(c, k, s)
  BY <1>3, UnlistenEffect
<1>5. CallBackFree(s, c) /\ Ends(c, k, "wrongLeader", <<>>)
      /\ UNCHANGED <<clerk, chosen, tail, restarts, results>>
  BY <1>4 DEF Unlistens
<1>6. /\ \A t \in Server \ {s} : kv'[t] = kv[t]
      /\ kv'[s].applied = kv[s].applied /\ kv'[s].serving = kv[s].serving
      /\ kv'[s].callBack[c].listen = FALSE
      /\ \A d \in Client \ {c} : kv'[s].callBack[d] = kv[s].callBack[d]
  BY <1>4 DEF Unlistens
<1>7. <<>> \in Data
  BY DEF Data
<1>8. /\ \A d \in Client \ {c} : call'[d] = call[d]
      /\ Len(call'[c]) = Len(call[c])
      /\ \A j \in 1..Len(call[c]) : j # k => call'[c][j] = call[c][j]
      /\ call'[c][k].op = call[c][k].op
      /\ call'[c][k].server = call[c][k].server
      /\ call'[c][k].pc \in {"wrongLeader", "gone"}
  BY <1>1, <1>2, <1>5, <1>7, EndsEffect
<1>9. HandlerMoves(c, k)
  BY <1>2, <1>5, <1>8 DEF HandlerMoves
<1>10. ServersKeep(c)
  BY <1>6, ServersKept
<1>11. \A t \in Server \ {s} : ~ListensAt(c, t) /\ ~SendsTo(c, t)
  BY <1>2, <1>3, WaitsOnlyHere
<1>12. ~SendsTo(c, s)
  <2>1. SendOK(c, s)
    BY DEF ClerksServed, ConnectionOK
  <2> QED BY <1>5, <2>1 DEF SendOK, SendsTo, CallBackFree
<1>13. \A t \in Server : ~ListensAt(c, t)' /\ ~SendsTo(c, t)'
  BY <1>6, <1>11, <1>12 DEF ListensAt, SendsTo
<1>14. \A t \in Server : ListenOK(c, t)' /\ SendOK(c, t)'
  BY <1>13 DEF ListenOK, SendOK
<1>15. AnswerOK(c)'
  BY <1>8, <1>9, NoAnswer
<1>16. InRaftOK'
  BY <1>5, RaftUntouched
<1> QED BY <1>9, <1>10, <1>14, <1>15, <1>16, HandlerServed

(* What a handler receives is the result of its Clerk's operation, at the   *)
(* place received last.                                                     *)
LEMMA ReceiveServed ==
  ASSUME KVTypes, ClerksServed, NEW c \in Client, NEW k, HandlerReceives(c, k)
  PROVE  ClerksServed'
<1>1. TypeOK /\ At(c, k, "waiting")
  BY DEF KVTypes, HandlerReceives
<1>2. k \in 1..Len(call[c]) /\ call[c][k].pc = "waiting"
  BY <1>1, RunningAt
<1>3. PICK s \in Server : RunsOn(c, k, s)
  BY <1>2, HandlerHome
<1>4. Receives(c, k, s)
  BY <1>3, ReceiveEffect
<1>5. /\ kv[s].serving \in Serving
      /\ kv[s].serving.sending /\ kv[s].serving.op.ClientId = c
      /\ Ends(c, k, "ok", kv[s].serving.value)
      /\ UNCHANGED <<clerk, chosen, tail, restarts, results>>
  BY <1>4 DEF Receives
<1>6. /\ \A t \in Server \ {s} : kv'[t] = kv[t]
      /\ kv'[s].applied = kv[s].applied /\ kv'[s].callBack = kv[s].callBack
      /\ kv'[s].serving.op = kv[s].serving.op
      /\ kv'[s].serving.value = kv[s].serving.value
      /\ kv'[s].serving.sending = FALSE
  BY <1>4 DEF Receives
<1>7. PICK v \in Data : v = kv[s].serving.value
  BY <1>5 DEF Serving
<1>8. kv[s].serving # Nil /\ kv[s].serving.sending = TRUE
  BY <1>5, NilAssumption DEF Serving
<1>9. SendsTo(c, s)
  BY <1>5, <1>8 DEF SendsTo
<1>10. /\ k = Len(call[c]) /\ clerk[c].calling
       /\ \A t \in Server \ {s} : ~ListensAt(c, t) /\ ~SendsTo(c, t)
  BY <1>2, <1>3, WaitsOnlyHere
<1>11. /\ \A d \in Client \ {c} : call'[d] = call[d]
       /\ Len(call'[c]) = Len(call[c])
       /\ \A j \in 1..Len(call[c]) : j # k => call'[c][j] = call[c][j]
       /\ call'[c][k].op = call[c][k].op
       /\ call'[c][k].server = call[c][k].server
       /\ call'[c][k].pc = "ok" /\ call'[c][k].value = v
  <2>1. Ends(c, k, "ok", v)
    BY <1>5, <1>7
  <2> QED BY <1>1, <1>2, <1>10, <2>1, EndsEffect
<1>12. HandlerMoves(c, k)
  BY <1>2, <1>5, <1>11 DEF HandlerMoves
<1>13. ServersKeep(c)
  <2>1. \A t \in Server : ServingStays(t)
    BY <1>6, <1>8 DEF ServingStays
  <2>2. ASSUME NEW t \in Server, NEW d \in Client \ {c}
        PROVE  /\ kv'[t].callBack[d] = kv[t].callBack[d]
               /\ SendsTo(d, t)' => SendsTo(d, t) /\ kv'[t].serving = kv[t].serving
    <3>1. CASE t # s
      BY <1>6, <3>1 DEF SendsTo
    <3>2. CASE t = s
      BY <1>6, <3>2 DEF SendsTo
    <3> QED BY <3>1, <3>2
  <2> QED BY <2>1, <2>2 DEF ServersKeep
<1>14. /\ kv[s].serving.op = clerk[c].op /\ ~ListensAt(c, s)
  <2>1. SendOK(c, s)
    BY DEF ClerksServed, ConnectionOK
  <2> QED BY <1>9, <2>1 DEF SendOK
<1>15. \A t \in Server : ~ListensAt(c, t)' /\ ~SendsTo(c, t)'
  BY <1>6, <1>10, <1>14 DEF ListensAt, SendsTo
<1>16. \A t \in Server : ListenOK(c, t)' /\ SendOK(c, t)'
  BY <1>15 DEF ListenOK, SendOK
<1>17. AnswerOK(c)'
  <2>1. PICK n \in Nat : n = kv[s].applied
    BY <1>1 DEF TypeOK, KVServer
  <2>2. /\ n > 0 /\ clerk[c].op = chosen[n]
        /\ clerk[c].op.Op = "Get" => v = Replay(n - 1, clerk[c].op.Key)
    <3>1. ServingOK(s)
      BY DEF ClerksServed
    <3> QED BY <1>7, <1>8, <1>14, <2>1, <3>1 DEF ServingOK
  <2>3. n <= Len(chosen) /\ Len(chosen) \in Nat
    BY <1>1, <2>1 DEF KVTypes, ReceivedOK, TypeOK
  <2>4. Latest(c)'.value = v
    BY <1>10, <1>11 DEF Latest
  <2>5. Replay(n - 1, clerk[c].op.Key)' = Replay(n - 1, clerk[c].op.Key)
    <3>1. PICK m \in Nat : m = n - 1
      BY <2>2
    <3>2. PICK key : key = clerk[c].op.Key
      OBVIOUS
    <3>3. Replay(m, key)' = Replay(m, key)
      BY <1>5, ReplayStable
    <3>4. Replay(n - 1, clerk[c].op.Key)' = Replay(m, key)'
          /\ Replay(n - 1, clerk[c].op.Key) = Replay(m, key)
      BY <1>5, <3>1, <3>2
    <3> QED BY <3>3, <3>4
  <2>6. AnsweredAt(c, n)'
    BY <1>5, <2>2, <2>4, <2>5 DEF AnsweredAt
  <2>7. n \in 1..Len(chosen')
    BY <1>5, <2>2, <2>3
  <2> QED BY <2>6, <2>7 DEF AnswerOK
<1>18. InRaftOK'
  BY <1>5, RaftUntouched
<1> QED BY <1>12, <1>13, <1>16, <1>17, <1>18, HandlerServed

(* Steps of servers and of Raft.                                            *)
LEMMA AllElsewhere ==
  ASSUME KVTypes, ClerksServed, ChosenGrows, \A c \in Client : Elsewhere(c),
         \A s \in Server : ServingStays(s), InRaftOK', results' = results
  PROVE  ClerksServed'
<1>1. ASSUME NEW c \in Client PROVE ConnectionOK(c)'
  <2>1. ConnectionOK(c) /\ Elsewhere(c)
    BY DEF ClerksServed
  <2> QED BY <2>1, ConnectionKept
<1>2. ASSUME NEW s \in Server PROVE ServingOK(s)'
  <2>1. ServingOK(s) /\ ServingStays(s)
    BY DEF ClerksServed
  <2> QED BY <2>1, ServingKept DEF ServingStays
<1>3. ResultsOK'
  BY ResultsKept DEF ClerksServed
<1> QED BY <1>1, <1>2, <1>3 DEF ClerksServed

(* What is committed was in a log before.                                   *)
LEMMA CommitServed ==
  ASSUME KVTypes, ClerksServed, NEW s \in Server, Commit(s)
  PROVE  ClerksServed'
<1>1. Commits(s)
  BY CommitEffect DEF KVTypes
<1>2. /\ 1 \in 1..Len(tail[s])
      /\ Len(chosen') = Len(chosen) + 1
      /\ chosen'[Len(chosen) + 1] = tail[s][1]
      /\ \A q \in 1..Len(chosen) : chosen'[q] = chosen[q]
      /\ \A t \in Server : \A q \in 1..Len(tail'[t]) :
            t = s /\ q + 1 \in 1..Len(tail[s]) /\ tail'[t][q] = tail[s][q + 1]
      /\ UNCHANGED <<clerk, call, kv, restarts, results>>
  BY <1>1 DEF Commits
<1>3. Len(chosen) \in Nat
  BY DEF KVTypes, TypeOK
<1>4. ChosenGrows
  BY <1>2, <1>3 DEF ChosenGrows
<1>5. \A c \in Client : Elsewhere(c)
  BY <1>2 DEF Elsewhere, SendsTo
<1>6. \A t \in Server : ServingStays(t)
  BY <1>2 DEF ServingStays
<1>7. InRaftOK
  BY DEF ClerksServed
<1>8. ASSUME NEW q \in 1..Len(chosen') PROVE NotAhead(chosen[q])'
  <2>1. PICK o : o = chosen'[q]
    OBVIOUS
  <2>2. NotAhead(o)
    <3>1. CASE q = Len(chosen) + 1
      BY <1>2, <1>7, <2>1, <3>1 DEF InRaftOK
    <3>2. CASE q # Len(chosen) + 1
      <4>1. q \in 1..Len(chosen)
        BY <1>2, <1>3, <3>2
      <4> QED BY <1>2, <1>7, <2>1, <4>1 DEF InRaftOK
    <3> QED BY <3>1, <3>2
  <2> QED BY <1>2, <2>1, <2>2 DEF NotAhead
<1>9. ASSUME NEW t \in Server, NEW q \in 1..Len(tail'[t]) PROVE NotAhead(tail[t][q])'
  <2>1. PICK o : o = tail'[t][q]
    OBVIOUS
  <2>2. NotAhead(o)
    BY <1>2, <1>7, <2>1 DEF InRaftOK
  <2> QED BY <1>2, <2>1, <2>2 DEF NotAhead
<1>10. InRaftOK'
  BY <1>8, <1>9 DEF InRaftOK
<1> QED BY <1>2, <1>4, <1>5, <1>6, <1>10, AllElsewhere

(* Offer and the end of the loop's body touch no connection.                *)
LEMMA QuietServer ==
  ASSUME KVTypes, ClerksServed, NEW s \in Server,
         \A t \in Server \ {s} : kv'[t] = kv[t],
         kv'[s].applied = kv[s].applied, kv'[s].callBack = kv[s].callBack,
         kv'[s].serving \in {kv[s].serving, Nil},
         UNCHANGED <<clerk, call, chosen, tail, results>>
  PROVE  ClerksServed'
<1>1. ChosenGrows
  BY DEF ChosenGrows, KVTypes, TypeOK
<1>2. \A t \in Server : ServingStays(t)
  BY DEF ServingStays
<1>3. ASSUME NEW c \in Client PROVE Elsewhere(c)
  <2>1. \A t \in Server : SendsTo(c, t)' =>
           SendsTo(c, t) /\ kv'[t].serving = kv[t].serving
    BY DEF SendsTo
  <2>2. \A t \in Server : kv'[t].callBack[c] = kv[t].callBack[c]
    OBVIOUS
  <2> QED BY <2>1, <2>2 DEF Elsewhere
<1>4. InRaftOK'
  BY RaftUntouched
<1> QED BY <1>1, <1>2, <1>3, <1>4, AllElsewhere

(* An offer touches no connection.                                          *)
LEMMA OfferServed ==
  ASSUME KVTypes, ClerksServed, NEW s \in Server, Offer(s)
  PROVE  ClerksServed'
<1>1. /\ \A t \in Server \ {s} : kv'[t] = kv[t]
      /\ kv'[s].applied = kv[s].applied /\ kv'[s].callBack = kv[s].callBack
      /\ kv'[s].serving = kv[s].serving
      /\ UNCHANGED <<clerk, call, chosen, tail, restarts, results>>
  BY OfferEffect DEF KVTypes
<1> QED BY <1>1, QuietServer

(* The end of the loop's body touches no connection.                        *)
LEMMA ApplyDoneServed ==
  ASSUME KVTypes, ClerksServed, NEW s \in Server, ApplyDone(s)
  PROVE  ClerksServed'
<1>1. /\ \A t \in Server \ {s} : kv'[t] = kv[t]
      /\ kv'[s].applied = kv[s].applied /\ kv'[s].callBack = kv[s].callBack
      /\ kv'[s].serving = Nil
      /\ UNCHANGED <<clerk, call, chosen, tail, restarts, results>>
  BY ApplyDoneEffect DEF KVTypes
<1> QED BY <1>1, QuietServer

(* A server that starts again takes its handlers with it.                   *)
LEMMA RebornServed ==
  ASSUME KVTypes, ClerksServed, NEW s \in Server, Reborn(s)
  PROVE  ClerksServed'
<1>1. /\ \A t \in Server \ {s} : kv'[t] = kv[t]
      /\ kv'[s].callBack = [c \in Client |-> Nil]
      /\ kv'[s].serving = Nil
      /\ \A c \in Client :
            /\ Len(call'[c]) = Len(call[c])
            /\ \A k \in 1..Len(call[c]) :
                  /\ call'[c][k].op = call[c][k].op
                  /\ call'[c][k].server = call[c][k].server
                  /\ call[c][k].server = s =>
                        call'[c][k].pc = IF call[c][k].pc = "gone" THEN "gone" ELSE "killed"
                  /\ call[c][k].server # s => call'[c][k] = call[c][k]
      /\ UNCHANGED <<clerk, chosen, tail, results>>
  BY RebornEffect DEF KVTypes
<1>2. ChosenGrows
  BY <1>1 DEF ChosenGrows, KVTypes, TypeOK
<1>3. ASSUME NEW c \in Client PROVE ConnectionOK(c)'
  <2>1. ConnectionOK(c) /\ OneHandler(c) /\ AnswerOK(c) /\ SinceOK(c)
    BY DEF ClerksServed, ConnectionOK
  <2>2. call[c] \in Seq(Handler)
    BY DEF KVTypes, TypeOK
  <2>3. clerk[c].calling =>
           /\ Latest(c)'.op = Latest(c).op /\ Latest(c)'.server = Latest(c).server
           /\ Latest(c).server # s => Latest(c)' = Latest(c)
           /\ Latest(c).server = s => Latest(c)'.pc \in {"gone", "killed"}
    <3> HAVE clerk[c].calling
    <3>1. call[c] # <<>>
      BY DEF KVTypes, ClerksOK
    <3>2. PICK k \in 1..Len(call[c]) : k = Len(call[c])
      BY <2>2, <3>1
    <3>3. Latest(c) = call[c][k] /\ Latest(c)' = call'[c][k]
      BY <1>1, <3>2 DEF Latest
    <3> QED BY <1>1, <3>3
  <2>4. OneHandler(c)'
    <3>1. \A k \in 1..Len(call'[c]) : call'[c][k].pc # "gone" =>
             k \in 1..Len(call[c]) /\ call[c][k].pc # "gone"
      BY <1>1
    <3> QED BY <1>1, <2>1, <2>3, <3>1 DEF OneHandler
  <2>5. AnswerOK(c)'
    <3>1. clerk'[c].calling /\ Latest(c)'.pc = "ok" =>
             clerk[c].calling /\ Latest(c).pc = "ok" /\ Latest(c)'.value = Latest(c).value
      BY <1>1, <2>3
    <3> QED BY <1>1, <1>2, <2>1, <3>1, AnswerKept
  <2>6. SinceOK(c)'
    BY <1>1, <1>2, <2>1, SinceKept
  <2>7. ASSUME NEW t \in Server PROVE ListenOK(c, t)' /\ SendOK(c, t)'
    <3>1. CASE t = s
      BY <1>1, <3>1 DEF ListenOK, SendOK, ListensAt, SendsTo
    <3>2. CASE t # s
      <4>1. kv'[t] = kv[t] /\ clerk' = clerk
        BY <1>1, <3>2
      <4>2. WaitsAt(c, t) => WaitsAt(c, t)'
        BY <2>3, <3>2, <4>1 DEF WaitsAt
      <4>3. ListenOK(c, t) /\ SendOK(c, t)
        BY <2>1 DEF ConnectionOK
      <4>4. (ListensAt(c, t)' <=> ListensAt(c, t)) /\ (SendsTo(c, t)' <=> SendsTo(c, t))
        BY <4>1 DEF ListensAt, SendsTo
      <4>5. ListenOK(c, t)'
        BY <4>1, <4>2, <4>3, <4>4 DEF ListenOK
      <4>6. SendOK(c, t)'
        BY <4>1, <4>2, <4>3, <4>4 DEF SendOK
      <4> QED BY <4>5, <4>6
    <3> QED BY <3>1, <3>2
  <2> QED BY <2>4, <2>5, <2>6, <2>7 DEF ConnectionOK
<1>4. ASSUME NEW t \in Server PROVE ServingOK(t)'
  <2>1. ServingOK(t)
    BY DEF ClerksServed
  <2>2. ServingStays(t)
    BY <1>1 DEF ServingStays
  <2> QED BY <1>2, <2>1, <2>2, ServingKept DEF ServingStays
<1>5. InRaftOK'
  BY <1>1, RaftUntouched
<1>6. ResultsOK'
  BY <1>1, <1>2, ResultsKept DEF ClerksServed
<1> QED BY <1>3, <1>4, <1>5, <1>6 DEF ClerksServed

(* runServer sends the result of an operation only to the handler that      *)
(* waits for it.                                                            *)
LEMMA ApplyServed ==
  ASSUME KVTypes, StoreOK, ClerksServed, NEW s \in Server, Apply(s)
  PROVE  ClerksServed'
<1>1. PICK op : op = chosen[kv[s].applied + 1]
  OBVIOUS
<1>2. Applies(s, op)
  <2>1. Applies(s, chosen[kv[s].applied + 1])
    BY ApplyEffect
  <2> QED BY <1>1, <2>1
<1>3. PICK c \in Client : c = op.ClientId
  BY <1>2 DEF Applies
<1>4. /\ kv[s].serving = Nil /\ kv[s].applied < Len(chosen) /\ op \in Ops
      /\ \A t \in Server \ {s} : kv'[t] = kv[t]
      /\ kv'[s].applied = kv[s].applied + 1
      /\ UNCHANGED <<clerk, call, chosen, tail, restarts, results>>
  BY <1>2 DEF Applies
<1>5. /\ \A d \in Client : d # c => kv'[s].callBack[d] = kv[s].callBack[d]
      /\ wanted(kv[s], op) => /\ kv'[s].callBack[c] \in CallBack
                              /\ kv'[s].callBack[c].listen = FALSE
      /\ ~wanted(kv[s], op) => kv'[s].callBack[c] = kv[s].callBack[c]
  BY <1>2, <1>3 DEF Applies
<1>6. /\ kv'[s].serving \in Serving /\ kv'[s].serving.op = op
      /\ kv'[s].serving.locked <=> kv[s].callBack[c] # Nil
      /\ kv'[s].serving.sending <=> wanted(kv[s], op)
      /\ op.Op = "Get" => kv'[s].serving.value = kv[s].db[op.Key]
  BY <1>2, <1>3 DEF Applies
<1>7. kv[s] \in KVServer /\ Len(chosen) \in Nat /\ ChosenGrows
  BY <1>4 DEF KVTypes, TypeOK, ChosenGrows
<1>8. PICK n \in Nat : n = kv[s].applied
  BY <1>7 DEF KVServer
<1>9. ASSUME NEW d \in Client, d # c PROVE ConnectionOK(d)'
  <2>1. ASSUME NEW t \in Server
        PROVE  /\ kv'[t].callBack[d] = kv[t].callBack[d]
               /\ SendsTo(d, t)' => SendsTo(d, t) /\ kv'[t].serving = kv[t].serving
    <3>1. CASE t = s
      BY <1>3, <1>5, <1>6, <1>9, <3>1 DEF SendsTo
    <3>2. CASE t # s
      BY <1>4, <3>2 DEF SendsTo
    <3> QED BY <3>1, <3>2
  <2>2. Elsewhere(d)
    BY <1>4, <2>1 DEF Elsewhere
  <2>3. ConnectionOK(d)
    BY DEF ClerksServed
  <2> QED BY <1>7, <2>2, <2>3, ConnectionKept
<1>10. ConnectionOK(c)'
  <2>1. ConnectionOK(c) /\ OneHandler(c) /\ AnswerOK(c) /\ SinceOK(c)
    BY DEF ClerksServed, ConnectionOK
  <2>2. Latest(c)' = Latest(c)
    BY <1>4 DEF Latest
  <2>3. OneHandler(c)'
    BY <1>4, <2>1, <2>2 DEF OneHandler
  <2>4. AnswerOK(c)'
    BY <1>4, <1>7, <2>1, <2>2, AnswerKept
  <2>5. SinceOK(c)'
    BY <1>4, <1>7, <2>1, SinceKept
  <2>6. \A t \in Server : WaitsAt(c, t)' <=> WaitsAt(c, t)
    BY <1>4, <2>2 DEF WaitsAt
  <2>7. ASSUME NEW t \in Server, t # s PROVE ListenOK(c, t)' /\ SendOK(c, t)'
    <3>1. kv'[t] = kv[t] /\ clerk' = clerk
      BY <1>4, <2>7
    <3>2. ListenOK(c, t) /\ SendOK(c, t)
      BY <2>1 DEF ConnectionOK
    <3>3. (ListensAt(c, t)' <=> ListensAt(c, t)) /\ (SendsTo(c, t)' <=> SendsTo(c, t))
      BY <3>1 DEF ListensAt, SendsTo
    <3>4. ListenOK(c, t)'
      BY <2>6, <3>1, <3>2, <3>3 DEF ListenOK
    <3>5. SendOK(c, t)'
      BY <2>6, <3>1, <3>2, <3>3 DEF SendOK
    <3> QED BY <3>4, <3>5
  <2>8. ListenOK(c, s)
    BY <2>1 DEF ConnectionOK
  <2>9. CASE wanted(kv[s], op)
    <3>1. /\ kv[s].callBack[c] # Nil /\ kv[s].callBack[c].wantSeq = op.ClientSeq
          /\ kv[s].callBack[c].listen
      BY <1>3, <2>9 DEF wanted
    <3>2. kv[s].callBack[c] \in CallBack
      BY <1>7, <3>1 DEF KVServer
    <3>3. ListensAt(c, s)
      BY <3>1, <3>2 DEF ListensAt, CallBack
    <3>4. WaitsAt(c, s) /\ op.ClientSeq = clerk[c].op.ClientSeq
      BY <2>8, <3>1, <3>3 DEF ListenOK
    <3>5. clerk[c].op # Nil
      BY <3>4 DEF WaitsAt, KVTypes, ClerksOK
    <3>6. op = clerk[c].op
      <4>1. n + 1 \in 1..Len(chosen) /\ op = chosen[n + 1]
        BY <1>1, <1>4, <1>7, <1>8
      <4>2. NotAhead(op)
        BY <4>1 DEF ClerksServed, InRaftOK
      <4> QED BY <1>3, <3>4, <3>5, <4>2 DEF NotAhead
    <3>7. kv'[s].callBack[c] # Nil /\ ~ListensAt(c, s)'
      BY <1>5, <2>9, NilAssumption DEF ListensAt
    <3>8. kv'[s].serving.locked = TRUE
      BY <1>6, <3>1 DEF Serving
    <3>9. ListenOK(c, s)' /\ SendOK(c, s)'
      BY <1>4, <1>6, <2>6, <3>4, <3>6, <3>7, <3>8 DEF ListenOK, SendOK
    <3> QED BY <2>3, <2>4, <2>5, <2>7, <3>9 DEF ConnectionOK
  <2>10. CASE ~wanted(kv[s], op)
    <3>1. ~SendsTo(c, s)'
      BY <1>6, <2>10 DEF SendsTo
    <3>2. kv'[s].callBack[c] = kv[s].callBack[c]
      BY <1>5, <2>10
    <3>3. ListensAt(c, s)' <=> ListensAt(c, s)
      BY <3>2 DEF ListensAt
    <3>4. ListenOK(c, s)' /\ SendOK(c, s)'
      BY <1>4, <2>6, <2>8, <3>1, <3>2, <3>3 DEF ListenOK, SendOK
    <3> QED BY <2>3, <2>4, <2>5, <2>7, <3>4 DEF ConnectionOK
  <2> QED BY <2>9, <2>10
<1>11. ASSUME NEW t \in Server, t # s PROVE ServingOK(t)'
  <2>1. ServingOK(t)
    BY DEF ClerksServed
  <2>2. kv'[t] = kv[t]
    BY <1>4, <1>11
  <2> QED BY <1>7, <2>1, <2>2, ServingKept
<1>12. ServingOK(s)'
  <2>1. PICK key \in Key : key = op.Key
    BY <1>4 DEF Ops
  <2>2. kv[s].db[key] = Replay(n, key)
    BY <1>8 DEF StoreOK, StoreAt
  <2>3. Replay(n, key)' = Replay(n, key)
    BY <1>4, ReplayStable
  <2>4. kv'[s].applied = n + 1 /\ (n + 1) - 1 = n
    BY <1>4, <1>8
  <2>5. Replay(kv[s].applied - 1, kv[s].serving.op.Key)' = Replay(n, key)'
    BY <1>6, <2>1, <2>4
  <2>6. kv'[s].applied > 0 /\ kv'[s].serving.op = chosen'[kv'[s].applied]
    BY <1>1, <1>4, <1>6, <1>8
  <2>7. kv'[s].serving.op.Op = "Get" =>
           kv'[s].serving.value = Replay(kv[s].applied - 1, kv[s].serving.op.Key)'
    BY <1>6, <2>1, <2>2, <2>3, <2>5
  <2> QED BY <2>6, <2>7 DEF ServingOK
<1>13. InRaftOK'
  BY <1>4, RaftUntouched
<1>14. ResultsOK'
  BY <1>4, <1>7, ResultsKept DEF ClerksServed
<1> QED BY <1>9, <1>10, <1>11, <1>12, <1>13, <1>14 DEF ClerksServed

(* All Clerks are well served initially.                                    *)
LEMMA ServedInit == Init => ClerksServed
<1> SUFFICES ASSUME Init PROVE ClerksServed
  OBVIOUS
<1>1. \A c \in Client : clerk[c].op = Nil /\ clerk[c].calling = FALSE /\ call[c] = <<>>
  BY DEF Init, MakeClerk
<1>2. \A s \in Server : kv[s].serving = Nil /\ kv[s].callBack = [c \in Client |-> Nil]
  BY DEF Init, StartKVServer
<1>3. ASSUME NEW c \in Client PROVE ConnectionOK(c)
  <2>1. OneHandler(c) /\ AnswerOK(c) /\ SinceOK(c)
    BY <1>1 DEF OneHandler, AnswerOK, SinceOK
  <2>2. \A s \in Server : ListenOK(c, s) /\ SendOK(c, s)
    BY <1>2 DEF ListenOK, SendOK, ListensAt, SendsTo
  <2> QED BY <2>1, <2>2 DEF ConnectionOK
<1>4. \A s \in Server : ServingOK(s)
  BY <1>2 DEF ServingOK
<1>5. InRaftOK
  BY DEF Init, InRaftOK
<1>6. ResultsOK
  BY DEF Init, ResultsOK, AcknowledgedIsExecuted, ReadsAreCurrent
<1> QED BY <1>3, <1>4, <1>5, <1>6 DEF ClerksServed

(* Without partitions, every step keeps the Clerks well served.             *)
LEMMA ServedStep ==
  ASSUME ~Partitions
  PROVE  KVTypes /\ StoreOK /\ ClerksServed /\ [Next]_vars => ClerksServed'
<1> SUFFICES ASSUME KVTypes, StoreOK, ClerksServed, [Next]_vars PROVE ClerksServed'
  OBVIOUS
<1>1. ASSUME NEW c \in Client, ClerkStep(c) PROVE ClerksServed'
  <2>1. CASE \E method \in Method, key \in Key : Invoke(c, method, key)
    BY <2>1, InvokeServed
  <2>2. CASE Call(c)
    BY <2>2, CallServed
  <2>3. CASE RequestLost(c)
    BY <2>3, RequestLostServed
  <2>4. CASE ReplyArrives(c)
    BY <2>4, ReplyArrivesServed
  <2>5. CASE ReplyLost(c)
    BY <2>5, ReplyLostServed
  <2> QED BY <1>1, <2>1, <2>2, <2>3, <2>4, <2>5 DEF ClerkStep
<1>2. ASSUME NEW c \in Client, NEW k \in 1..MaxCalls, HandlerStep(c, k) PROVE ClerksServed'
  <2>1. CASE WrongLeader(c, k)
    BY <2>1, WrongLeaderServed
  <2>2. CASE HandlerStart(c, k)
    BY <2>2, HandlerStartServed
  <2>3. CASE listenCallBack(c, k)
    BY <2>3, ListenServed
  <2>4. CASE HandlerTimeout(c, k)
    BY <2>4, TimeoutServed
  <2>5. CASE unlistenCallBack(c, k)
    BY <2>5, UnlistenServed
  <2>6. CASE HandlerReceives(c, k)
    BY <2>6, ReceiveServed
  <2> QED BY <1>2, <2>1, <2>2, <2>3, <2>4, <2>5, <2>6 DEF HandlerStep
<1>3. ASSUME NEW s \in Server, Commit(s) \/ ServerStep(s) \/ Restart(s) PROVE ClerksServed'
  <2>1. CASE Commit(s)
    BY <2>1, CommitServed
  <2>2. CASE Offer(s)
    BY <2>2, OfferServed
  <2>3. CASE Apply(s)
    BY <2>3, ApplyServed
  <2>4. CASE ApplyDone(s)
    BY <2>4, ApplyDoneServed
  <2>5. CASE FatalUnlock(s) \/ Restart(s)
    <3>1. Reborn(s)
      BY <2>5 DEF FatalUnlock, Restart
    <3> QED BY <3>1, RebornServed
  <2> QED BY <1>3, <2>1, <2>2, <2>3, <2>4, <2>5 DEF ServerStep
<1>4. CASE UNCHANGED vars
  <2>1. UNCHANGED <<clerk, call, kv, chosen, tail, restarts, results>>
    BY <1>4 DEF vars
  <2>2. ChosenGrows
    BY <2>1 DEF ChosenGrows, KVTypes, TypeOK
  <2>3. \A c \in Client : Elsewhere(c)
    BY <2>1 DEF Elsewhere, SendsTo
  <2>4. \A s \in Server : ServingStays(s)
    BY <2>1 DEF ServingStays
  <2>5. InRaftOK'
    BY <2>1, RaftUntouched
  <2> QED BY <2>1, <2>2, <2>3, <2>4, <2>5, AllElsewhere
<1> QED BY <1>1, <1>2, <1>3, <1>4 DEF Next

(* Without partitions, the Clerks are always well served.                   *)
LEMMA AlwaysServed ==
  ASSUME ~Partitions
  PROVE  Spec => []ClerksServed
<1>1. Init => KVTypes /\ StoreOK /\ ClerksServed
  BY InitTypes, StoreInit, ServedInit
<1>2. KVTypes /\ StoreOK /\ ClerksServed /\ [Next]_vars => (KVTypes /\ StoreOK /\ ClerksServed)'
  BY TypesStep, StoreStep, ServedStep
<1> QED BY <1>1, <1>2, PTL DEF Spec

(* What a Clerk returned from is committed and executed by every server     *)
(* that gets there, with any number of servers, Clerks, retries and         *)
(* restarts, as long as labrpc does not cut a Clerk off from a handler that *)
(* still runs (ClientSeq and wantSeq in runServer and PutAppend).           *)
THEOREM AcknowledgedExecuted ==
  ASSUME ~Partitions
  PROVE  Spec => []AcknowledgedIsExecuted
<1>1. ClerksServed => AcknowledgedIsExecuted
  BY DEF ClerksServed, ResultsOK
<1> QED BY <1>1, AlwaysServed, PTL

(* A Get returns what its key held at a moment between call and return,     *)
(* whichever server answers and however often it was retried, under the     *)
(* same hypothesis (Get, runServer and listenCallBack).                     *)
THEOREM GetsAreCurrent ==
  ASSUME ~Partitions
  PROVE  Spec => []ReadsAreCurrent
<1>1. ClerksServed => ReadsAreCurrent
  BY DEF ClerksServed, ResultsOK
<1> QED BY <1>1, AlwaysServed, PTL

=============================================================================
