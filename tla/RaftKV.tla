------------------------------- MODULE RaftKV -------------------------------
(***************************************************************************)
(* The replicated key/value service of src/2019104236/src/kvraft: Clerks    *)
(* that retry for ever, the handlers Get and PutAppend, and the goroutine   *)
(* runServer that executes what Raft delivers.                              *)
(*                                                                          *)
(* Raft appears as what it promises the service: one sequence of committed  *)
(* operations (chosen), and on each server the operations that Start took   *)
(* and that are not committed yet (tail).  Committing one of them           *)
(* overwrites what other servers took.  GetState may say anything.          *)
(*                                                                          *)
(* A handler and runServer meet at callBack[client]: an unbuffered channel  *)
(* and a mutex per client.  runServer holds that mutex while it sends.      *)
(* The service never takes snapshots here (maxraftstate = -1).              *)
(***************************************************************************)
EXTENDS Integers, Sequences, FiniteSets, SequencesExt

CONSTANTS
    Server,       \* the RaftKV servers
    Client,       \* the Clerks
    Key,          \* keys of the store
    Method,       \* the operations Clerks use, a subset of Get, Put, Append
    Nil,          \* no server, no operation, no entry in the map callBack
    Partitions,   \* TRUE: labrpc may cut a Clerk off while its handler runs
    MaxOps,       \* bound: operations of all Clerks
    MaxCalls,     \* bound: calls of all Clerks
    MaxRestarts   \* bound: servers killed and restarted

ASSUME MethodAssumption == Method \subseteq {"Get", "Put", "Append"}
ASSUME PartitionsAssumption == Partitions \in BOOLEAN
ASSUME BoundAssumption == {MaxOps, MaxCalls, MaxRestarts} \subseteq Nat

VARIABLES
    clerk,      \* clerk[c]: a Clerk, and the operation it is busy with
    call,       \* call[c]: the handlers of all calls of c, the latest last
    kv,         \* kv[s]: the RaftKV object of s
    chosen,     \* the committed operations
    tail,       \* tail[s]: operations in the log of s that are not committed
    restarts,   \* servers killed so far
    results     \* history: what the Clerks returned to their callers

vars == <<clerk, call, kv, chosen, tail, restarts, results>>

-----------------------------------------------------------------------------
(* Every Put and Append of a Clerk writes a value of its own.               *)
Value(op) == <<op.ClientId, op.ClientSeq>>

Ops == [Op : Method, Key : Key, ClientId : Client, ClientSeq : Nat]

(* Data of a key, entries of the map callBack, operations in execution.     *)
Data == Seq(Client \X Nat)

CallBack == [listen : BOOLEAN, wantSeq : Nat]

Serving == [op : Ops, locked : BOOLEAN, sending : BOOLEAN, value : Data]

ASSUME NilAssumption ==
    Nil \notin Server /\ Nil \notin Ops /\ Nil \notin CallBack /\ Nil \notin Serving

newCallBack == [listen |-> FALSE, wantSeq |-> 0]

(* seqCheck is -1 for a client that is not in the map.                      *)
StartKVServer ==
    [db       |-> [k \in Key |-> <<>>],
     seqCheck |-> [c \in Client |-> -1],
     callBack |-> [c \in Client |-> Nil],
     applied  |-> 0,
     offered  |-> FALSE,
     serving  |-> Nil]

MakeClerk == [seq |-> 0, op |-> Nil, leader |-> Nil, calling |-> FALSE, since |-> 0]

Init ==
    /\ clerk = [c \in Client |-> MakeClerk]
    /\ call = [c \in Client |-> <<>>]
    /\ kv = [s \in Server |-> StartKVServer]
    /\ chosen = <<>>
    /\ tail = [s \in Server |-> <<>>]
    /\ restarts = 0
    /\ results = {}

-----------------------------------------------------------------------------
(* The Clerk.                                                               *)

(* A caller of Get, Put or Append: the next sequence number is taken.       *)
Invoke(c, method, key) ==
    /\ clerk[c].op = Nil
    /\ MapThenSumSet(LAMBDA d : clerk[d].seq, Client) < MaxOps
    /\ clerk' = [clerk EXCEPT ![c].op = [Op |-> method, Key |-> key, ClientId |-> c,
                                         ClientSeq |-> clerk[c].seq],
                              ![c].seq = @ + 1,
                              ![c].since = Len(chosen)]
    /\ UNCHANGED <<call, kv, chosen, tail, restarts, results>>

(* One round of the Clerk's loop reaches a server.                          *)
Call(c) ==
    /\ clerk[c].op # Nil /\ ~clerk[c].calling
    /\ MapThenSumSet(LAMBDA d : Len(call[d]), Client) < MaxCalls
    /\ \E addr \in Server :
          /\ clerk[c].leader \in {Nil, addr}
          /\ call' = [call EXCEPT ![c] = Append(@,
                        [op |-> clerk[c].op, server |-> addr, pc |-> "called", value |-> <<>>])]
    /\ clerk' = [clerk EXCEPT ![c].calling = TRUE]
    /\ UNCHANGED <<kv, chosen, tail, restarts, results>>

CallFails(c) ==
    clerk' = [clerk EXCEPT ![c].calling = FALSE, ![c].leader = Nil]

(* labrpc loses the request.                                                *)
RequestLost(c) ==
    /\ clerk[c].op # Nil /\ ~clerk[c].calling
    /\ CallFails(c)
    /\ UNCHANGED <<call, kv, chosen, tail, restarts, results>>

Latest(c) == call[c][Len(call[c])]

(* The caller of the latest handler no longer waits.                        *)
Forget(c) ==
    call' = [call EXCEPT ![c][Len(call[c])] =
                IF @.pc \in {"ok", "wrongLeader", "killed"}
                THEN [@ EXCEPT !.pc = "gone", !.value = <<>>] ELSE @]

ReplyArrives(c) ==
    /\ clerk[c].calling
    /\ \/ /\ Latest(c).pc = "ok"
          /\ clerk' = [clerk EXCEPT ![c].op = Nil, ![c].calling = FALSE,
                                    ![c].leader = Latest(c).server]
          /\ results' = results \cup {[op |-> clerk[c].op, value |-> Latest(c).value,
                                       since |-> clerk[c].since]}
       \/ /\ Latest(c).pc = "wrongLeader"
          /\ CallFails(c)
          /\ UNCHANGED results
    /\ Forget(c)
    /\ UNCHANGED <<kv, chosen, tail, restarts>>

(* labrpc loses the reply, the server was deleted, or the connection is     *)
(* found disabled while the handler is still running.                       *)
ReplyLost(c) ==
    /\ clerk[c].calling
    /\ Latest(c).pc \in {"ok", "wrongLeader", "killed"} \/ Partitions
    /\ CallFails(c)
    /\ Forget(c)
    /\ UNCHANGED <<kv, chosen, tail, restarts, results>>

-----------------------------------------------------------------------------
(* The handlers.  GetState and Start need rf.mu, which Raft holds while it  *)
(* offers an operation on applyCh.                                          *)

(* A handler ends; labrpc has nobody to reply to if the caller gave up.     *)
Ends(c, k, pc, value) ==
    call' = [call EXCEPT ![c][k] =
                IF clerk[c].calling /\ k = Len(call[c])
                THEN [@ EXCEPT !.pc = pc, !.value = value]
                ELSE [@ EXCEPT !.pc = "gone"]]

At(c, k, pc) == k \in 1..Len(call[c]) /\ call[c][k].pc = pc

(* callBack[c].mu is free: runServer is the only one to keep it.            *)
CallBackFree(s, c) ==
    kv[s].serving # Nil => ~(kv[s].serving.locked /\ kv[s].serving.op.ClientId = c)

WrongLeader(c, k) ==
    /\ At(c, k, "called")
    /\ ~kv[call[c][k].server].offered
    /\ Ends(c, k, "wrongLeader", <<>>)
    /\ UNCHANGED <<clerk, kv, chosen, tail, restarts, results>>

(* Seeded fault: a server that believes it leads answers a Get by itself.   *)
HandlerStart_LocalGet(c, k) ==
    LET s == call[c][k].server IN
    /\ At(c, k, "called")
    /\ ~kv[s].offered
    /\ \/ /\ call[c][k].op.Op = "Get"
          /\ Ends(c, k, "ok", kv[s].db[call[c][k].op.Key])
          /\ UNCHANGED <<kv, tail>>
       \/ /\ call[c][k].op.Op # "Get"
          /\ kv' = [kv EXCEPT ![s].callBack[c] = IF @ = Nil THEN newCallBack ELSE @]
          /\ tail' \in {tail, [tail EXCEPT ![s] = Append(@, call[c][k].op)]}
          /\ call' = [call EXCEPT ![c][k].pc = "started"]
    /\ UNCHANGED <<clerk, chosen, restarts, results>>

(* From kv.mu.Lock to kv.mu.Unlock.  Nobody looks at what Start returns, so *)
(* the handler goes on when Start refuses.                                  *)
HandlerStart(c, k) ==
    LET s == call[c][k].server IN
    /\ At(c, k, "called")
    /\ ~kv[s].offered
    /\ kv' = [kv EXCEPT ![s].callBack[c] = IF @ = Nil THEN newCallBack ELSE @]
    /\ tail' \in {tail, [tail EXCEPT ![s] = Append(@, call[c][k].op)]}
    /\ call' = [call EXCEPT ![c][k].pc = "started"]
    /\ UNCHANGED <<clerk, chosen, restarts, results>>

(* Seeded fault: the handler asks for the operation before its own.         *)
listenCallBack_OffByOne(c, k) ==
    LET s == call[c][k].server IN
    /\ At(c, k, "started")
    /\ CallBackFree(s, c)
    /\ kv' = [kv EXCEPT ![s].callBack[c] =
                [listen |-> TRUE, wantSeq |-> call[c][k].op.ClientSeq - 1]]
    /\ call' = [call EXCEPT ![c][k].pc = "waiting"]
    /\ UNCHANGED <<clerk, chosen, tail, restarts, results>>

listenCallBack(c, k) ==
    LET s == call[c][k].server IN
    /\ At(c, k, "started")
    /\ CallBackFree(s, c)
    /\ kv' = [kv EXCEPT ![s].callBack[c] =
                [listen |-> TRUE, wantSeq |-> call[c][k].op.ClientSeq]]
    /\ call' = [call EXCEPT ![c][k].pc = "waiting"]
    /\ UNCHANGED <<clerk, chosen, tail, restarts, results>>

(* Two seconds pass.                                                        *)
HandlerTimeout(c, k) ==
    /\ At(c, k, "waiting")
    /\ call' = [call EXCEPT ![c][k].pc = "timedOut"]
    /\ UNCHANGED <<clerk, kv, chosen, tail, restarts, results>>

unlistenCallBack(c, k) ==
    LET s == call[c][k].server IN
    /\ At(c, k, "timedOut")
    /\ CallBackFree(s, c)
    /\ kv' = [kv EXCEPT ![s].callBack[c].listen = FALSE]
    /\ Ends(c, k, "wrongLeader", <<>>)
    /\ UNCHANGED <<clerk, chosen, tail, restarts, results>>

(* A handler of c, any one, receives what runServer sends for c.            *)
HandlerReceives(c, k) ==
    LET s == call[c][k].server IN
    /\ At(c, k, "waiting")
    /\ kv[s].serving # Nil
    /\ kv[s].serving.sending /\ kv[s].serving.op.ClientId = c
    /\ Ends(c, k, "ok", kv[s].serving.value)
    /\ kv' = [kv EXCEPT ![s].serving.sending = FALSE]
    /\ UNCHANGED <<clerk, chosen, tail, restarts, results>>

-----------------------------------------------------------------------------
(* Raft.                                                                    *)

(* The oldest uncommitted operation of s is committed.  Whatever other      *)
(* servers took at that place of the log is overwritten.                    *)
Commit(s) ==
    /\ tail[s] # <<>>
    /\ chosen' = Append(chosen, Head(tail[s]))
    /\ tail' = [t \in Server |-> IF t = s THEN Tail(tail[s]) ELSE <<>>]
    /\ UNCHANGED <<clerk, call, kv, restarts, results>>

(* s knows that the next operation is committed and sends it on applyCh.    *)
Offer(s) ==
    /\ ~kv[s].offered
    /\ kv[s].applied < Len(chosen)
    /\ kv' = [kv EXCEPT ![s].offered = TRUE]
    /\ UNCHANGED <<clerk, call, chosen, tail, restarts, results>>

-----------------------------------------------------------------------------
(* runServer.                                                               *)

(* Seeded fault: an operation with the last sequence number is executed.    *)
fresh_OffByOne(o, op) == op.ClientSeq >= o.seqCheck[op.ClientId]

fresh(o, op) == op.ClientSeq >= o.seqCheck[op.ClientId] + 1

execute(db, op) ==
    CASE op.Op = "Get"    -> db
      [] op.Op = "Put"    -> [db EXCEPT ![op.Key] = <<Value(op)>>]
      [] op.Op = "Append" -> [db EXCEPT ![op.Key] = Append(@, Value(op))]

(* Seeded fault: whoever listens is answered.                               *)
wanted_Any(o, op) ==
    /\ o.callBack[op.ClientId] # Nil
    /\ o.callBack[op.ClientId].listen

(* A handler of the client waits for this very operation.                   *)
wanted(o, op) ==
    /\ o.callBack[op.ClientId] # Nil
    /\ o.callBack[op.ClientId].wantSeq = op.ClientSeq
    /\ o.callBack[op.ClientId].listen

(* An operation is received and executed; if it is wanted, its result is    *)
(* sent from now on, with callBack[c].mu held.                              *)
Apply(s) ==
    LET o        == kv[s]
        op       == chosen[o.applied + 1]
        c        == op.ClientId
        exec     == fresh(o, op)
        callback == wanted(o, op)
    IN  /\ o.offered /\ o.serving = Nil
        /\ kv' = [kv EXCEPT ![s] =
             [o EXCEPT !.offered = FALSE,
                       !.applied = @ + 1,
                       !.seqCheck[c] = IF exec THEN op.ClientSeq ELSE @,
                       !.db = IF exec THEN execute(@, op) ELSE @,
                       !.callBack[c] = IF callback THEN [@ EXCEPT !.listen = FALSE] ELSE @,
                       !.serving = [op      |-> op,
                                    locked  |-> o.callBack[c] # Nil,
                                    sending |-> callback,
                                    value   |-> IF op.Op = "Get" THEN o.db[op.Key]
                                                ELSE <<>>]]]
        /\ UNCHANGED <<clerk, call, chosen, tail, restarts, results>>

(* The end of the loop body, with callBack[c] found as it was found before. *)
ApplyDone(s) ==
    /\ kv[s].serving # Nil
    /\ ~kv[s].serving.sending
    /\ kv[s].serving.locked <=> kv[s].callBack[kv[s].serving.op.ClientId] # Nil
    /\ kv' = [kv EXCEPT ![s].serving = Nil]
    /\ UNCHANGED <<clerk, call, chosen, tail, restarts, results>>

(* s is gone with its handlers and starts again from Raft's log.            *)
Reborn(s) ==
    /\ kv' = [kv EXCEPT ![s] = StartKVServer]
    /\ call' = [c \in Client |-> [k \in 1..Len(call[c]) |->
                    IF call[c][k].server = s /\ call[c][k].pc # "gone"
                    THEN [call[c][k] EXCEPT !.pc = "killed", !.value = <<>>]
                    ELSE call[c][k]]]
    /\ UNCHANGED <<clerk, chosen, tail, results>>

(* A handler has created callBack[c] between the two looks runServer takes  *)
(* at the map: a mutex that is not locked is unlocked, which is fatal.      *)
FatalUnlock(s) ==
    /\ kv[s].serving # Nil
    /\ ~kv[s].serving.locked
    /\ kv[s].callBack[kv[s].serving.op.ClientId] # Nil
    /\ Reborn(s)
    /\ UNCHANGED restarts

Restart(s) ==
    /\ restarts < MaxRestarts
    /\ restarts' = restarts + 1
    /\ Reborn(s)

-----------------------------------------------------------------------------
ClerkStep(c) ==
    \/ \E method \in Method, key \in Key : Invoke(c, method, key)
    \/ Call(c) \/ RequestLost(c) \/ ReplyArrives(c) \/ ReplyLost(c)

HandlerStep(c, k) ==
    \/ WrongLeader(c, k) \/ HandlerStart(c, k) \/ listenCallBack(c, k)
    \/ HandlerTimeout(c, k) \/ unlistenCallBack(c, k) \/ HandlerReceives(c, k)

ServerStep(s) == Offer(s) \/ Apply(s) \/ ApplyDone(s) \/ FatalUnlock(s)

Next ==
    \/ \E c \in Client : ClerkStep(c) \/ \E k \in 1..MaxCalls : HandlerStep(c, k)
    \/ \E s \in Server : Commit(s) \/ ServerStep(s) \/ Restart(s)

Spec == Init /\ [][Next]_vars

(* Fairness: goroutines that can go on do, timers fire, and labrpc reports  *)
(* the end of a handler to its caller.                                      *)
Fairness ==
    /\ \A c \in Client :
          /\ WF_vars(ReplyArrives(c) \/ ReplyLost(c))
          /\ \A k \in 1..MaxCalls : WF_vars(HandlerStep(c, k))
    /\ \A s \in Server : WF_vars(ServerStep(s))

FairSpec == Spec /\ Fairness

-----------------------------------------------------------------------------
(* What replaying the committed operations means: of a client's operations  *)
(* only those later than all before them are executed, and a key holds what *)
(* was appended since the last Put.                                         *)
Executed(n) ==
    {p \in 1..n : \A q \in 1..(p - 1) :
        chosen[q].ClientId = chosen[p].ClientId =>
            chosen[q].ClientSeq < chosen[p].ClientSeq}

Writes(n, key) == {p \in Executed(n) : chosen[p].Key = key /\ chosen[p].Op # "Get"}

Kept(n, key) ==
    {p \in Writes(n, key) : \A q \in Writes(n, key) : chosen[q].Op = "Put" => q <= p}

(* The places of a set that are the i-th of it: one, if i is not too large. *)
Ranked(S, i) == {p \in S : Cardinality({q \in S : q <= p}) = i}

The(S) == CHOOSE x \in S : TRUE

Replay(n, key) ==
    [i \in 1..Cardinality(Kept(n, key)) |->
        The({Value(chosen[p]) : p \in Ranked(Kept(n, key), i)})]

Handler ==
    [op : Ops, server : Server, value : Data,
     pc : {"called", "started", "waiting", "timedOut", "ok", "wrongLeader",
           "killed", "gone"}]

Clerk == [seq : Nat, op : Ops \cup {Nil}, leader : Server \cup {Nil},
          calling : BOOLEAN, since : Nat]

KVServer ==
    [db : [Key -> Data], seqCheck : [Client -> Nat \cup {-1}],
     callBack : [Client -> CallBack \cup {Nil}], applied : Nat, offered : BOOLEAN,
     serving : Serving \cup {Nil}]

Result == [op : Ops, value : Data, since : Nat]

(* Every variable has its type.                                             *)
TypeOK ==
    /\ clerk \in [Client -> Clerk]
    /\ call \in [Client -> Seq(Handler)]
    /\ kv \in [Server -> KVServer]
    /\ chosen \in Seq(Ops)
    /\ tail \in [Server -> Seq(Ops)]
    /\ restarts \in Nat
    /\ results \subseteq Result

(* On every server a key holds each value at most once, and the values of a *)
(* client in the order of its calls, whatever was retried, lost or replayed *)
(* after a restart (seqCheck in runServer; checkConcurrentAppends in        *)
(* kvraft/test_test.go).                                                    *)
AppendsOnceInOrder ==
    \A s \in Server, key \in Key :
        LET held == kv[s].db[key]
        IN  \A i, j \in 1..Len(held) :
                (i < j /\ held[i][1] = held[j][1]) => held[i][2] < held[j][2]

(* A server's store is the replay of the operations it has received, so     *)
(* that servers that have received the same hold the same.                  *)
StoreIsReplay ==
    \A s \in Server, key \in Key : kv[s].db[key] = Replay(kv[s].applied, key)

(* What a Clerk returned from is committed, and executed by every server    *)
(* that gets there: no operation of the same client overtook it.            *)
AcknowledgedIsExecuted ==
    \A r \in results : \E p \in Executed(Len(chosen)) : chosen[p] = r.op

(* A Get returns what its key held at a moment between call and return,     *)
(* whichever server answered and however often it was retried.              *)
ReadsAreCurrent ==
    \A r \in results : r.op.Op = "Get" =>
        \E n \in (r.since + 1)..Len(chosen) :
            chosen[n] = r.op /\ r.value = Replay(n - 1, r.op.Key)

(* A call of a Clerk returns, so that the Clerk can try again.              *)
CallsReturn == \A c \in Client : clerk[c].calling ~> ~clerk[c].calling

=============================================================================
