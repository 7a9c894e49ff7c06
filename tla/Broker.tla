------------------------------- MODULE Broker -------------------------------
(* The message broker (2019104267).  A call of MqClient opens a connection  *)
(* and sends one line; the server runs a thread for each connection, which  *)
(* puts the line into a bounded queue or, when the line is the word         *)
(* CONSUME, takes a message out and sends it back.  Threads serve their     *)
(* lines in any order, and an offer to the full queue is refused without a  *)
(* word to the producer.                                                    *)
EXTENDS Integers, Sequences, FiniteSets, SequencesExt

CONSTANTS
    Call,           \* the calls of MqClient, each with its connection
    MAX_SIZE        \* the capacity of the queue

ASSUME BrokerAssumption == MAX_SIZE \in Nat \ {0}

VARIABLES
    client,     \* who made the call: where it is, what line it sent
    thread,     \* the thread of a connection: not started, with its line to
                \* serve, or in readLine, which after the client's end returns
                \* null for ever
    messageQueue,
    answer,     \* what the thread sent back, None if nothing
    refused     \* history: the messages the full queue refused

brokerVars == <<client, thread, messageQueue, answer, refused>>

None == "none"
null == "null"      \* the line the server prints for a poll that found nothing

ASSUME AnswerAssumption == None \notin Call /\ null \notin Call

(* A producer whose message happens to be the word CONSUME sends the same   *)
(* line as a consumer.                                                      *)
Line == {"message", "CONSUME"}
Role == {"producer", "consumer"}

BrokerInit ==
    /\ client = [c \in Call |-> [is |-> "unmade", role |-> None, line |-> None]]
    /\ thread = [c \in Call |-> "none"]
    /\ messageQueue = <<>>
    /\ answer = [c \in Call |-> None]
    /\ refused = {}

(* MqClient.produce returns when its line is sent, MqClient.consume waits.  *)
produce(c, text) ==
    /\ client[c].is = "unmade"
    /\ client' = [client EXCEPT ![c] =
                    [is |-> "gone", role |-> "producer", line |-> text]]
    /\ thread' = [thread EXCEPT ![c] = "line"]
    /\ UNCHANGED <<messageQueue, answer, refused>>

consume(c) ==
    /\ client[c].is = "unmade"
    /\ client' = [client EXCEPT ![c] =
                    [is |-> "waits", role |-> "consumer", line |-> "CONSUME"]]
    /\ thread' = [thread EXCEPT ![c] = "line"]
    /\ UNCHANGED <<messageQueue, answer, refused>>

(* The consumer reads its answer, or is stopped before it does.             *)
readLine(c) ==
    /\ client[c].is = "waits" /\ answer[c] # None
    /\ client' = [client EXCEPT ![c].is = "answered"]
    /\ UNCHANGED <<thread, messageQueue, answer, refused>>

stopped(c) ==
    /\ client[c].is = "waits"
    /\ client' = [client EXCEPT ![c].is = "gone"]
    /\ UNCHANGED <<thread, messageQueue, answer, refused>>

-----------------------------------------------------------------------------
(* Broker.produce and Broker.consume, by the thread of connection c.        *)

(* Seeded fault: a consumer waits in the server for a message.              *)
serveConsume_Blocks(c) ==
    /\ messageQueue # <<>>
    /\ answer' = [answer EXCEPT ![c] = Head(messageQueue)]
    /\ messageQueue' = Tail(messageQueue)
    /\ UNCHANGED refused

(* Seeded fault: the message stays in the queue.                            *)
serveConsume_Peeks(c) ==
    /\ answer' = [answer EXCEPT ![c] =
                    IF messageQueue = <<>> THEN null ELSE Head(messageQueue)]
    /\ UNCHANGED <<messageQueue, refused>>

serveConsume(c) ==
    /\ answer' = [answer EXCEPT ![c] =
                    IF messageQueue = <<>> THEN null ELSE Head(messageQueue)]
    /\ messageQueue' = IF messageQueue = <<>> THEN <<>> ELSE Tail(messageQueue)
    /\ UNCHANGED refused

(* Seeded fault: the queue has no bound.                                    *)
serveProduce_NoLimit(c) ==
    /\ messageQueue' = Append(messageQueue, c)
    /\ UNCHANGED <<answer, refused>>

serveProduce(c) ==
    /\ IF Len(messageQueue) < MAX_SIZE
       THEN messageQueue' = Append(messageQueue, c) /\ UNCHANGED refused
       ELSE refused' = refused \cup {c} /\ UNCHANGED messageQueue
    /\ UNCHANGED answer

(* BrokerServer.run: one turn of the loop for a line.                       *)
run(c) ==
    /\ thread[c] = "line"
    /\ thread' = [thread EXCEPT ![c] = "readLine"]
    /\ IF client[c].line = "CONSUME" THEN serveConsume(c) ELSE serveProduce(c)
    /\ UNCHANGED client

BrokerNext ==
    \/ \E c \in Call, text \in Line : produce(c, text)
    \/ \E c \in Call : consume(c) \/ readLine(c) \/ stopped(c) \/ run(c)

(* A thread runs, and a consumer reads what has arrived.                    *)
BrokerFairness == \A c \in Call : WF_brokerVars(run(c)) /\ WF_brokerVars(readLine(c))

-----------------------------------------------------------------------------
BrokerTypeOK ==
    /\ client \in [Call -> [is : {"unmade", "waits", "answered", "gone"},
                            role : Role \cup {None}, line : Line \cup {None}]]
    /\ thread \in [Call -> {"none", "line", "readLine"}]
    /\ messageQueue \in BoundedSeq(Call, MAX_SIZE)
    /\ answer \in [Call -> Call \cup {None, null}]
    /\ refused \subseteq Call

served == {m \in Call : client[m].line = "message" /\ thread[m] = "readLine"}

takers(m) == {c \in Call : answer[c] = m}

(* A message the server has read is in exactly one place: once in the       *)
(* queue, or refused, or handed to one connection; it is not lost otherwise *)
(* and nobody gets it twice.                                                *)
MessageInOnePlace ==
    \A m \in served :
        Cardinality({i \in DOMAIN messageQueue : messageQueue[i] = m})
            + Cardinality(takers(m)) + (IF m \in refused THEN 1 ELSE 0) = 1

(* Somebody who consumes and stays is answered, with a message or with      *)
(* null, whatever the other connections do: none of them can hold the       *)
(* queue, however many ended without being closed.                          *)
ConsumerIsAnswered ==
    \A c \in Call : client[c].is = "waits" ~> client[c].is # "waits"

=============================================================================
