------------------------------ MODULE DBServer ------------------------------
(* The SimpleDB server's connections (simpledb-svr.cpp).  One thread        *)
(* accepts clients and adds their sockets to an epoll set, another reads    *)
(* requests and writes answers.  Sockets and files take their numbers from  *)
(* one table of descriptors, the lowest free number first, and a number     *)
(* that is closed can be another client's at once.  After the read that     *)
(* tells it a client has gone, the handler closes the number and goes on to *)
(* answer the last request on it.                                           *)
EXTENDS Integers, Sequences, SequencesExt, FiniteSets, FiniteSetsExt

CONSTANTS
    Peer,           \* the client processes, each connects once
    MAX_EVENTS,     \* how many sockets epoll_wait reports at a time
    NumFds,         \* the limit of descriptors (RLIMIT_NOFILE)
    MaxRequests     \* bound: requests of a client

(* A client is not one of the words that say what else has a number.        *)
ASSUME DBServerAssumption ==
    /\ {MAX_EVENTS, NumFds, MaxRequests} \subseteq Nat \ {0} /\ NumFds >= 4
    /\ {"free", "file", "leftOpen", "garbage"} \cap Peer = {}

VARIABLES
    fds,        \* the table: the client or the file that has a number
    peer,       \* where a client's connection is on the server, how the
                \* client ended, and what it has asked
    inbox,      \* the request of a client that the server has not read
    sent,       \* answers a client has not read; a request is its client and
                \* its number, and so is the answer to it
    got,        \* the answers a client has read
    sdata,      \* the last request read
    evlist,     \* the numbers epoll_wait reported, the first one in progress
    handler,    \* what the handler does next with it
    exited,     \* why the server ended
    reused      \* history: clients that were given the number the handler
                \* had closed and was still to answer on

serverVars == <<fds, peer, inbox, sent, got, sdata, evlist, handler, exited,
                reused>>

FD == 1 .. NumFds
none == <<>>

(* sdata is not initialised: a request that nobody sent.                    *)
garbage == <<"garbage", 0>>

(* Earlier clients, all gone, may have left files open.                     *)
DBServerInit ==
    /\ \E left \in 0 .. NumFds - 4 :
          fds = [n \in FD |-> IF n <= left THEN "leftOpen" ELSE "free"]
    /\ peer = [c \in Peer |-> [at |-> "out", ended |-> "no", asked |-> 0]]
    /\ inbox = [c \in Peer |-> none]
    /\ sent = [c \in Peer |-> <<>>]
    /\ got = [c \in Peer |-> <<>>]
    /\ sdata = garbage
    /\ evlist = <<>>
    /\ handler = "wait"
    /\ exited = "no"
    /\ reused = {}

freeFds(table) == {n \in FD : table[n] = "free"}

(* open or accept: the lowest free number.                                  *)
opened(table, what) == [table EXCEPT ![Min(freeFds(table))] = what]

exit(why) ==
    /\ exited' = why
    /\ UNCHANGED <<fds, peer, inbox, sent, got, sdata, evlist, handler, reused>>

-----------------------------------------------------------------------------
(* The client: it connects, asks and waits for one answer to each request,  *)
(* and ends, in between or not.  A process that ends with an answer unread  *)
(* resets the connection.                                                   *)
Connect(c) ==
    /\ exited = "no" /\ peer[c].at = "out"
    /\ peer' = [peer EXCEPT ![c].at = "backlog"]
    /\ UNCHANGED <<fds, inbox, sent, got, sdata, evlist, handler, exited, reused>>

Ask(c) ==
    /\ peer[c].at # "out" /\ peer[c].ended = "no"
    /\ peer[c].asked = Len(got[c]) /\ peer[c].asked < MaxRequests
    /\ inbox' = [inbox EXCEPT ![c] = <<c, peer[c].asked + 1>>]
    /\ peer' = [peer EXCEPT ![c].asked = @ + 1]
    /\ UNCHANGED <<fds, sent, got, sdata, evlist, handler, exited, reused>>

ReadAnswer(c) ==
    /\ peer[c].ended = "no" /\ sent[c] # <<>> /\ Len(got[c]) < peer[c].asked
    /\ got' = [got EXCEPT ![c] = Append(@, Head(sent[c]))]
    /\ sent' = [sent EXCEPT ![c] = Tail(@)]
    /\ UNCHANGED <<fds, peer, inbox, sdata, evlist, handler, exited, reused>>

End(c) ==
    /\ peer[c].at # "out" /\ peer[c].ended = "no"
    /\ peer' = [peer EXCEPT ![c].ended = IF sent[c] = <<>> THEN "closed" ELSE "reset"]
    /\ UNCHANGED <<fds, inbox, sent, got, sdata, evlist, handler, exited, reused>>

-----------------------------------------------------------------------------
(* main: accept, then epoll_ctl.                                            *)
accept(c) ==
    /\ exited = "no" /\ peer[c].at = "backlog"
    /\ freeFds(fds) # {}
    /\ fds' = opened(fds, c)
    /\ peer' = [peer EXCEPT ![c].at = "accepted"]
    /\ reused' = IF handler # "wait" /\ fds'[Head(evlist)] = c
                 THEN reused \cup {c} ELSE reused
    /\ UNCHANGED <<inbox, sent, got, sdata, evlist, handler, exited>>

acceptError ==
    /\ exited = "no" /\ freeFds(fds) = {}
    /\ \E c \in Peer : peer[c].at = "backlog"
    /\ exit("acceptError")

epoll_ctl(c) ==
    /\ exited = "no" /\ peer[c].at = "accepted"
    /\ peer' = [peer EXCEPT ![c].at = "polled"]
    /\ UNCHANGED <<fds, inbox, sent, got, sdata, evlist, handler, exited, reused>>

-----------------------------------------------------------------------------
(* handleRequests.                                                          *)

(* Seeded fault: the end of a client is not an event.                       *)
readable_NotAtEnd(n) ==
    /\ fds[n] \in Peer
    /\ peer[fds[n]].at = "polled"
    /\ inbox[fds[n]] # none

readable(n) ==
    /\ fds[n] \in Peer
    /\ peer[fds[n]].at = "polled"
    /\ inbox[fds[n]] # none \/ peer[fds[n]].ended # "no"

epoll_wait ==
    /\ exited = "no" /\ handler = "wait" /\ evlist = <<>>
    /\ \E n \in FD : readable(n)
    /\ LET all == {n \in FD : readable(n)}
       IN  \E ready \in kSubset(Min({MAX_EVENTS, Cardinality(all)}), all) :
            evlist' \in SetToSeqs(ready)
    /\ UNCHANGED <<fds, peer, inbox, sent, got, sdata, handler, exited, reused>>

(* The read of the first event's number: a request, or the end, or, of a    *)
(* connection that was reset, an error, for which the server exits.         *)
reads(c) ==
    /\ exited = "no" /\ handler = "wait" /\ evlist # <<>>
    /\ fds[Head(evlist)] = c

(* Seeded fault: the request is read into a buffer that nobody looks at.    *)
readn_Elsewhere(c) ==
    /\ reads(c) /\ inbox[c] # none
    /\ inbox' = [inbox EXCEPT ![c] = none]
    /\ handler' = "respond"
    /\ UNCHANGED <<fds, peer, sent, got, sdata, evlist, exited, reused>>

(* Seeded fault: the close meant for n == 0 is made after every read.       *)
readn_Closes(c) ==
    /\ reads(c) /\ inbox[c] # none
    /\ sdata' = inbox[c]
    /\ inbox' = [inbox EXCEPT ![c] = none]
    /\ fds' = [fds EXCEPT ![Head(evlist)] = "free"]
    /\ peer' = [peer EXCEPT ![c].at = "closed"]
    /\ handler' = "respond"
    /\ UNCHANGED <<sent, got, evlist, exited, reused>>

readn(c) ==
    /\ reads(c) /\ inbox[c] # none
    /\ sdata' = inbox[c]
    /\ inbox' = [inbox EXCEPT ![c] = none]
    /\ handler' = "respond"
    /\ UNCHANGED <<fds, peer, sent, got, evlist, exited, reused>>

(* n == 0: close, which also takes the socket out of the epoll set.         *)
readEnd(c) ==
    /\ reads(c) /\ inbox[c] = none /\ peer[c].ended \in {"closed", "broken"}
    /\ fds' = [fds EXCEPT ![Head(evlist)] = "free"]
    /\ peer' = [peer EXCEPT ![c].at = "closed"]
    /\ handler' = "respond"
    /\ UNCHANGED <<inbox, sent, got, sdata, evlist, exited, reused>>

readError(c) ==
    /\ reads(c) /\ inbox[c] = none /\ peer[c].ended = "reset"
    /\ exit("readError")

(* getResponse opens the index and the data file of the table.              *)
getResponse ==
    /\ exited = "no" /\ handler = "respond"
    /\ Cardinality(freeFds(fds)) >= 2
    /\ fds' = opened(opened(fds, "file"), "file")
    /\ handler' = "files"
    /\ UNCHANGED <<peer, inbox, sent, got, sdata, evlist, exited, reused>>

openError ==
    /\ exited = "no" /\ handler = "respond"
    /\ Cardinality(freeFds(fds)) < 2
    /\ exit("openError")

closeFiles(table) == [n \in FD |-> IF table[n] = "file" THEN "free" ELSE table[n]]

(* How many files a request leaves open.  The first one of a client is its  *)
(* login, which succeeds; later ones may look for a user, a table and a     *)
(* right, and every look that finds leaves its file open.                   *)
isLogin(request) == request[2] = 1
leftOpen(request) == IF isLogin(request) THEN {1} ELSE 0 .. 2

(* The table with n files more.                                             *)
leave(table, n) ==
    CASE n = 0 -> table
      [] n = 1 -> opened(table, "leftOpen")
      [] n = 2 -> opened(opened(table, "leftOpen"), "leftOpen")

returns ==
    /\ exited = "no" /\ handler = "files"
    /\ \E n \in leftOpen(sdata) :
          /\ n <= Cardinality(freeFds(fds))
          /\ fds' = closeFiles(leave(fds, n))
    /\ handler' = "write"
    /\ UNCHANGED <<peer, inbox, sent, got, sdata, evlist, exited, reused>>

verifyError ==
    /\ exited = "no" /\ handler = "files"
    /\ \E n \in leftOpen(sdata) : n > Cardinality(freeFds(fds))
    /\ exit("openError")

(* The answer goes to whoever has the number now, and nowhere if nobody     *)
(* has.  The first answer to a client that has gone breaks the connection,  *)
(* the second one is a SIGPIPE, which the server does not catch; of a reset *)
(* connection the write takes the error.                                    *)
receiver == fds[Head(evlist)]

afterWrite(ended) == CASE ended = "reset"  -> "closed"
                       [] ended = "closed" -> "broken"
                       [] OTHER            -> ended

write ==
    /\ exited = "no" /\ handler = "write"
    /\ receiver \in Peer => peer[receiver].ended # "broken"
    /\ IF receiver \in Peer
       THEN /\ sent' = [sent EXCEPT ![receiver] = Append(@, sdata)]
            /\ peer' = [peer EXCEPT ![receiver].ended = afterWrite(@)]
       ELSE UNCHANGED <<sent, peer>>
    /\ evlist' = Tail(evlist)
    /\ handler' = "wait"
    /\ UNCHANGED <<fds, inbox, got, sdata, exited, reused>>

SIGPIPE ==
    /\ exited = "no" /\ handler = "write"
    /\ receiver \in Peer /\ peer[receiver].ended = "broken"
    /\ exit("SIGPIPE")

mainThread == acceptError \/ \E c \in Peer : accept(c) \/ epoll_ctl(c)

handleRequests ==
    \/ epoll_wait
    \/ \E c \in Peer : readn(c) \/ readEnd(c) \/ readError(c)
    \/ getResponse \/ openError \/ returns \/ verifyError
    \/ write \/ SIGPIPE

DBServerNext ==
    \/ \E c \in Peer : Connect(c) \/ Ask(c) \/ ReadAnswer(c) \/ End(c)
    \/ mainThread
    \/ handleRequests

(* Both threads run, and a client that waits for its answer reads it.       *)
DBServerFairness ==
    /\ WF_serverVars(mainThread)
    /\ WF_serverVars(handleRequests)
    /\ \A c \in Peer : WF_serverVars(ReadAnswer(c))

-----------------------------------------------------------------------------
Request == (Peer \X Nat) \cup {garbage}

DBServerTypeOK ==
    /\ fds \in [FD -> Peer \cup {"free", "file", "leftOpen"}]
    /\ peer \in [Peer -> [at : {"out", "backlog", "accepted", "polled", "closed"},
                          ended : {"no", "closed", "reset", "broken"}, asked : Nat]]
    /\ inbox \in [Peer -> Request \cup {none}]
    /\ \A c \in Peer : sent[c] \in Seq(Request) /\ got[c] \in Seq(Request)
    /\ sdata \in Request
    /\ evlist \in Seq(FD)
    /\ handler \in {"wait", "respond", "files", "write"}
    /\ exited \in {"no", "acceptError", "readError", "openError", "SIGPIPE"}
    /\ reused \subseteq Peer

(* Every answer a client reads is the answer to its own request of that     *)
(* number.  The one exception is a client that the main thread accepted     *)
(* between the handler's close and its write: it is sent the answer to the  *)
(* last request the server read, before it asks anything, and takes every   *)
(* answer for that of the following request.  The SIGPIPE comes of the same *)
(* overlap, and of nothing else.                                            *)
AnswersAreOwn ==
    /\ \A c \in Peer \ reused, i \in 1 .. MaxRequests :
          i \in DOMAIN got[c] => got[c][i] = <<c, i>>
    /\ exited = "SIGPIPE" => reused # {}

(* The server closes the connection of a client only when the client has    *)
(* gone, and a connection has one number from accept to close, whatever     *)
(* numbers are closed and taken again while the handler works off a list    *)
(* of numbers it got before.                                                *)
NobodyIsCutOff ==
    \A c \in Peer :
        /\ peer[c].at = "closed" => peer[c].ended # "no"
        /\ Cardinality({n \in FD : fds[n] = c}) =
              IF peer[c].at \in {"accepted", "polled"} THEN 1 ELSE 0

(* While the server runs, a client that waits for an answer gets one, and   *)
(* the number of a client that has gone is given back.                      *)
EveryClientIsServed ==
    \A c \in Peer :
        /\ peer[c].asked > Len(got[c]) ~>
              peer[c].asked = Len(got[c]) \/ peer[c].ended # "no" \/ exited # "no"
        /\ peer[c].ended # "no" ~> peer[c].at = "closed" \/ exited # "no"

=============================================================================
