# Verification of the middleware course projects

The repository collects thirteen middleware projects, one directory each. Most
are web applications over a relational database. The one that carries a hard
protocol is `2019104236`: the Raft consensus algorithm, a replicated key/value
service on top of it and the lossy network simulator both run on. This project
starts there and works outwards.

Most of the JavaScript in the repository (jQuery, Bootstrap, layui, H-ui,
UEditor and the like) is third-party code that the web applications ship with.
Of about 53,000 lines of JavaScript some 720 are the projects' own; the ones
that keep state are modelled (section 6).

## 1. Inventory

| directory | component | state | operations | hard because of |
|---|---|---|---|---|
| 2019104236 | Raft peer, `raft/raft.go`, `raft/persister.go` | `Raft` object (role, term, vote, log, commit and apply indices, per-peer indices), channel `convertState`, persisted term, vote, log and snapshot | RPC handlers, service loops, `Start`, `Compaction`, `InstallSnapshot`, restart | goroutines around one mutex and a channel of capacity one; lost, late and repeated messages; crashes |
| 2019104236 | network, `labrpc/labrpc.go` | servers, ends, pending calls | `Call`, `ProcessReq` | delay, loss, reordering, replies of dead servers |
| 2019104236 | key/value server, `kvraft/server.go` | `db`, `seqCheck`, one `callBackChan` per client | `Get`, `PutAppend`, `runServer`, snapshots | a handler that gives up after two seconds races the goroutine that applies the log |
| 2019104236 | client, `kvraft/client.go` | `leader`, `seq`, `id` | `Get`, `Put`, `Append` with endless retry | retry of a request that was already executed |
| 2019101426 | SimpleDB, `db.cpp` | index file (free list, hash chains, records) and data file | `db_store`, `db_fetch`, `db_delete`, `db_nextrec` | several dependent writes per operation, no log |
| 2019101426 | SimpleDB server and client, `simpledb-svr.cpp`, `utils.cpp`, `simpledb-cli.cpp` | descriptors, the request in work, tables and access bits | `login`, `use`, `ctable`, `grant`, `revoke`, `get`, `set`, `del`, `repl` | two threads share one table of descriptors; clients end at any moment; two files per new table |
| 2019104267 | message broker | queue of capacity 3 | `produce`, `consume` | full queue drops silently |
| 2019104283 | monitoring server | map from socket to last message | reader threads, screen thread | a connection that ends before its first message |
| 2019104287 | hotel booking | orders, rooms | `generationOrder`, `unsubscribe`, `checkIn`, `checkOut` | two updates without a transaction |
| 2019104275 | microblog | users, messages, likes, comments | `likeMsg`, `addUser`, ... | check, then insert |
| 2019104279 | blog, browser side: `static/js/global.js`, `cms.js`, `fortree.js` | classes and handlers of the panels, menu, tabs | `shareIn`, `shareOut`, `addNav`, `addTab`, ... | clicks during animations; lists that belong together by place only |
| 2019104279 (server), 2019104233, 2019104253, 2019104268 | blogs, mini-program backend, forum | database rows | single-row create, read, update, delete | nothing beyond the database |
| 2019104256, 2019104257, 2018104177 | spider, recommenders | files, trained model | scraping, training, read-only queries | out of scope |

How the parts of `2019104236` interact: a Clerk calls `Get` or `PutAppend` on
some server through labrpc; the server hands the operation to `Raft.Start`;
the Raft peers exchange `RequestVote`, `AppendEntries` and `InstallSnapshot`
calls through labrpc; committed entries come back to the server on `applyCh`,
and `runServer` executes them and wakes the handler that waits. A test restarts
a peer from a copy of its persister.

What makes them correct: at most one leader per term; logs that agree on the
term of an index agree up to it; what is applied is never changed and every
later leader has it; no two peers apply different entries at an index; what a
leader starts is committed unless it loses its role; nobody waits for ever for
the mutex. For the service: an operation of a client takes effect once,
whatever is retried. For SimpleDB: the files always represent a map, a client
reads the answers to its own requests, tables and rights agree. For the others:
a room has the status of the order that holds it, a row that should exist once
does, a message is in one place, the board shows who is there, a panel obeys the
last click, the selected tab is the one shown.

## 2. Plan

1. `Raft` with elections, replication, commitment, persistence and restart;
   runs, findings and the first proofs (done).
2. `RaftKV`: server and Clerk over an abstract replicated log, with the
   handshake of handler, timeout and `runServer` in detail (done).
3. `SimpleDB`: chains and free list, shown to implement the map of `CrashMap`;
   kills between writes (done).
4. `RaftSnapshot`: `Compaction`, `InstallSnapshot`, the call made with `rf.mu`
   held, `lastIncludedLogEntry` across a restart, and the snapshots of the
   server (done).
5. `DBServer`, `DBAccounts`: descriptors shared by two threads, accounts,
   tables (done).
6. `Broker`, `Monitor`, `Hotel`, `Microblog`, `BlogPanels`, `CmsTabs`, `CmsMenu`,
   one small module each (done).
7. Proofs: Raft up to state machine safety, the small services, `RaftKV` up to
   linearizable reads, the refinement of `CrashMap` by `SimpleDB`, and what is
   committed being final without compaction (done); the invariants of
   `RaftSnapshot` with compaction (open).

## 3. The Raft model

### State

`rf[i]` is the `Raft` object of peer i, one record field per field of the Go
structure, with four additions: `convertState` is the content of the channel
(`Nil` when empty), `service` is where the service goroutine stands, `mutex`
says whether the goroutine that counts votes is waiting with `rf.mu` held, and
`raftstate` is what the persister holds. `msgs` is the set of requests and
replies in flight. `restarts`, `votes`, `elected` and `applied` are history: the
first bounds the crashes, the others record what the properties are about.

### Actions

Each critical section of `rf.mu` is one action, named after its function; a
function that releases the lock in the middle is cut there.

| code | actions |
|---|---|
| `runAsFollower` | `runAsFollower`, `FollowerTimeout`, `FollowerResetsTimer` |
| `runAsCandidate` | `runAsCandidate`, `StartElection`, `CandidateTimeout`, `CandidateConverts` |
| `runAsLeader` | `runAsLeader`, `Ticks`, `LeaderConverts` |
| `RequestVote`, `AppendEntries` | the actions of the same names |
| `sendRequestVoteAndGetResponse` | `VoteReply`, `VoteReplacesToken` |
| `sendAppendEntriesTo` | `sendAppendEntriesTo` up to the call, `AppendReply` after it |
| `Start` | `Start` |
| `Kill`, `Make`, `readPersist` | `Restart` |

The helpers keep the names of the code: `checkCurrentTerm`, `grantVote`,
`persist`, `getLogEntry`, `deleteEntryFrom` and so on are functions of the Raft
object. The two loops of `AppendEntries` over the entries received are
`mergeEntries`; the search of the leader after a rejection is `backUp`.

A crash keeps only `raftstate`. Since `checkCurrentTerm` persists before the
handler goes on, a crash may also hit a peer that has persisted the newer term
of a message and done nothing else (`CrashStates`). Requests of the crashed
instance may still arrive; nobody hears the replies.

labrpc handles a request at most once, but the leader's ticker sends the same
`AppendEntries` again until something changes; `Deliver` therefore may leave a
copy of an `AppendEntries`, or of a reply to it, in flight. Messages are a set,
so every order of delivery is possible.

### The prompt service goroutine

The handlers change a role by setting `state` and putting a token in
`convertState`; the service goroutine then leaves its loop and enters another,
taking `rf.mu` again. `PromptService = FALSE` lets everything happen in
between; that is what Go permits. `PromptService = TRUE` says that no other
goroutine of the peer obtains `rf.mu`, and no timer of it fires, until the
service goroutine has entered the loop that the token asks for. This is what
normally happens, since a loop waits on the channel and election timeouts are
hundreds of milliseconds. The findings below show what depends on it.

### Snapshots

`RaftSnapshot` extends `Raft` with the service that executes what is delivered
and with log compaction. `kv[i]` is the service at peer i (its store, the entry
`runServer` is working on) together with what compaction adds to the peer:
`lastIncludedLogEntry`, the goroutines of `Compaction` that wait for `rf.mu`, and
the snapshot the persister holds. The handlers of `Raft` are taken over as they
are (`AppendEntriesDelivers`, `AppendReplyDelivers`, `sendEntries`, `RaftStep`)
and joined with the service at `applyCh`, which has no buffer (`Delivers`).
`Compaction`, `InstallSnapshot` and the two branches of `sendAppendEntriesTo`
that send a snapshot with `rf.mu` held are actions; a call that fails ends in
`InstallSnapshotFails`, and its request may still arrive. A restart reads
snapshot and log back, and may fall between the two saves of `InstallSnapshot`.
The service has one client on one key whose operations enter the log once, so a
store is the sequence of entries executed. An election is one step here (`Elect`):
`Raft` has its messages.

Two assumptions, constants of the module, are about how long goroutines take:

* `Overlap = FALSE`: with compaction on, an exchange of a leader with a peer is
  over before the next one starts. The code does not ensure it, since the ticker
  does not wait; finding `raft_forgets` shows what happens without it.
* `PromptServer = TRUE`: `runServer` is through with an entry, and with the
  compaction it asked for, before another goroutine of the peer obtains `rf.mu`.
  Without it, a `Compaction` that comes after an `InstallSnapshot` looks up an
  entry the log does not hold any more and panics, and the snapshot that
  `runServer` saves may replace a newer one.

## 4. The key/value model

`RaftKV` models `kvraft/server.go` and `kvraft/client.go`. What Raft does for
them is reduced to what it promises: `chosen` is the committed log, `tail[s]`
what server s has started and nobody has committed. `Commit` appends an entry of
some tail to `chosen` and drops the tails of the others, since a new leader
overwrites them; a server that is not up to date any more may still have a
tail, so a deposed leader goes on accepting operations that are lost. Every
server applies `chosen` in order (`Offer`, `Apply`, `ApplyDone`).

`kv[s]` holds `db`, `seqCheck`, the `callBack` channels, one per client, with
the sequence number listened for and whether its mutex is held, and how far
`runServer` has come. `clerk[c]` is the client. `call[c]` lists the handlers its
calls have started: a handler can outlive the call.

| code | actions |
|---|---|
| `Clerk.Get`, `Clerk.PutAppend` | `Invoke`, `Call`, `ReplyArrives`; labrpc: `RequestLost`, `ReplyLost` |
| `RaftKV.Get`, `RaftKV.PutAppend` | `WrongLeader`, `HandlerStart`, `listenCallBack`, `HandlerReceives`, `HandlerTimeout`, `unlistenCallBack` |
| `runServer` | `Offer`, `Apply`, `ApplyDone`, `FatalUnlock` |
| `Kill`, `StartKVServer` | `Restart` |

`Apply` sends on the unbuffered channel with `callBack.mu` held, so it is
cut there: the handler that receives and `runServer` move together, or neither
does. `FatalUnlock` is what happens when the entry of the map `callBack` is
created between the two lookups of `runServer`: Go ends the process.

`Replay(n, key)` is the reference the stores are compared with: of the first n
committed operations those are `Executed` that are later than all earlier ones
of their client, and a key holds the values written to it since the last Put, in
the order of their places. It looks at the whole log at once, where `runServer`
keeps one number per client and changes the store in place.

`Partitions = TRUE` lets labrpc disable the end of a client while its handler
runs (`DisconnectClient` of `kvraft/config.go`): the call returns at once, the
Clerk tries elsewhere, and the old handler goes on. With `FALSE` a Clerk has one
handler at a time except for replies that are lost.

## 5. The SimpleDB model

`SimpleDB` models `db.cpp` as the handler thread of `simpledb-svr.cpp` runs it:
one request at a time. `file` is the content of the two files. Offsets become
record numbers and lengths become the constants `keylen` and `datlen`; what a
record contains, which list it is on and where its data are is kept. An
operation reads first (`db_find`, `db_findfree`) and then writes; since nobody
else touches the files, its writes are computed when it begins (`todo`), and
each call of `write` or `writev` is one step (`Write`). `err_quit` is the exit
of `_db_writeptr` when the offset is beyond `PTR_MAX`, `Kill` the `kill -9` of
`bin/stop_simpledb.sh`, which may fall between any two writes. `Disconnect` is
the handler that reads nothing from a client that has hung up and falls through
to serve once more the request it still has in `sdata`. Before the first request
`sdata` is not initialised; on the fresh stack of the thread it is zero and names
no command. `sprintf` in `_db_writeidx` prints a deleted key onto itself; the
library the program is built with copies it unchanged.

An index record is a line of text, `key:datoff:datlen`, and `_db_readidx` takes it
apart at the separators. Neither client nor server refuses a key with a `:` in it
(`Separated`), so such a key can be stored, once: its record goes to the front of
its chain, and from then on `_db_readidx` meets three separators and calls
`err_dump` in every search of that chain, whatever the search looks for. The
action `err_dump` ends the process; the record is still there after a restart, so
every key of the same hash is lost for good. `FindEnds` says that this happens
exactly for the chains that hold such a key, never for another chain or for the
free list, and `CrashMap` that no request for a key of that hash is served again.

`CrashMap` says what is promised: a map. A request may change only its own key,
stops changing it once it has the promised value, and returns only then; a
crash leaves that key with whatever it has and all others alone; a hang-up
changes nothing. `SimpleDB` implements it with `held`, what the server would
find in the files, as the map.

`UnlinkAtomic` is an assumption on the kill, not something the code ensures: no
kill between the second and the last write of `_db_dodelete`. With
`UnlinkAtomic = FALSE` in `SimpleDB.cfg`, `FindEnds` fails: the kill leaves the
record on its chain and on the free list, the next record of that chain reuses
it and its pointer leads to itself, and a search for a key that is not there
never ends, although `db.h` promises that `db_fetch` returns a null pointer.

## 6. The small services

The services below share nothing; `MCServices` puts their modules side by side
and lets one of them run in a behaviour. Where the code does not keep a promise
under a race or a crash that it does nothing about, the property says so and
names the exception through a history variable, so that the run checks that
nothing else breaks it.

| module | code | state and actions | property |
|---|---|---|---|
| `Hotel` | order and room controllers, their mappers | orders and, for each room number, the rows that carry it; a request changes the order, and in a second statement all rows of the room (`updateRoomStatus`); `addRoom` inserts a free row whether or not the number is there; the page a request comes from may be outdated | `RoomFollowsOrders`, except after overlapping requests, outdated pages, or a number entered again while its room was taken |
| `Microblog` | `MsgServiceImpl`, `UserServiceImpl` | posts, rows of likes and users; each query is a step of a request | `OneRowUnlessRaced`: a second row, and with it a list that never loads again, comes only of two requests for the same row at once |
| `Broker` | `Broker`, `BrokerServer`, `MqClient` | one thread per connection, the bounded queue | `MessageInOnePlace`, `ConsumerIsAnswered` |
| `Monitor` | `SocketService`, `SocketClient` | clients, reading threads, the map, the board | `BoardFollowsClients` |
| `DBServer` | `simpledb-svr.cpp`, `utils.cpp`, `simpledb-cli.cpp` | the descriptor table, the accepting thread, the handler cut at each system call, clients that end with or without an unread answer, files left open | `AnswersAreOwn`, except for a client that is given a number the handler has closed and still answers on; `NobodyIsCutOff`, `EveryClientIsServed` |
| `DBAccounts` | `ctable`, `grant`, `revoke` | the files `tables` and `access`; a kill between the two writes of `createTable` | `TablesAndAccessAgree`, except for a table whose creation was cut off |
| `BlogPanels` | `global.js` | classes, bound handlers and running animations of two panels | `PanelsObeyLastClick` |
| `CmsTabs` | `cms.js`, layui's `element.js` | titles and frames of the tabs, which layui deletes and selects by place, and the mark that `tabAuto` puts among the titles when they overflow | `SelectedTabIsShown`, except after closing a tab at the mark |
| `CmsMenu` | `fortree.js`, `cms.js` | the menu made from rows, on top of `CmsTabs` | `MenuIsTheTree` |

Code of others is modelled from how it is used: the kernel's table of
descriptors (the lowest free number), what a write to a connection does whose
other end has gone, the browser's animations. layui's tabs are modelled from
its `lay/modules/element.js`.

`tabDelete` counts the place of a title among all children of the list, the
overflow mark included, while a click counts titles only. Two things come of it
when the mark is there, and `astray` remembers them: closing the selected tab
that stands right before the mark selects the mark, so that no tab is selected
until the next click ("selection"); closing a tab behind the mark, where `addTab`
puts every later tab, removes the frame of the tab after it, or none, and from
then on titles and frames do not belong together any more ("lists"). The mark
comes and goes with the widths of the window and of the titles, which the model
leaves open (`overflow`).

## 7. Runs

`MCRaft` adds symmetry and views. A view leaves out `votes`, which no guard
reads, and, with a prompt service, what a follower remembers of an earlier
reign, which `runAsLeader` and `StartElection` overwrite before it is read.
`PromptNext` makes the steps of the service goroutine into a role urgent: with
a prompt service such a step touches only its own peer, nobody else may act on
that peer before it, and no property tells the states in between apart, so
taking it first loses nothing. `MCRaftRepair` starts from persisted states.

| run | bounds | checks |
|---|---|---|
| raft_election | 3 peers, 2 terms, 1 crash, 1 message in flight, an entry in the first term (`EntriesInFirstTerm`), any schedule | `TypeOK`, `OneWinnerPerTerm`, `VotesAreFinal` |
| raft_reigns | 3 peers, 4 terms, 1 command per log, 1 crash, 1 message, prompt | `OneLeaderPerTerm`, `StateMachineSafety`, `LeaderCompleteness` |
| raft_repair | 3 peers with diverged logs, 1 more term, 3 entries, prompt, fair | `LogMatching`, `StateMachineSafety`, `NextIndexInLog`, `StartedIsCommitted` |
| raft_snapshot | 3 peers, compaction never or at 2 entries, 2 terms, 3 entries, 1 crash, see `Scope` | `SnapshotTypeOK`, `StateMachineSafety`, `StoresAgree`, `SnapshotReachesLog`, `DeliveredOnMajority`, `NoPanic`, `CommittedIsFinal` |
| kv | 2 servers, 2 Clerks, Gets and Appends, 3 calls, 1 restart, see `CallsAndCrashes` | `TypeOK`, `StoreIsReplay`, `AppendsOnceInOrder`, `AcknowledgedIsExecuted`, `ReadsAreCurrent` |
| db_map | 4 keys on 2 chains, one of them with a separator, data of 2 lengths, 2 linked records, 1 crash, see `Scope` | `TypeOK`, `FindEnds`, `ImplementsMap` |
| services | see `Services.cfg`: 2 threads or clients of each kind, 4 calls of the broker on a queue of 2, 5 descriptors, 2 orders and 2 rows of a room, menus of up to 3 rows, 5 clicks | the properties of section 6 |

Raft: two peers are not enough for competing majorities, and three are the
smallest number for which a majority is not everybody. One term suffices for
messages of a reign overtaking each other, two for a deposed leader, four for
the overwriting of an old entry that a majority holds. Two messages in flight
give overtaking; where one suffices, delay and loss remain. The diverged logs of
`MCRaftRepair` are states reached by two reigns of which parts were replicated.
`raft_snapshot` without compaction asks about overtaking within a reign, with it
about snapshots across crashes and reigns; three entries are one below a
snapshot, one at its end and one beyond. The same properties also held when the
restarts were combined with two terms and three entries, and for three terms
without a restart; these took longer than is practical to repeat. `SnapshotView`
leaves out what `MCRaft`'s views do.

RaftKV: two servers are one that leads and one that lags, three calls are two
operations and a retry of either. `CallsAndCrashes` keeps crashes to the case
of one Clerk, and two Clerks to one that appends and one that reads. SimpleDB:
two keys share a chain, so records are deleted from its front and from behind
another, the key with a separator goes to the front of that chain while the
other chain has to stay readable, two of the three data have the same length,
so that data are overwritten in place and are replaced by longer ones, and two
linked records let the index file fill up. `Scope` follows the flags the server
asks for and lets only the two plain keys of one chain hold data of both
lengths; the properties also held without it, which takes longer than is
practical to repeat. Services: two of everything that can race, four calls that
fill the broker's queue of two and leave two to be refused or to consume, and
as many descriptors as two clients and the files of one request take, with one
to spare for what is left open. Five clicks open three tabs, with the mark
before or behind the last, and leave two to select and close; for the tabs the
rows of the menu are numbered in their order (`NumberedRows`), since they need
only be told apart there. `CHECK_DEADLOCK FALSE` is there because the bounds
stop the system: at the highest term no timer may fire any more, and after the
last call or crash nothing is left to do.

Every property is also broken by a seeded fault in the definition it is about
(the operators named `..._Something` next to the definition), so none of them
holds for want of the case it is about.

### Fairness

`raft_repair` assumes weak fairness of the goroutines that are runnable, and
that a peer to which messages are sent again and again receives some, and a
leader whose ticker keeps running keeps sending. Go's scheduler and labrpc's
delivery with probability below one of loss justify that much; no fairness is
assumed for timers, crashes or `Start`. `raft_lock` and `kv_stuck`, which fail,
assume weak fairness of the goroutines and of delivery: what waits for ever there
waits although every goroutine that can run does. `services` assumes weak fairness of the
broker's threads and of a consumer that reads what has arrived, of the
monitor's threads, and of the two threads of the SimpleDB server and a client
that waits for its answer; clients need not do anything else.

## 8. Findings

Five runs are expected to fail. The first two need the service goroutine to be
late (`PromptService = FALSE`).

* `raft_two_leaders`: `checkCurrentTerm` takes up a newer term and leaves the
  role alone when `convertState` holds a token. A peer that has just won and
  whose token is unread becomes, by a message of a later term, leader of that
  later term, next to the one elected in it. The test harness calls this
  "term %d has %d (>1) leaders" (`raft/config.go`). `NoPanic` fails for the same
  reason: a token left from an election that timed out leads the next candidate
  into the leader loop, which then receives a second one.
* `raft_lock`: the vote counter sees a full channel and receives from it with
  `rf.mu` held; when the service goroutine was faster, it waits for ever, and
  with it `Start`, which promises to "return immediately".
* `kv_lost` (with `Partitions`): all handlers of a client on a server share one
  channel. A handler left over from an abandoned call that listens late resets
  the number `runServer` compares with; the answer to an old Append then reaches
  the handler of the current one, which reports OK for an Append nobody has
  executed. The test `checkClntAppends` fails with "missing element".
* `kv_stuck`: a handler whose time is up wants `callBack.mu` to stop listening;
  `runServer` holds it while it sends to that handler. Neither moves again, and
  the Clerk, which "keeps trying forever in the face of all other errors", does
  not try again.
* `raft_forgets` (with `Overlap`): a leader commits an entry with the
  acknowledgement of a peer and compacts its log; then the reply to an earlier
  heartbeat arrives and sets `nextIndex` of that peer back. The leader does not
  hold what it believes the peer needs and sends its snapshot, which ends before
  the committed entry; `InstallSnapshot` does not look at what the peer has and
  discards its log. The peer wins the next election and another entry is
  delivered at that index: "some server has already committed a different value
  for this entry!" (`raft/config.go`).

Two more were met while modelling and have no run. Two peers that both believe
they lead and call `InstallSnapshot` of each other with `rf.mu` held wait until
labrpc gives one of them up. And SimpleDB's chains, see `UnlinkAtomic` in section
5.

## 9. Proofs

The theorems hold for every value of the constants that satisfies the named
assumptions: any number of peers, servers, clients, keys, messages and
requests, and any value of the bounds. The assumptions are the ones TLC
evaluates in the runs. They say that the peers of Raft are finitely many and at
least one, that bounds are natural numbers, and that the values which stand for
nothing (`Nil`, `None`, `null`, the states of a descriptor without a peer) are
none of the values they are told apart from. Two hypotheses are about the
schedule, and each is named in the theorems that need it: `PromptService` and
`~Partitions`. A third, `UnlinkAtomic`, is about the moment of a kill. Sections 5
and 8 show that none of them can be dropped.

### Raft

* `RaftProofs`: `TypeCorrect` (`TypeOK` is invariant) and `VotesFinal`
  (`VotesAreFinal`). `TypeOK` alone is not inductive: a handler that cuts a log
  and appends to it keeps its numbering only if the entries received are
  numbered from the previous index on, and a restart is well typed only if what
  was saved is. `TypeInv` adds exactly that: every object is `Good` (log
  numbered without gaps from 0, `raftstate` equal to what is in memory), and
  the entries of every `AppendEntries` follow its `PrevLogIndex`. Equality with
  what is saved also gives `VotesFinal`, since a restart then changes neither
  term nor vote beyond what `checkCurrentTerm` does.
* `RaftElectionProofs`: `OneWinner` (`OneWinnerPerTerm`). The inductive
  invariant `VoteInv` follows a vote from the voter to the winner: a voter casts
  one vote per term and remembers it while the term lasts (`OneVote`,
  `VotesKept`), requests come from candidates that voted for themselves
  (`Requests`), a granted reply and a counted vote stand for a vote cast
  (`Replies`, `Ballots`), so a winner has the votes of a majority (`Winners`);
  two majorities share a voter.
  `PromptLeaders` (`OneLeaderPerTerm`, and `NoPanic` of module `Raft` with it)
  needs `PromptService`: the role and the loop agree (`RoleOK`) and a leader has
  won its term (`Won`). About the panic of `runAsLeader` it says little, since
  that panic needs the unread token which a prompt service excludes.
* `RaftLogProofs`, with `PromptService`: `LogsMatch` (`LogMatching`) and
  `NextIndexBounded` (`NextIndexInLog`). The invariant `LogsAgree` says that a
  history L exists, one log for each term, which is the log its leader had when
  it last led; every log, and every message in flight, is a copy of some L[t] up
  to some index. L is no variable: each step that elects a leader or lets one
  append shows what the next L is. `MergeCopies` is the lemma about the two
  loops of `AppendEntries`: no agreement with a leader's log is lost in them,
  however late the message.
* `RaftSafetyProofs`, with `PromptService`: `NothingDiverges`
  (`StateMachineSafety`) and `LeadersComplete` (`LeaderCompleteness`). The
  invariant `Safe` adds a second history, A: which peer has held which entry of
  a leader while in that leader's term. An entry that a majority has held is
  chosen; one that a majority has left behind without holding it is closed and
  never will be. Every later leader carries each entry of a leader's own term,
  or it is closed (`Elects`). This needs the up-to-date check of `RequestVote`
  (`Supports`, `Describes`) and the rule that a leader counts replicas only of
  entries of its own term (`CommitOK`).
* `RaftSnapshotProofs`, with `PromptService`: `CommittedFinal`
  (`CommittedIsFinal`). The setting `maxraftstate` never changes, and while it is
  -1 the invariant `PlainInv` holds: no service has asked for compaction
  (`Uncompacted`), only AppendEntries and its replies are in flight, each with a
  commit index that its entries reach (`Traffic`), nobody is a candidate
  (`NobodyStands`, since an election is one step in that module), and the
  invariants of `Raft` hold. So no step of compaction is possible
  (`NoSnapshots`): a log that begins with entry 0 has whatever a leader is to
  send (`NothingMissing`). Every other step is one of `Raft`, except an
  election, of which the same is shown (`ElectVotes`, `ElectSafe`). What is
  committed at a peer is in the log of every later leader (`Safe`), hence merging
  that leader's entries leaves it alone (`AcceptedForward`); and the commit
  index does not go back because of `Traffic`, without which the min with the
  last new entry could lower it.

An attempt at `NextIndexBounded` showed that the property was too strong as it
stood first: between winning and entering its loop a leader still has the
`nextIndex` of an earlier reign, which `runAsLeader` then replaces. TLC found
the counterexample with four terms and two entries; the property now speaks of
a leader that runs its loop, the only one that sends.

### The key/value service

`RaftKVProofs` has three inductive invariants, one on top of the other.

* `KVTypes` gives `KVTypeCorrect` (`TypeOK`). It adds that operations carry the
  identity of their Clerk, that a handler past `Start` finds its entry in
  `callBack`, and that a server has not received more than is committed.
* `StoreOK` gives `OnceInOrder` (`AppendsOnceInOrder`) and `StoresReplay`
  (`StoreIsReplay`), with partitions and restarts. `seqCheck` is the highest
  sequence number received from each client and no value held is of a later one.
  The lemmas `ReplaySkip`, `ReplayPut` and `ReplayAppend` say what one more
  committed operation does to `Replay`, which ranks the places of the log;
  `FreshIsExecuted` says that the test of `runServer` against `seqCheck` picks
  the operations that `Replay` counts as executed.
* `ClerksServed`, with `~Partitions`, gives `AcknowledgedExecuted`
  (`AcknowledgedIsExecuted`) and `GetsAreCurrent` (`ReadsAreCurrent`). Without
  partitions a Clerk has one handler that has not ended (`OneHandler`). Whoever
  listens on a server, or is sent to, is that handler, and for the operation of
  its Clerk (`ListenOK`, `SendOK`): `runServer` matches by sequence number only,
  so this needs that no other operation in Raft has that number (`NotAhead`).
  What is sent is the value before the place received last (`ServingOK`), and
  that place was committed after the operation was invoked (`SinceOK`).

The run `kv` uses Gets and Appends; the theorems cover Puts as well.

### The small services

`ServiceProofs` proves the safety properties of section 6, all without further
hypotheses, each from one inductive invariant.

| theorem | property | invariant, and what it adds |
|---|---|---|
| `RoomsFollow` | `RoomFollowsOrders` | `HotelOK`: while a request is between its two statements, the status it is about to set on every row is the one its order asks for |
| `RowsAreSingle` | `OneRowUnlessRaced` | `BlogOK`: a request that has found no row and is about to insert is alone, or its row is marked raced |
| `MessagesInPlace` | `MessageInOnePlace` | `BrokerOK`: which lines the threads have served, and where each of them went |
| `OwnAnswers`, `NobodyCutOff` | `AnswersAreOwn`, `NobodyIsCutOff` | `ServerOK`: which connection a number stands for while the handler goes through its list (`NumbersOK`), and that requests and answers of a client keep their order (`OwnOK`) |
| `FilesAgree` | `TablesAndAccessAgree` | `AccountsOK`: a table under creation has no line yet |
| `PanelsFollowClicks` | `PanelsObeyLastClick` | `PanelsOK`: which handler is bound and which animation runs, for each class a panel may have |
| `TabsShown` | `SelectedTabIsShown` | `TabsInv`: titles and frames fit together place by place, no number and no item occurs twice, the first tab cannot be closed; which of this is left when a tab at the mark was closed |

### The storage engine

`SimpleDBProofs` has three inductive invariants.

* `TypeInv` gives `DBTypeCorrect` (`TypeOK`), with kills anywhere. It adds that the
  writes still to be made are safe in their order (`SafeTodo`): first writes inside
  the files, then, if a record is appended, its data, its index record and only
  then the pointer to it.
* `MapInv`, with `UnlinkAtomic`, says that chains and free list are disjoint and
  end, and that `held` is what the files contain.
* `FrontInv`, on top of it, is about keys with a separator: the record of one that
  is stored is the first of its chain, an operation that still has to write works
  on a chain without one, and one whose own key has a separator is storing it.

Together (`EngineInv`) they give `SearchesEnd` (`FindEnds`) and
`EngineImplementsMap` (the refinement `ImplementsMap`).

A search follows pointers, and what it finds is defined by recursion along a
chain. The proof avoids induction along chains: a file is `Clean` if there is a
function o that says for each place of a pointer on which list it is, and a
function q that ranks the places, such that a pointer leads to a place of the same
list and lower rank, every record on a list is led to by one pointer, and the key
of a record belongs to its list. Then ranks fall along a chain, a chain that does not
end would visit more records than there are (`FallsEnds`, by the pigeonhole
principle), and every place on a list is met from its head (`FallsReaches`, by
the highest rank not met). So a search comes to the one record of its key or there
is none (`CleanSearch`, `ReadRecord`, `ReadNothing`). Neither o nor q is a
variable: each step shows what they are next (`CleanUnlink`, `CleanPush`,
`CleanDat`, `CleanIdx`).

Between operations the file is clean and `held` is what it contains. During an
operation it is in one of ten phases (`Working`), one for each kind of write that
comes next, and every write leads to the next phase and changes at most what the key
of the operation holds, and that only until it has its value (`WorkAdvances`).
In all phases but two the file is clean, so that a kill leaves a clean file. In
`PutsFree` and `Unlinks` the deleted record leads to the free list and is still on its
chain; there the chain of the key is cut off behind the record (`Half`,
`HalfReads`), and `UnlinkAtomic` is needed. `err_quit` does not need it: no pointer
in the file exceeds `PTR_MAX` (`Small`), so the two pointers written there
always have room (`HalfDone`). That a hang-up changes nothing rests on `Settled`: the request
left in `sdata`, done once more, wants what is already there.

A search of a chain whose first record is unreadable dumps (`HeadedDumps`), so no
operation that would touch that chain is served (`ServedReadable`) and the record
stays in front (`HeadKept`, `ApartKeeps`). An operation that is served works on a
chain without such a record; only the last write of a store links one, to the
front (`StoredInFront`).

### Only model-checked

* The liveness properties `StartedIsCommitted`, `ConsumerIsAnswered`,
  `BoardFollowsClients`, `EveryClientIsServed`, and `LockIsReleased` and
  `CallsReturn` of the findings: fairness is out of the prover's reach.
* The other properties of `RaftSnapshot` (`SnapshotTypeOK`, `StateMachineSafety`,
  `StoresAgree`, `SnapshotReachesLog`, `DeliveredOnMajority` and its `NoPanic`).
  With compaction a log no longer begins with entry 0 and a peer's log may be
  replaced by one entry, so that the invariants of the Raft proofs, which are
  about whole logs, do not carry over; and what is checked rests on the schedule
  (`~Overlap`, `PromptServer`), not on the messages alone.
* `MenuIsTheTree`, about a RECURSIVE operator, and the type invariant of
  `MCServices`, which reaches it.

## 10. Not modelled

Of Raft and the key/value server: logging; the data races on slices handed to
the encoder and on the map `callBack`. Of labrpc: reflection, encoding,
statistics. Of SimpleDB: `db_nextrec`, which nothing calls; key and data lengths
out of range, which the client refuses; the file of passwords, which nothing
writes; the client's parsing. Of the hotel: users, room types, descriptions and
queries. Of the microblog: comments, each a single insert, and the codes sent by
mail. Of the blog: the Go handlers, each of which reads or writes one row; the
side navigation, whose button is commented out, and `closeTab`, which nothing
calls; menus in which an id occurs twice, since the only caller of `fortree.js`
passes a literal list of distinct ids. All third-party JavaScript except the part
of layui that keeps the tabs: it is not this repository's logic.
The other components are listed in section 1 and in `PROJECT.json` with the
reason.
