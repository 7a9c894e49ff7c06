------------------------------ MODULE SimpleDB ------------------------------
(* The storage engine of SimpleDB, db.cpp, as the server of simpledb-svr.cpp *)
(* runs it: one thread, one request at a time, and kill -9 to stop it.  An  *)
(* index file holds the free list pointer, a hash table of chains and the   *)
(* index records; a data file holds the data.  An operation reads the files *)
(* and then makes several writes; each write is a step, and the process may *)
(* be killed between two of them.                                           *)
EXTENDS Integers, Sequences, SequencesExt, FiniteSetsExt

CONSTANTS
    Key, Data,
    Blank,          \* a key or data overwritten with spaces
    Nil,
    Bucket,         \* the entries of the hash table (NHASH_DEF)
    Separated,      \* the keys with a ':' in them, SEP
    hash,           \* _db_hash
    keylen, datlen, \* the lengths of keys and data
    PTR_MAX,        \* the number of index records a pointer can reach
    UnlinkAtomic,   \* the process is not killed inside _db_dodelete between
                    \* the index record and the chain that leads to it
    MaxCrashes      \* bound: how often the process ends

ASSUME SimpleDBAssumption ==
    /\ Separated \subseteq Key
    /\ hash \in [Key -> Bucket]
    /\ keylen \in [Key -> Nat \ {0}]
    /\ datlen \in [Data -> Nat \ {0}]
    /\ PTR_MAX \in Nat
    /\ MaxCrashes \in Nat
    /\ UnlinkAtomic \in BOOLEAN
    /\ Blank \notin Key \cup Data
    /\ Nil \notin Key \cup Data \cup {Blank}

VARIABLES
    file,       \* the two files
    op,         \* the operation in progress, Nil if none: its key, its
                \* answer and, as history, what its key is to hold
    todo,       \* the writes it still has to make
    last,       \* sdata: the last request read, Nil if none
    crashes,
    held        \* history: what the files hold for the keys; of an
                \* operation in progress it sees only the key, the others
                \* when it has ended, one way or the other

vars == <<file, op, todo, last, crashes, held>>

-----------------------------------------------------------------------------
(* The files.  Offsets of records are their numbers, 0 is no record.  A     *)
(* chain pointer is at FREE_OFF, in the hash table or in an index record.   *)

FREE_OFF == <<"free", 0>>
HashOff(b) == <<"hash", b>>
RecOff(n) == <<"rec", n>>

Offset == {FREE_OFF} \cup {HashOff(b) : b \in Bucket} \cup ({"rec"} \X Nat)

IndexRecord == [ptr : Nat, key : Key \cup {Blank}, keylen : Nat,
                datoff : Nat, datlen : Nat]

File == [free : Nat, head : [Bucket -> Nat],
         idx : Seq(IndexRecord), dat : Seq(Data \cup {Blank})]

db_open == [free |-> 0, head |-> [b \in Bucket |-> 0],
            idx |-> <<>>, dat |-> <<>>]

db_readptr(f, at) ==
    CASE at[1] = "free" -> f.free
      [] at[1] = "hash" -> f.head[at[2]]
      [] at[1] = "rec"  -> f.idx[at[2]].ptr

(* A record is written over an old one or, one past the last, appended.     *)
put(s, n, v) == IF n > Len(s) THEN Append(s, v) ELSE [s EXCEPT ![n] = v]

(* The three kinds of writes, and what they do to the files.                *)
db_writedat(n, data) == [kind |-> "dat", at |-> n, val |-> data]
db_writeidx(n, rec)  == [kind |-> "idx", at |-> n, val |-> rec]
db_writeptr(at, n)   == [kind |-> "ptr", at |-> at, val |-> n]

written(f, w) ==
    CASE w.kind = "dat" -> [f EXCEPT !.dat = put(@, w.at, w.val)]
      [] w.kind = "idx" -> [f EXCEPT !.idx = put(@, w.at, w.val)]
      [] w.kind = "ptr" /\ w.at[1] = "free" -> [f EXCEPT !.free = w.val]
      [] w.kind = "ptr" /\ w.at[1] = "hash" ->
            [f EXCEPT !.head[w.at[2]] = w.val]
      [] w.kind = "ptr" /\ w.at[1] = "rec" ->
            [f EXCEPT !.idx[w.at[2]].ptr = w.val]

allWritten(f, ws) ==
    LET g[n \in 0..Len(ws)] == IF n = 0 THEN f ELSE written(g[n - 1], ws[n])
    IN  g[Len(ws)]

-----------------------------------------------------------------------------
(* Searching.                                                               *)

(* The pointers met from at on: at itself, then those of the records.  On a *)
(* list without an end, one more than there are records.                    *)
chain(f, at) ==
    LET c[n \in 0..Len(f.idx)] ==
            IF n = 0 THEN <<at>>
            ELSE LET met  == c[n - 1]
                     next == db_readptr(f, Last(met))
                 IN  IF next = 0 THEN met ELSE Append(met, RecOff(next))
    IN  c[Len(f.idx)]

Ends(f, at) == db_readptr(f, Last(chain(f, at))) = 0

(* The first record from at on that is wanted, and what leads to it.        *)
search(f, at, wanted) ==
    LET c    == chain(f, at)
        hits == {i \in 2..Len(c) : c[i][2] \in wanted}
    IN  IF hits = {} THEN Nil
        ELSE [offset |-> c[Min(hits)][2], ptroff |-> c[Min(hits) - 1]]

withKey(f, key) == {n \in 1..Len(f.idx) : f.idx[n].key = key}

fitting(f, key, data) ==
    {n \in 1..Len(f.idx) : /\ f.idx[n].keylen = keylen[key]
                           /\ f.idx[n].datlen = datlen[data]}

db_find(f, key) == search(f, HashOff(hash[key]), withKey(f, key))

db_findfree(f, key, data) == search(f, FREE_OFF, fitting(f, key, data))

(* Their loops come to an end, at a record that fits or at a zero.          *)
FindReturns(f, key) ==
    db_find(f, key) # Nil \/ Ends(f, HashOff(hash[key]))
FindFreeReturns(f, key, data) ==
    db_findfree(f, key, data) # Nil \/ Ends(f, FREE_OFF)

(* A record is a line of text, key:datoff:datlen, and _db_readidx cannot    *)
(* take it apart if the key has a separator of its own.                     *)
Unreadable(f) == {n \in 1..Len(f.idx) : f.idx[n].key \in Separated}

(* The search for wanted reads such a record first: err_dump.               *)
Dumps(f, at, wanted) ==
    LET met == search(f, at, wanted \cup Unreadable(f))
    IN  met # Nil /\ met.offset \in Unreadable(f)

FindDumps(f, key) == Dumps(f, HashOff(hash[key]), withKey(f, key))
FindFreeDumps(f, key, data) == Dumps(f, FREE_OFF, fitting(f, key, data))

(* The data that _db_find and _db_readdat come to, Nil if there is no record. *)
db_readdat(f, key) ==
    LET at == db_find(f, key)
    IN  IF at = Nil THEN Nil ELSE f.dat[f.idx[at.offset].datoff]

-----------------------------------------------------------------------------
(* The writes of an operation, in their order.                              *)

(* Seeded fault: the chain pointer is saved after it was overwritten.       *)
db_dodelete_LateSave(f, at) ==
    LET r == f.idx[at.offset] IN
    << db_writedat(r.datoff, Blank),
       db_writeidx(at.offset, [r EXCEPT !.key = Blank, !.ptr = f.free]),
       db_writeptr(FREE_OFF, at.offset),
       db_writeptr(at.ptroff, f.free) >>

db_dodelete(f, at) ==
    LET r == f.idx[at.offset] IN
    << db_writedat(r.datoff, Blank),
       db_writeidx(at.offset, [r EXCEPT !.key = Blank, !.ptr = f.free]),
       db_writeptr(FREE_OFF, at.offset),
       db_writeptr(at.ptroff, r.ptr) >>

(* Seeded fault: the record is linked before it is written.                 *)
appended_LinkFirst(f, key, data) ==
    << db_writeptr(HashOff(hash[key]), Len(f.idx) + 1),
       db_writedat(Len(f.dat) + 1, data),
       db_writeidx(Len(f.idx) + 1,
                   [ptr |-> f.head[hash[key]], key |-> key,
                    keylen |-> keylen[key],
                    datoff |-> Len(f.dat) + 1, datlen |-> datlen[data]]) >>

(* The new record goes to the ends of the files and to the front of its     *)
(* chain.                                                                   *)
appended(f, key, data) ==
    << db_writedat(Len(f.dat) + 1, data),
       db_writeidx(Len(f.idx) + 1,
                   [ptr |-> f.head[hash[key]], key |-> key,
                    keylen |-> keylen[key],
                    datoff |-> Len(f.dat) + 1, datlen |-> datlen[data]]),
       db_writeptr(HashOff(hash[key]), Len(f.idx) + 1) >>

(* Seeded fault: the record stays on the free list.                         *)
reused_StaysFree(f, at, key, data) ==
    LET r == f.idx[at.offset] IN
    << db_writedat(r.datoff, data),
       db_writeidx(at.offset, [r EXCEPT !.key = key,
                                        !.ptr = f.head[hash[key]]]),
       db_writeptr(HashOff(hash[key]), at.offset) >>

(* The record leaves the free list and goes to the front of its chain.      *)
reused(f, at, key, data) ==
    LET r == f.idx[at.offset] IN
    << db_writeptr(at.ptroff, r.ptr),
       db_writedat(r.datoff, data),
       db_writeidx(at.offset, [r EXCEPT !.key = key,
                                        !.ptr = f.head[hash[key]]]),
       db_writeptr(HashOff(hash[key]), at.offset) >>

db_store(f, key, data, flag) ==
    LET at    == db_find(f, key)
        empty == db_findfree(f, key, data)
        gone  == db_dodelete(f, at)
    IN  CASE at = Nil /\ flag = "DB_REPLACE" -> [rc |-> -1, writes |-> <<>>]
          [] at = Nil /\ flag # "DB_REPLACE" ->
                [rc |-> 0,
                 writes |-> IF empty = Nil THEN appended(f, key, data)
                            ELSE reused(f, empty, key, data)]
          [] at # Nil /\ flag = "DB_INSERT" -> [rc |-> 1, writes |-> <<>>]
          [] at # Nil /\ flag # "DB_INSERT" ->
                [rc |-> 0,
                 writes |->
                    IF datlen[data] # f.idx[at.offset].datlen
                    THEN gone \o appended(allWritten(f, gone), key, data)
                    ELSE << db_writedat(f.idx[at.offset].datoff, data) >>]

db_delete(f, key) ==
    LET at == db_find(f, key)
    IN  IF at = Nil THEN [rc |-> -1, writes |-> <<>>]
        ELSE [rc |-> 0, writes |-> db_dodelete(f, at)]

db_fetch(f, key) == [rc |-> db_readdat(f, key), writes |-> <<>>]

(* What the keys hold.                                                      *)
contents(f) == [k \in Key |-> db_readdat(f, k)]

getResponse(f, r) ==
    CASE r.cmd = "fetch"  -> db_fetch(f, r.key)
      [] r.cmd = "delete" -> db_delete(f, r.key)
      [] r.cmd = "store"  -> db_store(f, r.key, r.data, r.flag)

SearchesFree(f, r) ==
    r.cmd = "store" /\ db_find(f, r.key) = Nil /\ r.flag # "DB_REPLACE"

(* An operation that searches a list without an end never returns.          *)
Returns(f, r) ==
    /\ FindReturns(f, r.key)
    /\ SearchesFree(f, r) => FindFreeReturns(f, r.key, r.data)

(* One that reads a record it cannot take apart ends the process.           *)
Dumped(f, r) ==
    \/ FindDumps(f, r.key)
    \/ SearchesFree(f, r) /\ FindFreeDumps(f, r.key, r.data)

-----------------------------------------------------------------------------
(* The server.                                                              *)

Flag == {"DB_INSERT", "DB_REPLACE", "DB_STORE"}

Request == [cmd : {"fetch", "delete"}, key : Key]
           \cup [cmd : {"store"}, key : Key, data : Data, flag : Flag]

Operation == [key : Key, answer : Data \cup {Blank, Nil, -1, 0, 1},
              value : Data \cup {Blank, Nil}]

(* Nil is none of the values it stands beside.                              *)
ASSUME NilAssumption ==
    /\ Nil \notin Request
    /\ Nil \notin Operation
    /\ Nil \notin [offset : Nat, ptroff : Offset]

Init ==
    /\ file = db_open
    /\ op = Nil
    /\ todo = <<>>
    /\ last = Nil
    /\ crashes = 0
    /\ held = contents(file)

operation(key, answer, writes) ==
    [key    |-> key,
     answer |-> answer,
     value  |-> db_readdat(allWritten(file, writes), key)]

Serve(r) ==
    /\ op = Nil
    /\ Returns(file, r) /\ ~ Dumped(file, r)
    /\ todo' = getResponse(file, r).writes
    /\ op' = operation(r.key, getResponse(file, r).rc, todo')
    /\ last' = r
    /\ UNCHANGED <<file, crashes, held>>

(* A client hangs up.  The handler closes its socket and goes on to serve   *)
(* the request that sdata still holds, whoever sent it.                     *)
Disconnect ==
    /\ op = Nil
    /\ last # Nil
    /\ Returns(file, last) /\ ~ Dumped(file, last)
    /\ todo' = getResponse(file, last).writes
    /\ op' = operation(last.key, Nil, todo')
    /\ UNCHANGED <<file, last, crashes, held>>

(* A pointer is written only if it has room for the offset.                 *)
HasRoom(w) ==
    /\ w.kind = "ptr" => w.val <= PTR_MAX
    /\ w.kind = "idx" => w.val.ptr <= PTR_MAX

Write ==
    /\ todo # <<>>
    /\ HasRoom(Head(todo))
    /\ file' = written(file, Head(todo))
    /\ todo' = Tail(todo)
    /\ held' = [held EXCEPT ![op.key] = db_readdat(file', op.key)]
    /\ UNCHANGED <<op, last, crashes>>

Return ==
    /\ op # Nil
    /\ todo = <<>>
    /\ op' = Nil
    /\ held' = contents(file)
    /\ UNCHANGED <<file, todo, last, crashes>>

(* The process ends and is started again: only the files are left.          *)
Ended ==
    /\ crashes < MaxCrashes
    /\ crashes' = crashes + 1
    /\ op' = Nil
    /\ todo' = <<>>
    /\ last' = Nil
    /\ held' = contents(file)
    /\ UNCHANGED file

err_quit ==
    /\ todo # <<>>
    /\ ~ HasRoom(Head(todo))
    /\ Ended

(* A request, or what sdata still holds of one, is not served but ends the  *)
(* process: the searches come before the first write.                       *)
err_dump ==
    /\ op = Nil
    /\ Ended
    /\ \E r \in Request : Dumped(file, r)

(* The record is on the free list, or about to be, and still on its chain.  *)
Unlinking ==
    /\ op # Nil
    /\ \E n \in 1..Len(file.idx) :
          /\ file.idx[n].key = Blank
          /\ \E b \in Bucket : RecOff(n) \in ToSet(chain(file, HashOff(b)))

Kill ==
    /\ UnlinkAtomic => ~ Unlinking
    /\ Ended

Next ==
    \/ \E r \in Request : Serve(r)
    \/ Disconnect
    \/ Write
    \/ Return
    \/ err_quit
    \/ err_dump
    \/ Kill

Spec == Init /\ [][Next]_vars
-----------------------------------------------------------------------------
(* Properties.                                                              *)

(* The files are well formed at every moment: every pointer leads to a      *)
(* record that has been written, every record to data that has been written *)
(* (db.cpp, the order of the writes in db_store).                           *)
TypeOK ==
    /\ file \in File
    /\ op \in Operation \cup {Nil}
    /\ last \in Request \cup {Nil}
    /\ \A at \in {FREE_OFF} \cup {HashOff(b) : b \in Bucket}
                 \cup {RecOff(n) : n \in 1..Len(file.idx)} :
          db_readptr(file, at) \in 0..Len(file.idx)
    /\ \A n \in 1..Len(file.idx) : file.idx[n].datoff \in 1..Len(file.dat)

Map == INSTANCE CrashMap WITH store <- held, pending <- op

(* Between two operations every search comes to an end, at the record, at a *)
(* zero, or in err_dump, and in err_dump exactly if a key with a separator  *)
(* was stored in the chain: then no search of that chain gets any further,  *)
(* whatever it looks for, and every other chain and the free list are read  *)
(* as ever (_db_find, _db_findfree, _db_readidx).                           *)
FindEnds ==
    op = Nil => /\ \A k \in Key : /\ FindReturns(file, k)
                                  /\ FindDumps(file, k) <=> Map!Spoilt(k)
                /\ Ends(file, FREE_OFF)
                /\ \A k \in Key, d \in Data : ~ FindFreeDumps(file, k, d)

(* The engine implements the map: an operation does to its key what its     *)
(* flag says and answers so, no other key ever changes, a process killed    *)
(* half way loses at most the key it was working on, a client that hangs up *)
(* changes nothing, and no request is served for a key that shares a chain  *)
(* with a stored key that has a separator (db_store, db_delete, db_fetch,   *)
(* handleRequests).                                                         *)
ImplementsMap == Map!Spec

=============================================================================
