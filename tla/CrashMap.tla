------------------------------ MODULE CrashMap ------------------------------
(* What SimpleDB promises: a map from keys to data, served by one process   *)
(* that may be killed.  A request changes at most its own key, gives its    *)
(* answer when the key has the promised value, and leaves no other trace.   *)
(* Killed half way, it leaves its own key in doubt and no other.  A key     *)
(* with a separator is taken, and from then on no request for a key of the  *)
(* same hash is served: each ends the process.                              *)

EXTENDS Integers

CONSTANTS
    Key, Data,
    Blank,      \* data made of spaces
    Nil,        \* no data; no request; no answer
    Separated,  \* the keys with a separator
    hash        \* the keys of one hash are kept together

VARIABLES
    store,      \* what each key holds
    pending     \* the request that is being served: its key, the value
                \* the key is to have, and the answer

vars == <<store, pending>>

Flag == {"DB_INSERT", "DB_REPLACE", "DB_STORE"}

Request == [cmd : {"fetch", "delete"}, key : Key]
           \cup [cmd : {"store"}, key : Key, data : Data, flag : Flag]

(* DB_REPLACE wants the key to be there, DB_INSERT wants it not to be.      *)
Refused(r) ==
    /\ r.cmd = "store"
    /\ \/ r.flag = "DB_REPLACE" /\ store[r.key] = Nil
       \/ r.flag = "DB_INSERT" /\ store[r.key] # Nil

Value(r) ==
    CASE r.cmd = "fetch" \/ Refused(r) -> store[r.key]
      [] r.cmd = "delete"              -> Nil
      [] OTHER                         -> r.data

Answer(r) ==
    CASE r.cmd = "fetch"                          -> store[r.key]
      [] r.cmd = "delete" /\ store[r.key] = Nil   -> -1
      [] Refused(r) /\ r.flag = "DB_REPLACE"      -> -1
      [] Refused(r) /\ r.flag = "DB_INSERT"       -> 1
      [] OTHER                                    -> 0

(* A key with a separator is kept together with k.                          *)
Spoilt(k) == \E j \in Separated : hash[j] = hash[k] /\ store[j] # Nil

-----------------------------------------------------------------------------
Init ==
    /\ store = [k \in Key |-> Nil]
    /\ pending = Nil

Begin(r) ==
    /\ pending = Nil
    /\ pending' = [key |-> r.key, value |-> Value(r), answer |-> Answer(r)]
    /\ ~ Spoilt(r.key)
    /\ UNCHANGED store

(* A client hangs up: nothing is changed and nobody is answered.            *)
Disconnect ==
    /\ pending = Nil
    /\ \E k \in Key :
          /\ pending' = [key |-> k, value |-> store[k], answer |-> Nil]
          /\ ~ Spoilt(k)
    /\ UNCHANGED store

(* While the key does not have its value it may hold anything.              *)
Work ==
    /\ pending # Nil
    /\ store[pending.key] # pending.value
    /\ \E v \in Data \cup {Blank, Nil} :
          store' = [store EXCEPT ![pending.key] = v]
    /\ UNCHANGED pending

Return ==
    /\ pending # Nil
    /\ store[pending.key] = pending.value
    /\ pending' = Nil
    /\ UNCHANGED store

Crash ==
    /\ pending' = Nil
    /\ UNCHANGED store

Next ==
    \/ \E r \in Request : Begin(r)
    \/ Disconnect
    \/ Work
    \/ Return
    \/ Crash

Spec == Init /\ [][Next]_vars

=============================================================================
