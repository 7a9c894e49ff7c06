----------------------------- MODULE DBAccounts -----------------------------
(* Tables and access rights of SimpleDB (simpledb-svr.cpp, utils.cpp): a    *)
(* file with the names of the tables and one with a line of rights for a    *)
(* user and a table.  The server changes them in one thread; a new table is *)
(* written to the first file and then to the second one, and the server may *)
(* be killed in between.                                                    *)
EXTENDS Integers, Sequences, FiniteSets

CONSTANTS
    User, Table,
    simpledb,       \* the user who may revoke
    default         \* the table that is open to everyone

ASSUME DBAccountsAssumption == simpledb \in User /\ default \in Table

VARIABLES
    tables,     \* the names in the file `tables`
    access,     \* the lines of the file `access`
    creating,   \* createTable between its two writes: the user and the table
    owner,      \* history: who created a table
    cut         \* history: tables whose creation was cut off

accountVars == <<tables, access, creating, owner, cut>>

Right == {"get", "set", "repl", "del"}
Word == Right \cup {"other"}
nobody == <<>>

DBAccountsInit ==
    /\ tables = {default}
    /\ access = <<>>
    /\ creating = nobody
    /\ owner = [t \in Table |-> simpledb]
    /\ cut = {}

isTableExist(t) == t \in tables

linesOf(u, t) == {n \in DOMAIN access : access[n].user = u /\ access[n].table = t}

isAccessOK(u, t) == t = default \/ linesOf(u, t) # {}

newLine(u, rights, t) ==
    access' = Append(access, [user |-> u, rights |-> rights, table |-> t])

(* ctable: a name that is not taken is written; the rights come next.       *)
ctable(u, t) ==
    /\ creating = nobody /\ ~isTableExist(t)
    /\ tables' = tables \cup {t}
    /\ creating' = <<u, t>>
    /\ owner' = [owner EXCEPT ![t] = u]
    /\ UNCHANGED <<access, cut>>

createTable ==
    /\ creating # nobody
    /\ newLine(creating[1], Right, creating[2])
    /\ creating' = nobody
    /\ UNCHANGED <<tables, owner, cut>>

killed ==
    /\ creating # nobody
    /\ creating' = nobody
    /\ cut' = cut \cup {creating[2]}
    /\ UNCHANGED <<tables, access, owner>>

(* The line grant and revoke change is the first one of user and table.     *)
firstLine(v, t) == CHOOSE n \in linesOf(v, t) : \A m \in linesOf(v, t) : n <= m

(* The bit of a word that is none of the four rights is no bit.             *)
bits(word) == {word} \cap Right

(* Seeded fault: a line that is found is forgotten, and another one added.  *)
grant_Appends(u, v, t, word) ==
    /\ creating = nobody /\ u # v /\ isTableExist(t) /\ t # default
    /\ newLine(v, bits(word), t)
    /\ UNCHANGED <<tables, creating, owner, cut>>

(* grant: any user, to any other one that exists, on a table that exists;   *)
(* the table open to everyone has no lines.                                 *)
grant(u, v, t, word) ==
    /\ creating = nobody /\ u # v /\ isTableExist(t) /\ t # default
    /\ IF linesOf(v, t) = {} THEN newLine(v, bits(word), t)
       ELSE access' = [access EXCEPT ![firstLine(v, t)].rights = @ \cup bits(word)]
    /\ UNCHANGED <<tables, creating, owner, cut>>

(* revoke: only the user simpledb, from another one; the line stays.        *)
revoke(v, t, word) ==
    /\ creating = nobody /\ v # simpledb /\ isTableExist(t) /\ t # default
    /\ linesOf(v, t) # {}
    /\ access' = [access EXCEPT ![firstLine(v, t)].rights = @ \ bits(word)]
    /\ UNCHANGED <<tables, creating, owner, cut>>

DBAccountsNext ==
    \/ \E u \in User, t \in Table : ctable(u, t)
    \/ createTable
    \/ killed
    \/ \E u, v \in User, t \in Table, word \in Word : grant(u, v, t, word)
    \/ \E v \in User, t \in Table, word \in Word : revoke(v, t, word)

-----------------------------------------------------------------------------
DBAccountsTypeOK ==
    /\ tables \subseteq Table
    /\ \A n \in DOMAIN access : access[n] \in
          [user : User, rights : SUBSET Right, table : Table]
    /\ creating \in {nobody} \cup (User \X Table)
    /\ owner \in [Table -> User]
    /\ cut \subseteq Table

(* The two files agree: the creator of a table can use it, a line is of a   *)
(* table that exists, and a user has one line for a table, so that a grant  *)
(* or a revoke, which stop at the first line, miss nothing.  When the       *)
(* server was killed inside createTable, the creator's line is missing for  *)
(* good (the name is taken, and ctable refuses it), but no line is double.  *)
TablesAndAccessAgree ==
    /\ \A t \in tables \ cut :
          isAccessOK(owner[t], t) \/ creating = <<owner[t], t>>
    /\ \A n \in DOMAIN access : access[n].table \in tables
    /\ \A u \in User, t \in Table : Cardinality(linesOf(u, t)) <= 1

=============================================================================
