------------------------------ MODULE Microblog ------------------------------
(* The microblog's posts, likes and accounts (2019104275).  Every DAO call  *)
(* is a database statement of its own, a service method several of them     *)
(* without a transaction, and no table has a unique key.  A row that should *)
(* exist once is looked for and then inserted; a query for one row fails    *)
(* when it finds two.                                                       *)
EXTENDS Integers

CONSTANTS
    Author,         \* the users who post and like
    Msg, Mail,
    Handler         \* the threads that serve requests

VARIABLES
    msgs,       \* msg: the author of a post, by its uuid, and whether deleted
    rows,       \* the number of rows in `like` of a user and a post, and in
                \* `user` of a mail
    serving,    \* the request of a thread and what it does next
    raced,      \* history: what two requests looked for at the same time
    broken      \* history: the users whose list of posts did not load

blogVars == <<msgs, rows, serving, raced, broken>>

Once == (Author \X Msg) \cup Mail
idle == [next |-> "idle"]

MicroblogInit ==
    /\ msgs = [m \in Msg |-> [author |-> "none", deleted |-> FALSE]]
    /\ rows = [k \in Once |-> 0]
    /\ serving = [h \in Handler |-> idle]
    /\ raced = {}
    /\ broken = {}

posted(m) == msgs[m].author # "none" /\ ~msgs[m].deleted

goes(h, request) == serving' = [serving EXCEPT ![h] = request]

-----------------------------------------------------------------------------
(* addMsg is one insert under a new uuid; deleteMsg looks for the author's  *)
(* post and marks it, if nobody has in between.                             *)
addMsg(u, m) ==
    /\ msgs[m].author = "none"
    /\ msgs' = [msgs EXCEPT ![m].author = u]
    /\ UNCHANGED <<rows, serving, raced, broken>>

getMsgByUserUuidAndUuid(h, u, m) ==
    /\ serving[h] = idle
    /\ posted(m) /\ msgs[m].author = u
    /\ goes(h, [next |-> "delete", msg |-> m])
    /\ UNCHANGED <<msgs, rows, raced, broken>>

deleteMsg(h) ==
    /\ serving[h].next = "delete"
    /\ msgs' = [msgs EXCEPT ![serving[h].msg].deleted = TRUE]
    /\ goes(h, idle)
    /\ UNCHANGED <<rows, raced, broken>>

-----------------------------------------------------------------------------
(* likeMsg finds the post, then looks for the user's like, then inserts it. *)
getMsg(h, u, m) ==
    /\ serving[h] = idle
    /\ posted(m)
    /\ goes(h, [next |-> "look", key |-> <<u, m>>])
    /\ UNCHANGED <<msgs, rows, raced, broken>>

(* addUser, when the code of the mail was right, looks for the mail first.  *)
addUser(h, mail) ==
    /\ serving[h] = idle
    /\ goes(h, [next |-> "look", key |-> mail])
    /\ UNCHANGED <<msgs, rows, raced, broken>>

inserting(k) == \E h \in Handler :
                    serving[h].next = "insert" /\ serving[h].key = k

(* Seeded fault: the row is inserted without looking for it.                *)
selectOne_Blind(h) ==
    /\ serving[h].next = "look"
    /\ goes(h, [serving[h] EXCEPT !.next = "insert"])
    /\ raced' = IF inserting(serving[h].key) THEN raced \cup {serving[h].key}
                ELSE raced
    /\ UNCHANGED <<msgs, rows, broken>>

(* The row is there, or there are two of them: an exception ends the        *)
(* request.                                                                 *)
selectOne(h) ==
    /\ serving[h].next = "look"
    /\ goes(h, IF rows[serving[h].key] = 0
               THEN [serving[h] EXCEPT !.next = "insert"] ELSE idle)
    /\ raced' = IF inserting(serving[h].key) THEN raced \cup {serving[h].key}
                ELSE raced
    /\ UNCHANGED <<msgs, rows, broken>>

insertOne(h) ==
    /\ serving[h].next = "insert"
    /\ rows' = [rows EXCEPT ![serving[h].key] = @ + 1]
    /\ goes(h, idle)
    /\ UNCHANGED <<msgs, raced, broken>>

-----------------------------------------------------------------------------
(* describeMsgs reads the posts, and then for each of them whether the user *)
(* likes it; one query that fails fails the list.                           *)
getAllMsg(h, u) ==
    /\ serving[h] = idle
    /\ goes(h, [next |-> "build", user |-> u, msgs |-> {m \in Msg : posted(m)}])
    /\ UNCHANGED <<msgs, rows, raced, broken>>

buildMsgRet(h) ==
    /\ serving[h].next = "build"
    /\ \E m \in serving[h].msgs :
        LET fails == rows[<<serving[h].user, m>>] > 1
        IN  /\ goes(h, IF fails \/ serving[h].msgs = {m} THEN idle
                       ELSE [serving[h] EXCEPT !.msgs = @ \ {m}])
            /\ broken' = IF fails THEN broken \cup {serving[h].user} ELSE broken
    /\ UNCHANGED <<msgs, rows, raced>>

noPosts(h) ==
    /\ serving[h].next = "build" /\ serving[h].msgs = {}
    /\ goes(h, idle)
    /\ UNCHANGED <<msgs, rows, raced, broken>>

MicroblogNext ==
    \/ \E u \in Author, m \in Msg : addMsg(u, m)
    \/ \E h \in Handler, u \in Author, m \in Msg : getMsgByUserUuidAndUuid(h, u, m)
    \/ \E h \in Handler : deleteMsg(h)
    \/ \E h \in Handler, u \in Author, m \in Msg : getMsg(h, u, m)
    \/ \E h \in Handler, mail \in Mail : addUser(h, mail)
    \/ \E h \in Handler : selectOne(h) \/ insertOne(h)
    \/ \E h \in Handler, u \in Author : getAllMsg(h, u)
    \/ \E h \in Handler : buildMsgRet(h) \/ noPosts(h)

-----------------------------------------------------------------------------
MicroblogTypeOK ==
    /\ msgs \in [Msg -> [author : Author \cup {"none"}, deleted : BOOLEAN]]
    /\ rows \in [Once -> Nat]
    /\ serving \in [Handler -> {idle} \cup [next : {"delete"}, msg : Msg]
            \cup [next : {"look", "insert"}, key : Once]
            \cup [next : {"build"}, user : Author, msgs : SUBSET Msg]]
    /\ raced \subseteq Once
    /\ broken \subseteq Author

(* A user's list of posts always loads, and a mail that is registered can   *)
(* log in: no query for one row ever meets two, unless two requests for the *)
(* same row ran at the same time (a double click on like is enough), and    *)
(* then for good, because nothing takes the second row back.                *)
OneRowUnlessRaced ==
    /\ \A k \in Once : rows[k] > 1 => k \in raced
    /\ \A u \in broken : \E m \in Msg : <<u, m>> \in raced

=============================================================================
