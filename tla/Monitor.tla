------------------------------ MODULE Monitor ------------------------------
(* The monitoring server (2019104283).  A client opens a socket and sends   *)
(* one MessageInfo with its name; a thread of the server reads it into a    *)
(* map, blocks in the next read until the client ends, and then sets the    *)
(* entry's status to 0.  Another thread paints the map every two seconds,   *)
(* a green button for status 1 and a red one otherwise.                     *)
EXTENDS Integers

CONSTANT Watched            \* the clients, one socket each

VARIABLES
    session,    \* a client: not started, connected, logged in, ended
    reader,     \* the thread of its socket
    maps,       \* its entry: no status yet, or the status
    board       \* the colour of its button

monitorVars == <<session, reader, maps, board>>

MonitorInit ==
    /\ session = [c \in Watched |-> "off"]
    /\ reader = [c \in Watched |-> "none"]
    /\ maps = [c \in Watched |-> "absent"]
    /\ board = [c \in Watched |-> "none"]

(* The button of the client opens the socket, and then sends its name; the  *)
(* window may be closed, and the process ends, at any time.                 *)
connect(c) ==
    /\ session[c] = "off"
    /\ session' = [session EXCEPT ![c] = "connected"]
    /\ reader' = [reader EXCEPT ![c] = "reads"]
    /\ UNCHANGED <<maps, board>>

writeObject(c) ==
    /\ session[c] = "connected"
    /\ session' = [session EXCEPT ![c] = "in"]
    /\ UNCHANGED <<reader, maps, board>>

closeWindow(c, sent) ==
    /\ session[c] = IF sent THEN "in" ELSE "connected"
    /\ session' = [session EXCEPT ![c] = IF sent THEN "left" ELSE "aborted"]
    /\ UNCHANGED <<reader, maps, board>>

(* The object arrives whether or not its sender is still there.             *)
put(c) ==
    /\ reader[c] = "reads"
    /\ session[c] \in {"in", "left"}
    /\ maps' = [maps EXCEPT ![c] = "1"]
    /\ reader' = [reader EXCEPT ![c] = "blocks"]
    /\ UNCHANGED <<session, board>>

(* The read fails, the loop ends, and the entry is looked up; of a client   *)
(* that never sent its name there is none, and the thread dies of it.       *)

(* Seeded fault: the thread ends without a look at the map.                 *)
setStatus_Never(c) ==
    /\ \/ reader[c] = "blocks" /\ session[c] = "left"
       \/ reader[c] = "reads" /\ session[c] = "aborted"
    /\ reader' = [reader EXCEPT ![c] = "ended"]
    /\ UNCHANGED <<session, maps, board>>

setStatus(c) ==
    /\ \/ reader[c] = "blocks" /\ session[c] = "left"
       \/ reader[c] = "reads" /\ session[c] = "aborted"
    /\ reader' = [reader EXCEPT ![c] = "ended"]
    /\ maps' = [maps EXCEPT ![c] = IF @ = "absent" THEN @ ELSE "0"]
    /\ UNCHANGED <<session, board>>

(* The painter reads the status without a lock; between two paints it       *)
(* sleeps two seconds and prints, so it sees what was written before.       *)
colour(status) ==
    CASE status = "1" -> "green"
      [] status = "0" -> "red"
      [] OTHER -> "none"

repaint ==
    /\ board' = [c \in Watched |-> colour(maps[c])]
    /\ UNCHANGED <<session, reader, maps>>

MonitorNext ==
    \/ \E c \in Watched : connect(c) \/ writeObject(c)
    \/ \E c \in Watched, sent \in BOOLEAN : closeWindow(c, sent)
    \/ \E c \in Watched : put(c) \/ setStatus(c)
    \/ repaint

(* The reading threads run and the painting thread's sleep ends.            *)
MonitorFairness ==
    /\ \A c \in Watched : WF_monitorVars(put(c)) /\ WF_monitorVars(setStatus(c))
    /\ WF_monitorVars(repaint)

-----------------------------------------------------------------------------
MonitorTypeOK ==
    /\ session \in [Watched -> {"off", "connected", "in", "left", "aborted"}]
    /\ reader \in [Watched -> {"none", "reads", "blocks", "ended"}]
    /\ maps \in [Watched -> {"absent", "1", "0"}]
    /\ board \in [Watched -> {"none", "green", "red"}]

(* The board catches up with a client: one that logged in is shown green    *)
(* unless it ends first, and one that ended, at whatever moment of its      *)
(* connection, is in the end not shown green, for good.                     *)
BoardFollowsClients ==
    \A c \in Watched :
        /\ session[c] = "in" ~> board[c] = "green" \/ session[c] = "left"
        /\ session[c] \in {"left", "aborted"} ~> [](board[c] # "green")

=============================================================================
