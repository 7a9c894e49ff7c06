------------------------------- MODULE Hotel -------------------------------
(* The booking of rooms (2019104287).  A request of a guest or of the desk  *)
(* changes an order in one database statement and its room in a second one; *)
(* each is a transaction of its own, and the server runs requests           *)
(* concurrently.  What a request may ask for is decided by the page its     *)
(* sender looks at: a page shows the status a room or an order had when the *)
(* page was made, and the server does not look again.                       *)
EXTENDS Integers, Sequences, SequencesExt

CONSTANTS
    Room,           \* the numbers of rooms
    Guest,
    Worker,         \* the server's threads
    MaxOrders,      \* bound: orders made in one behaviour
    MaxRoomRows     \* bound: rows of tb_room with one number

VARIABLES
    room,       \* tb_room: the statuses of the rows that carry a number; the
                \* table has a key of its own and lets a number occur twice
    orders,     \* tb_order, by order_id; seen: the statuses pages may show
    rest,       \* what a thread's request still has to do: set a room's
                \* status, or nothing
    doubtful    \* history: rooms of which a request overlapped another one or
                \* came from a page that was no longer true, or whose number
                \* was entered once more while the room was taken

hotelVars == <<room, orders, rest, doubtful>>

RoomStatus == {"available", "booked", "occupied"}
OrderStatus == {"booked", "unsubscribed", "occupied", "completed"}
nothing == <<>>

(* The rooms are those of the database; each starts without an order.       *)
HotelInit ==
    /\ room = [r \in Room |-> <<"available">>]
    /\ orders = <<>>
    /\ rest = [w \in Worker |-> nothing]
    /\ doubtful = {}

overlapped(r) == \E w \in Worker : rest[w] # nothing /\ rest[w].room = r

(* The rows of a number all have this status; one of them does.             *)
allRows(r, status) == \A i \in DOMAIN room[r] : room[r][i] = status
someRow(r, status) == \E i \in DOMAIN room[r] : room[r][i] = status

(* A request about room r arrives; was the page it was sent from still true?*)
arrives(r, fresh) ==
    doubtful' = IF overlapped(r) \/ ~fresh THEN doubtful \cup {r} ELSE doubtful

thenRoom(w, r, status) ==
    /\ rest[w] = nothing
    /\ rest' = [rest EXCEPT ![w] = [room |-> r, status |-> status]]

(* A guest books a room that the details page shows as available: every     *)
(* room was, once.  The order is inserted, the room is marked afterwards.   *)
generationOrder(w, g, r) ==
    /\ Len(orders) < MaxOrders
    /\ arrives(r, someRow(r, "available"))
    /\ orders' = Append(orders, [room |-> r, user |-> g, status |-> "booked",
                                 seen |-> {"booked"}])
    /\ thenRoom(w, r, "booked")
    /\ UNCHANGED room

(* Three requests change an order whatever its status has become, and then  *)
(* its room.  The page offers the request for one status of the order.      *)
updateOrderStatus(w, n, shown, status, roomStatus) ==
    /\ shown \in orders[n].seen
    /\ arrives(orders[n].room, orders[n].status = shown)
    /\ orders' = [orders EXCEPT ![n].status = status, ![n].seen = @ \cup {status}]
    /\ thenRoom(w, orders[n].room, roomStatus)
    /\ UNCHANGED room

unsubscribe(w, n) ==
    updateOrderStatus(w, n, "booked", "unsubscribed", "available")

checkIn(w, n) == updateOrderStatus(w, n, "booked", "occupied", "occupied")

(* Seeded fault: the room of a guest who left stays occupied.               *)
checkOut_KeepsRoom(w, n) ==
    updateOrderStatus(w, n, "occupied", "completed", "occupied")

checkOut(w, n) == updateOrderStatus(w, n, "occupied", "completed", "available")

(* The second statement, which goes by the number: it updates every row     *)
(* that carries it, and none of a room that was deleted.                    *)
updateRoomStatus(w) ==
    /\ rest[w] # nothing
    /\ room' = [room EXCEPT ![rest[w].room] = [i \in DOMAIN @ |-> rest[w].status]]
    /\ rest' = [rest EXCEPT ![w] = nothing]
    /\ UNCHANGED <<orders, doubtful>>

(* The desk deletes a row that its list shows as available; the row goes by *)
(* its own key.                                                             *)
deleteRoom(r, i) ==
    /\ arrives(r, room[r][i] = "available")
    /\ room' = [room EXCEPT ![r] = RemoveAt(@, i)]
    /\ UNCHANGED <<orders, rest>>

(* The desk enters a room.  Nothing asks whether its number is there        *)
(* already: the new row is available whatever the others say.               *)
addRoom(r) ==
    /\ Len(room[r]) < MaxRoomRows
    /\ arrives(r, allRows(r, "available"))
    /\ room' = [room EXCEPT ![r] = Append(@, "available")]
    /\ UNCHANGED <<orders, rest>>

HotelNext ==
    \/ \E w \in Worker, g \in Guest, r \in Room : generationOrder(w, g, r)
    \/ \E w \in Worker, n \in DOMAIN orders : unsubscribe(w, n)
    \/ \E w \in Worker, n \in DOMAIN orders : checkIn(w, n)
    \/ \E w \in Worker, n \in DOMAIN orders : checkOut(w, n)
    \/ \E w \in Worker : updateRoomStatus(w)
    \/ \E r \in Room : \E i \in DOMAIN room[r] : deleteRoom(r, i)
    \/ \E r \in Room : addRoom(r)

-----------------------------------------------------------------------------
HotelTypeOK ==
    /\ room \in [Room -> Seq(RoomStatus)]
    /\ \A n \in DOMAIN orders :
          orders[n] \in [room : Room, user : Guest, status : OrderStatus,
                        seen : SUBSET OrderStatus]
    /\ rest \in [Worker -> {nothing} \cup [room : Room, status : RoomStatus]]
    /\ doubtful \subseteq Room

(* The orders that hold a room.                                             *)
live(r) == {n \in DOMAIN orders : orders[n].room = r
                /\ orders[n].status \in {"booked", "occupied"}}

(* Between requests every row of a number has the status of the one order   *)
(* that holds the room, and is available when none does; a room with an     *)
(* order has a row.  So nobody can book a room that is taken, no room stays *)
(* taken without an order and none is deleted under its guest.  That the    *)
(* order and the room are changed by two statements, that the server checks *)
(* neither a status nor whether a number is new, makes this false of a room *)
(* only when two of its requests overlapped, one came from an outdated page *)
(* or its number was entered once more while it was taken.  Entering it     *)
(* again while it is free does no harm.                                     *)
RoomFollowsOrders ==
    \A r \in Room : overlapped(r) \/ r \in doubtful \/
        \/ live(r) = {} /\ allRows(r, "available")
        \/ \E n \in live(r) :
              live(r) = {n} /\ room[r] # <<>> /\ allRows(r, orders[n].status)

=============================================================================
