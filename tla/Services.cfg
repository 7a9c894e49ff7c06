SPECIFICATION Spec
CONSTANTS
    Room = {r1}
    Guest = {g1}
    Worker = {w1, w2}
    MaxOrders = 2
    MaxRoomRows = 2
    Author = {a1}
    Msg = {m1, m2}
    Mail = {mail1}
    Handler = {h1, h2}
    Call = {c1, c2, c3, c4}
    MAX_SIZE = 2
    Watched = {x1, x2}
    Peer = {p1, p2}
    MAX_EVENTS = 5
    NumFds = 5
    MaxRequests = 2
    User = {simpledb, u1}
    Table = {default, t1}
    simpledb = simpledb
    default = default
    MaxRows = 3
    MaxClicks = 5
INVARIANTS
    TypeOK
    RoomFollowsOrders
    OneRowUnlessRaced
    MessageInOnePlace
    AnswersAreOwn
    NobodyIsCutOff
    TablesAndAccessAgree
    PanelsObeyLastClick
    MenuIsTheTree
    SelectedTabIsShown
PROPERTIES
    ConsumerIsAnswered
    BoardFollowsClients
    EveryClientIsServed
CHECK_DEADLOCK FALSE
