---------------------------- MODULE ServiceProofs ----------------------------
(* Theorems about the small services: the panels and tabs of the blog, the  *)
(* accounts of SimpleDB and the connections of its server, the microblog,   *)
(* the hotel and the broker.  The services share nothing, and each theorem  *)
(* is about one of them alone.                                              *)
EXTENDS Hotel, Microblog, Broker, DBAccounts, DBServer, BlogPanels, CmsTabs,
        FiniteSetTheorems, NaturalsInduction, WellFoundedInduction,
        SequenceTheorems, TLAPS

-----------------------------------------------------------------------------
(* The panels of the blog.                                                  *)

(* What a panel is between two events: it runs an animation only when it    *)
(* can be seen, one that slides out is in its animation or hidden, and a    *)
(* handler is bound exactly to the panel that slides or slid out.           *)
PanelOK(p) ==
    /\ p \in Panel
    /\ p.class = "In" => p.visible
    /\ p.class = "none" => ~p.visible
    /\ p.bound <=> p.class = "Out"
    /\ p.running => p.visible
    /\ p.class = "Out" => (p.running <=> p.visible)

PanelsOK ==
    /\ PanelOK(share)
    /\ PanelOK(category)
    /\ toggle \in BOOLEAN
    /\ toggle <=> ~category.visible

(* What the browser makes of a change.                                      *)
LEMMA StyledFields ==
  ASSUME NEW old \in Panel, NEW new \in Panel
  PROVE  /\ styled(old, new) \in Panel
         /\ styled(old, new).visible = new.visible
         /\ styled(old, new).class = new.class
         /\ styled(old, new).bound = new.bound
         /\ styled(old, new).running <=>
              (new.visible /\ new.class # "none"
                 /\ (new.class # old.class \/ ~old.visible \/ old.running))
<1>1. PICK runs : runs = (new.visible /\ new.class # "none"
                 /\ (new.class # old.class \/ ~old.visible \/ old.running))
  BY Zenon
<1>2. styled(old, new) = [new EXCEPT !.running = runs]
  BY <1>1, Zenon DEF styled
<1>3. runs \in BOOLEAN
  BY <1>1, Zenon
<1>4. PICK q : q = [new EXCEPT !.running = runs]
  OBVIOUS
<1>5. /\ q \in Panel /\ q.visible = new.visible /\ q.class = new.class
      /\ q.bound = new.bound /\ q.running = runs
  BY <1>3, <1>4 DEF Panel
<1> QED
  BY <1>1, <1>2, <1>4, <1>5

(* A click that opens shows the panel and leaves it consistent.              *)
LEMMA PanelIn ==
  ASSUME NEW p, PanelOK(p)
  PROVE  PanelOK(in(p)) /\ in(p).visible
<1>1. PICK t, f : t = TRUE /\ f = FALSE
  OBVIOUS
<1>2. PICK new : new = [p EXCEPT !.bound = f, !.class = "In", !.visible = t]
  OBVIOUS
<1>3. /\ new \in Panel /\ new.visible = t /\ new.bound = f
      /\ new.class = "In" /\ new.running = p.running
  <2>1. p \in Panel /\ t \in BOOLEAN /\ f \in BOOLEAN
    BY <1>1 DEF PanelOK
  <2> QED
    BY <2>1, <1>2 DEF Panel, Animation
<1>4. in(p) = styled(p, new)
  BY <1>1, <1>2, Zenon DEF in
<1>5. p \in Panel
  BY DEF PanelOK
<1>6. PICK q : q = styled(p, new)
  OBVIOUS
<1>7. /\ q \in Panel /\ q.visible = new.visible /\ q.class = new.class
      /\ q.bound = new.bound
      /\ q.running <=> (new.visible /\ new.class # "none"
             /\ (new.class # p.class \/ ~p.visible \/ p.running))
  BY <1>3, <1>5, <1>6, StyledFields
<1>8. /\ p.visible \in BOOLEAN /\ p.bound \in BOOLEAN /\ p.running \in BOOLEAN
      /\ p.class \in {"none", "In", "Out"}
  BY <1>5 DEF Panel, Animation
<1>9. PanelOK(q) /\ q.visible
  BY <1>1, <1>3, <1>7, <1>8 DEF PanelOK
<1> QED
  BY <1>4, <1>6, <1>9

(* A click that closes leaves it consistent, and hides nothing at once.      *)
LEMMA PanelOut ==
  ASSUME NEW p, PanelOK(p)
  PROVE  PanelOK(out(p)) /\ out(p).visible = p.visible
<1>1. PICK t : t = TRUE
  OBVIOUS
<1>2. PICK new : new = [p EXCEPT !.bound = t, !.class = "Out"]
  OBVIOUS
<1>3. /\ new \in Panel /\ new.visible = p.visible /\ new.bound = t
      /\ new.class = "Out" /\ new.running = p.running
  <2>1. p \in Panel /\ t \in BOOLEAN
    BY <1>1 DEF PanelOK
  <2> QED
    BY <2>1, <1>2 DEF Panel, Animation
<1>4. out(p) = styled(p, new)
  BY <1>1, <1>2, Zenon DEF out
<1>5. p \in Panel
  BY DEF PanelOK
<1>6. PICK q : q = styled(p, new)
  OBVIOUS
<1>7. /\ q \in Panel /\ q.visible = new.visible /\ q.class = new.class
      /\ q.bound = new.bound
      /\ q.running <=> (new.visible /\ new.class # "none"
             /\ (new.class # p.class \/ ~p.visible \/ p.running))
  BY <1>3, <1>5, <1>6, StyledFields
<1>8. /\ p.visible \in BOOLEAN /\ p.bound \in BOOLEAN /\ p.running \in BOOLEAN
      /\ p.class \in {"none", "In", "Out"}
  BY <1>5 DEF Panel, Animation
<1>9. PanelOK(q) /\ q.visible = p.visible
  BY <1>1, <1>3, <1>7, <1>8 DEF PanelOK
<1> QED
  BY <1>4, <1>6, <1>9

(* The end of an animation hides the panel that has a handler bound, and    *)
(* only that one.                                                           *)
LEMMA PanelEnded ==
  ASSUME NEW p, PanelOK(p), p.running
  PROVE  PanelOK(ended(p)) /\ ended(p).visible = ~p.bound
<1>1. PICK v, f : v = (p.visible /\ ~p.bound) /\ f = FALSE
  BY Zenon
<1>2. PICK old, new : /\ old = [p EXCEPT !.running = f]
                      /\ new = [p EXCEPT !.running = f, !.visible = v]
  OBVIOUS
<1>3. /\ new \in Panel /\ new.visible = v /\ new.bound = p.bound
      /\ new.class = p.class /\ new.running = f
      /\ old \in Panel /\ old.visible = p.visible /\ old.bound = p.bound
      /\ old.class = p.class /\ old.running = f
  <2>1. p \in Panel
    BY DEF PanelOK
  <2>2. v \in BOOLEAN /\ f \in BOOLEAN
    BY <1>1, Zenon
  <2> QED
    BY <2>1, <2>2, <1>2 DEF Panel, Animation
<1>4. ended(p) = styled(old, new)
  BY <1>1, <1>2, Zenon DEF ended
<1>5. p \in Panel
  BY DEF PanelOK
<1>6. PICK q : q = styled(old, new)
  OBVIOUS
<1>7. /\ q \in Panel /\ q.visible = new.visible /\ q.class = new.class
      /\ q.bound = new.bound
      /\ q.running <=> (new.visible /\ new.class # "none"
             /\ (new.class # old.class \/ ~old.visible \/ old.running))
  BY <1>3, <1>5, <1>6, StyledFields
<1>8. /\ p.visible \in BOOLEAN /\ p.bound \in BOOLEAN /\ p.running \in BOOLEAN
      /\ p.class \in {"none", "In", "Out"}
  BY <1>5 DEF Panel, Animation
<1>9. PanelOK(q) /\ q.visible = ~p.bound
  BY <1>1, <1>3, <1>7, <1>8 DEF PanelOK
<1> QED
  BY <1>4, <1>6, <1>9

(* The panels of the blog obey the last click, at any moment of any         *)
(* animation: an open panel is not hidden by the handler an earlier click   *)
(* bound, a closed one goes, and the category panel can be opened again.    *)
THEOREM PanelsFollowClicks ==
  BlogPanelsInit /\ [][BlogPanelsNext]_panelVars => []PanelsObeyLastClick
<1>1. BlogPanelsInit => PanelsOK
  <2> SUFFICES ASSUME BlogPanelsInit PROVE PanelsOK
    OBVIOUS
  <2>1. PICK f : f = FALSE
    OBVIOUS
  <2>2. /\ share = [visible |-> f, class |-> "none", bound |-> f, running |-> f]
        /\ category = share /\ toggle = TRUE
    BY <2>1, Zenon DEF BlogPanelsInit
  <2>3. f \in BOOLEAN
    BY <2>1
  <2>4. /\ share \in Panel /\ share.visible = f /\ share.class = "none"
        /\ share.bound = f /\ share.running = f
    BY <2>2, <2>3 DEF Panel, Animation
  <2>5. PanelOK(share)
    BY <2>1, <2>4 DEF PanelOK
  <2> QED
    BY <2>1, <2>2, <2>4, <2>5 DEF PanelsOK
<1>2. PanelsOK /\ [BlogPanelsNext]_panelVars => PanelsOK'
  <2> SUFFICES ASSUME PanelsOK, [BlogPanelsNext]_panelVars
               PROVE  PanelsOK'
    OBVIOUS
  <2>0. /\ PanelOK(share) /\ PanelOK(category) /\ toggle \in BOOLEAN
        /\ toggle <=> ~category.visible
    BY DEF PanelsOK
  <2>1. CASE clickShare
    BY <2>0, <2>1, PanelIn, PanelOut DEF clickShare, PanelsOK
  <2>2. CASE clickBody
    BY <2>0, <2>2, PanelOut DEF clickBody, PanelsOK
  <2>3. CASE clickToggle
    BY <2>0, <2>3, PanelIn DEF clickToggle, PanelsOK
  <2>4. CASE shareEnds
    BY <2>0, <2>4, PanelEnded DEF shareEnds, PanelsOK
  <2>5. CASE categoryEnds
    <3>1. /\ PanelOK(category') /\ category'.visible = ~category.bound
          /\ category.visible /\ share' = share
          /\ toggle' = (toggle \/ category.bound)
      BY <2>0, <2>5, PanelEnded DEF categoryEnds, PanelOK
    <3>2. category.bound \in BOOLEAN
      BY <2>0 DEF PanelOK, Panel
    <3> QED
      BY <2>0, <3>1, <3>2 DEF PanelsOK
  <2>6. CASE UNCHANGED panelVars
    BY <2>0, <2>6 DEF panelVars, PanelsOK
  <2> QED
    BY <2>1, <2>2, <2>3, <2>4, <2>5, <2>6 DEF BlogPanelsNext
<1>3. PanelsOK => PanelsObeyLastClick
  BY DEF PanelsOK, PanelOK, Panel, PanelsObeyLastClick
<1> QED
  BY <1>1, <1>2, <1>3, PTL

-----------------------------------------------------------------------------
(* The accounts of SimpleDB.                                                *)

LineRec == [user : User, rights : SUBSET Right, table : Table]

(* The two files and createTable between its two writes: in between the     *)
(* table is known and nobody has a line for it.                             *)
AccountsOK ==
    /\ tables \subseteq Table
    /\ access \in Seq(LineRec)
    /\ creating \in {nobody} \cup (User \X Table)
    /\ owner \in [Table -> User]
    /\ default \in tables
    /\ \A n \in DOMAIN access : access[n].table \in tables
    /\ \A m, n \in DOMAIN access :
          access[m].user = access[n].user /\ access[m].table = access[n].table => m = n
    /\ creating # nobody =>
          /\ creating[2] \in tables
          /\ \A n \in DOMAIN access : access[n].table # creating[2]
    /\ \A t \in tables \ cut :
          \/ t = default
          \/ \E n \in DOMAIN access : access[n].user = owner[t] /\ access[n].table = t
          \/ creating = <<owner[t], t>>

(* A line that is added is of a table that exists and the first one of its  *)
(* user and table.                                                          *)
LEMMA LineAdded ==
  ASSUME AccountsOK, NEW u \in User, NEW t \in tables, NEW rights \in SUBSET Right,
         newLine(u, rights, t), linesOf(u, t) = {}
  PROVE  /\ access' \in Seq(LineRec)
         /\ \A n \in DOMAIN access' : access'[n].table \in tables
         /\ \A m, n \in DOMAIN access' :
              access'[m].user = access'[n].user /\ access'[m].table = access'[n].table => m = n
         /\ \A n \in DOMAIN access : n \in DOMAIN access' /\ access'[n] = access[n]
         /\ \E n \in DOMAIN access' : access'[n].user = u /\ access'[n].table = t
<1>1. PICK line : line = [user |-> u, rights |-> rights, table |-> t]
  OBVIOUS
<1>2. line \in LineRec /\ line.user = u /\ line.table = t
  BY <1>1 DEF LineRec, AccountsOK
<1>3. access \in Seq(LineRec)
  BY DEF AccountsOK
<1>4. access' = Append(access, line)
  BY <1>1 DEF newLine
<1>5. /\ access' \in Seq(LineRec)
      /\ Len(access) \in Nat /\ Len(access') = Len(access) + 1
      /\ DOMAIN access = 1 .. Len(access) /\ DOMAIN access' = 1 .. (Len(access) + 1)
      /\ access'[Len(access) + 1] = line
      /\ \A n \in 1 .. Len(access) : access'[n] = access[n]
  BY <1>2, <1>3, <1>4
<1>6. \A n \in DOMAIN access : access[n].user # u \/ access[n].table # t
  BY DEF linesOf
<1>7. \A n \in DOMAIN access' : n = Len(access) + 1 \/ n \in DOMAIN access
  BY <1>5
<1>8. Len(access) + 1 \in DOMAIN access'
  BY <1>5
<1>9. \A n \in DOMAIN access : n \in DOMAIN access' /\ access'[n] = access[n]
  BY <1>5
<1>10. \A n \in DOMAIN access : access[n].table \in tables
  BY DEF AccountsOK
<1>11. \A m, n \in DOMAIN access :
          access[m].user = access[n].user /\ access[m].table = access[n].table => m = n
  BY DEF AccountsOK
<1>12. \A n \in DOMAIN access' : access'[n].table \in tables
  BY <1>2, <1>5, <1>7, <1>9, <1>10
<1>13. ASSUME NEW m \in DOMAIN access', NEW n \in DOMAIN access',
              access'[m].user = access'[n].user, access'[m].table = access'[n].table
       PROVE  m = n
  <2>1. CASE m \in DOMAIN access /\ n \in DOMAIN access
    BY <1>9, <1>11, <1>13, <2>1
  <2>2. CASE m \in DOMAIN access /\ n = Len(access) + 1
    BY <1>2, <1>5, <1>6, <1>9, <1>13, <2>2
  <2>3. CASE n \in DOMAIN access /\ m = Len(access) + 1
    BY <1>2, <1>5, <1>6, <1>9, <1>13, <2>3
  <2> QED
    BY <1>7, <2>1, <2>2, <2>3
<1> QED
  BY <1>2, <1>5, <1>8, <1>9, <1>12, <1>13

(* A user has one line for a table, and the first line is that one.         *)
LEMMA FirstLine ==
  ASSUME AccountsOK, NEW v \in User, NEW t \in Table, linesOf(v, t) # {}
  PROVE  firstLine(v, t) \in DOMAIN access
<1>1. PICK k \in linesOf(v, t) : TRUE
  OBVIOUS
<1>2. k \in DOMAIN access /\ access[k].user = v /\ access[k].table = t
  BY <1>1 DEF linesOf
<1>3. \A m \in linesOf(v, t) : m = k
  BY <1>2 DEF linesOf, AccountsOK
<1>4. access \in Seq(LineRec) /\ k \in Nat
  BY <1>2 DEF AccountsOK
<1>5. \A m \in linesOf(v, t) : k <= m
  BY <1>3, <1>4
<1>6. firstLine(v, t) \in linesOf(v, t)
  BY <1>1, <1>5 DEF firstLine
<1> QED
  BY <1>6 DEF linesOf

(* What grant and revoke change when they find a line: its rights, and      *)
(* neither its user nor its table.                                          *)
LEMMA LineChanged ==
  ASSUME AccountsOK, NEW v \in User, NEW t \in Table, linesOf(v, t) # {},
         NEW rights \in SUBSET Right,
         access' = [access EXCEPT ![firstLine(v, t)].rights = rights]
  PROVE  /\ access' \in Seq(LineRec)
         /\ DOMAIN access' = DOMAIN access
         /\ \A n \in DOMAIN access : /\ access'[n].user = access[n].user
                                     /\ access'[n].table = access[n].table
<1>1. access \in Seq(LineRec)
  BY DEF AccountsOK
<1>2. PICK k : k = firstLine(v, t)
  OBVIOUS
<1>3. k \in DOMAIN access
  BY <1>2, FirstLine
<1>8. access' = [access EXCEPT ![k] = [access[k] EXCEPT !.rights = rights]]
  BY <1>2
<1>9. PICK line : line = [access[k] EXCEPT !.rights = rights]
  OBVIOUS
<1>10. access[k] \in LineRec
  BY <1>1, <1>3
<1>11. line \in LineRec /\ line.user = access[k].user /\ line.table = access[k].table
  BY <1>9, <1>10 DEF LineRec
<1>12. access' = [access EXCEPT ![k] = line]
  BY <1>8, <1>9
<1>13. access' \in Seq(LineRec) /\ DOMAIN access' = DOMAIN access
  <2>1. k \in 1 .. Len(access)
    BY <1>1, <1>3
  <2>2. [access EXCEPT ![k] = line] \in Seq(LineRec)
    BY <1>1, <1>11, <2>1, ExceptSeq, Zenon
  <2> QED
    BY <1>12, <2>2, Zenon
<1>14. \A n \in DOMAIN access : access'[n] = IF n = k THEN line ELSE access[n]
  BY <1>12, Zenon
<1> QED
  BY <1>11, <1>13, <1>14

(* Every step of the server keeps the two files in agreement.               *)
LEMMA AccountsStep ==
  ASSUME AccountsOK, [DBAccountsNext]_accountVars
  PROVE  AccountsOK'
<1>0. /\ tables \subseteq Table /\ access \in Seq(LineRec) /\ default \in tables
      /\ creating \in {nobody} \cup (User \X Table)
      /\ owner \in [Table -> User]
      /\ nobody = <<>>
  BY DEF AccountsOK, nobody
<1>1. ASSUME NEW u \in User, NEW t \in Table, ctable(u, t)
      PROVE  AccountsOK'
  <2>1. /\ tables' = tables \cup {t} /\ creating' = <<u, t>> /\ t \notin tables
        /\ owner' = [owner EXCEPT ![t] = u] /\ access' = access /\ cut' = cut
        /\ creating = nobody
    BY <1>1 DEF ctable, isTableExist
  <2>2. creating' # nobody /\ creating'[1] = u /\ creating'[2] = t
    BY <2>1 DEF nobody
  <2>3. \A n \in DOMAIN access' : access'[n].table \in tables /\ access'[n].table # t
    BY <2>1 DEF AccountsOK
  <2>4. owner'[t] = u /\ owner' \in [Table -> User]
    BY <1>0, <2>1
  <2>5. ASSUME NEW x \in tables' \ cut'
        PROVE  \/ x = default
               \/ \E n \in DOMAIN access' : /\ access'[n].user = owner'[x]
                                             /\ access'[n].table = x
               \/ creating' = <<owner'[x], x>>
    <3>1. CASE x = t
      BY <2>1, <2>4, <3>1
    <3>2. CASE x # t
      <4>1. x \in tables \ cut /\ x \in Table
        BY <1>0, <2>1, <2>5, <3>2
      <4>2. owner'[x] = owner[x]
        BY <1>0, <2>1, <3>2, <4>1
      <4>3. creating # <<owner[x], x>>
        BY <2>1 DEF nobody
      <4> QED
        BY <2>1, <4>1, <4>2, <4>3 DEF AccountsOK
    <3> QED
      BY <3>1, <3>2
  <2>6. tables' \subseteq Table /\ default \in tables' /\ access' \in Seq(LineRec)
    BY <1>0, <2>1
  <2>7. creating' \in {nobody} \cup (User \X Table) /\ creating'[2] \in tables'
    BY <2>1, <2>2
  <2>8. \A m, n \in DOMAIN access' :
          access'[m].user = access'[n].user /\ access'[m].table = access'[n].table => m = n
    BY <2>1 DEF AccountsOK
  <2>9. \A n \in DOMAIN access' : access'[n].table \in tables'
    BY <2>1, <2>3
  <2> QED
    BY <2>2, <2>3, <2>4, <2>5, <2>6, <2>7, <2>8, <2>9 DEF AccountsOK, nobody
<1>2. ASSUME createTable
      PROVE  AccountsOK'
  <2>1. PICK u \in User, t \in Table : creating = <<u, t>>
    BY <1>0, <1>2 DEF createTable
  <2>2. /\ newLine(u, Right, t) /\ creating' = nobody
        /\ tables' = tables /\ owner' = owner /\ cut' = cut
    BY <1>2, <2>1 DEF createTable
  <2>3. t \in tables /\ \A n \in DOMAIN access : access[n].table # t
    BY <1>2, <2>1 DEF AccountsOK, createTable
  <2>4. linesOf(u, t) = {}
    BY <2>3 DEF linesOf
  <2>5. Right \in SUBSET Right
    OBVIOUS
  <2>6. /\ access' \in Seq(LineRec)
        /\ \A n \in DOMAIN access' : access'[n].table \in tables
        /\ \A m, n \in DOMAIN access' :
              access'[m].user = access'[n].user /\ access'[m].table = access'[n].table => m = n
        /\ \A n \in DOMAIN access : n \in DOMAIN access' /\ access'[n] = access[n]
        /\ \E n \in DOMAIN access' : access'[n].user = u /\ access'[n].table = t
    BY <2>2, <2>3, <2>4, <2>5, LineAdded
  <2>7. ASSUME NEW x \in tables \ cut
        PROVE  \/ x = default
               \/ \E n \in DOMAIN access' : /\ access'[n].user = owner[x]
                                             /\ access'[n].table = x
    <3>1. CASE creating = <<owner[x], x>>
      BY <2>1, <2>6, <3>1
    <3>2. CASE \E n \in DOMAIN access : access[n].user = owner[x] /\ access[n].table = x
      BY <2>6, <3>2
    <3> QED
      BY <3>1, <3>2 DEF AccountsOK
  <2> QED
    BY <1>0, <2>2, <2>6, <2>7 DEF AccountsOK, nobody
<1>3. ASSUME killed
      PROVE  AccountsOK'
  <2>1. /\ creating # nobody /\ creating' = nobody /\ cut' = cut \cup {creating[2]}
        /\ tables' = tables /\ access' = access /\ owner' = owner
    BY <1>3 DEF killed
  <2>2. ASSUME NEW x \in tables' \ cut'
        PROVE  creating # <<owner[x], x>> /\ x \in tables \ cut
    BY <2>1, <2>2
  <2> QED
    BY <1>0, <2>1, <2>2 DEF AccountsOK, nobody
<1>4. ASSUME NEW v \in User, NEW t \in tables, linesOf(v, t) # {},
             NEW rights \in SUBSET Right, creating = nobody,
             access' = [access EXCEPT ![firstLine(v, t)].rights = rights],
             UNCHANGED <<tables, creating, owner, cut>>
      PROVE  AccountsOK'
  <2>1. tables' = tables /\ creating' = creating /\ owner' = owner /\ cut' = cut
    BY <1>4
  <2>2. t \in Table
    BY <1>0
  <2>3. /\ access' \in Seq(LineRec)
        /\ DOMAIN access' = DOMAIN access
        /\ \A n \in DOMAIN access : /\ access'[n].user = access[n].user
                                     /\ access'[n].table = access[n].table
    BY <1>4, <2>2, LineChanged
  <2> HIDE <1>4
  <2>4. \A n \in DOMAIN access' : access'[n].table \in tables'
    BY <2>1, <2>3 DEF AccountsOK
  <2>5. \A m, n \in DOMAIN access' :
          access'[m].user = access'[n].user /\ access'[m].table = access'[n].table => m = n
    BY <2>3 DEF AccountsOK
  <2>6. \A x \in tables \ cut :
          \/ x = default
          \/ \E n \in DOMAIN access' : access'[n].user = owner[x] /\ access'[n].table = x
          \/ creating = <<owner[x], x>>
    BY <2>3 DEF AccountsOK
  <2>7. creating = nobody
    BY <1>4
  <2> QED
    BY <1>0, <2>1, <2>3, <2>4, <2>5, <2>6, <2>7 DEF AccountsOK, nobody
<1>5. ASSUME NEW u \in User, NEW v \in User, NEW t \in Table, NEW word \in Word,
             grant(u, v, t, word)
      PROVE  AccountsOK'
  <2>1. /\ creating = nobody /\ t \in tables
        /\ tables' = tables /\ creating' = creating /\ owner' = owner /\ cut' = cut
    BY <1>5 DEF grant, isTableExist
  <2>2. CASE linesOf(v, t) = {}
    <3>1. newLine(v, bits(word), t) /\ bits(word) \in SUBSET Right
      BY <1>5, <2>2 DEF grant, bits
    <3>2. /\ access' \in Seq(LineRec)
          /\ \A n \in DOMAIN access' : access'[n].table \in tables
          /\ \A m, n \in DOMAIN access' :
                access'[m].user = access'[n].user /\ access'[m].table = access'[n].table => m = n
          /\ \A n \in DOMAIN access : n \in DOMAIN access' /\ access'[n] = access[n]
      BY <2>1, <2>2, <3>1, LineAdded
    <3>3. \A x \in tables \ cut :
            \/ x = default
            \/ \E n \in DOMAIN access' : access'[n].user = owner[x] /\ access'[n].table = x
            \/ creating = <<owner[x], x>>
      BY <3>2 DEF AccountsOK
    <3> QED
      BY <1>0, <2>1, <3>2, <3>3 DEF AccountsOK, nobody
  <2>3. CASE linesOf(v, t) # {}
    <3>1. PICK rights : rights = access[firstLine(v, t)].rights \cup bits(word)
      OBVIOUS
    <3>2. access' = [access EXCEPT ![firstLine(v, t)].rights = rights]
      BY <1>5, <2>3, <3>1, Zenon DEF grant
    <3>3. access[firstLine(v, t)] \in LineRec
      BY <1>0, <2>1, <2>3, FirstLine
    <3>4. rights \in SUBSET Right
      BY <3>1, <3>3 DEF LineRec, bits
    <3> QED
      BY <1>4, <2>1, <2>3, <3>2, <3>4
  <2> QED
    BY <2>2, <2>3
<1>6. ASSUME NEW v \in User, NEW t \in Table, NEW word \in Word, revoke(v, t, word)
      PROVE  AccountsOK'
  <2>1. /\ creating = nobody /\ t \in tables /\ linesOf(v, t) # {}
        /\ tables' = tables /\ creating' = creating /\ owner' = owner /\ cut' = cut
    BY <1>6 DEF revoke, isTableExist
  <2>2. PICK rights : rights = access[firstLine(v, t)].rights \ bits(word)
    OBVIOUS
  <2>3. access' = [access EXCEPT ![firstLine(v, t)].rights = rights]
    BY <1>6, <2>2, Zenon DEF revoke
  <2>4. access[firstLine(v, t)] \in LineRec
    BY <1>0, <2>1, FirstLine
  <2>5. rights \in SUBSET Right
    BY <2>2, <2>4 DEF LineRec
  <2> QED
    BY <1>4, <2>1, <2>3, <2>5
<1>7. CASE UNCHANGED accountVars
  BY <1>7 DEF accountVars, AccountsOK, nobody
<1> QED
  BY <1>1, <1>2, <1>3, <1>5, <1>6, <1>7 DEF DBAccountsNext

(* The files `tables` and `access` agree for any number of users and tables,*)
(* with the server killed between the two writes of createTable any number  *)
(* of times: the creator of a table whose creation was not cut off can use  *)
(* it, every line is of a known table, and no user has two lines for one    *)
(* table, so that a revoke takes the right away.                            *)
THEOREM FilesAgree ==
  DBAccountsInit /\ [][DBAccountsNext]_accountVars => []TablesAndAccessAgree
<1>1. DBAccountsInit => AccountsOK
  <2> SUFFICES ASSUME DBAccountsInit PROVE AccountsOK
    OBVIOUS
  <2>1. /\ tables = {default} /\ access = <<>> /\ creating = nobody
        /\ owner = [t \in Table |-> simpledb] /\ cut = {}
    BY DEF DBAccountsInit
  <2>2. access \in Seq(LineRec) /\ DOMAIN access = {}
    BY <2>1
  <2>3. owner \in [Table -> User] /\ tables \subseteq Table
    BY <2>1, DBAccountsAssumption
  <2> QED
    BY <2>1, <2>2, <2>3 DEF AccountsOK
<1>2. AccountsOK /\ [DBAccountsNext]_accountVars => AccountsOK'
  BY AccountsStep
<1>3. AccountsOK => TablesAndAccessAgree
  <2> SUFFICES ASSUME AccountsOK PROVE TablesAndAccessAgree
    OBVIOUS
  <2>1. \A t \in tables \ cut :
          isAccessOK(owner[t], t) \/ creating = <<owner[t], t>>
    BY DEF AccountsOK, isAccessOK, linesOf
  <2>2. \A n \in DOMAIN access : access[n].table \in tables
    BY DEF AccountsOK
  <2>3. ASSUME NEW u \in User, NEW t \in Table
        PROVE  Cardinality(linesOf(u, t)) <= 1
    <3>1. CASE linesOf(u, t) = {}
      BY <3>1, FS_EmptySet
    <3>2. CASE linesOf(u, t) # {}
      <4>1. PICK k \in linesOf(u, t) : TRUE
        BY <3>2
      <4>2. \A m, n \in DOMAIN access :
              access[m].user = access[n].user /\ access[m].table = access[n].table => m = n
        BY DEF AccountsOK
      <4>3. \A m \in linesOf(u, t) : m = k
        BY <4>1, <4>2 DEF linesOf
      <4>4. linesOf(u, t) = {k}
        BY <4>1, <4>3
      <4>5. Cardinality({k}) = 1
        BY FS_Singleton
      <4>6. Cardinality(linesOf(u, t)) = 1
        BY <4>4, <4>5, Zenon
      <4> QED
        BY <4>6
    <3> QED
      BY <3>1, <3>2
  <2> QED
    BY <2>1, <2>2, <2>3 DEF TablesAndAccessAgree
<1> QED
  BY <1>1, <1>2, <1>3, PTL

-----------------------------------------------------------------------------
(* The microblog.                                                           *)

LookRec == [next : {"look", "insert"}, key : Once]
BuildRec == [next : {"build"}, user : Author, msgs : SUBSET Msg]

(* What a thread holds between two of its database statements: a thread     *)
(* that is to insert a row saw that there was none, and it is still so      *)
(* unless another thread was to insert the same row.                        *)
RequestsOK(s) ==
    \A h \in Handler :
        /\ s[h].next \in {"look", "insert"} => s[h] \in LookRec
        /\ s[h].next = "build" => s[h] \in BuildRec

InsertsAlone(s, n, r) ==
    /\ \A h \in Handler : s[h].next = "insert" /\ s[h].key \notin r => n[s[h].key] = 0
    /\ \A g, h \in Handler :
          s[g].next = "insert" /\ s[h].next = "insert" /\ s[g].key = s[h].key
            => g = h \/ s[h].key \in r

BlogOK ==
    /\ rows \in [Once -> Nat]
    /\ DOMAIN serving = Handler
    /\ RequestsOK(serving)
    /\ InsertsAlone(serving, rows, raced)
    /\ \A k \in Once : rows[k] > 1 => k \in raced
    /\ \A u \in broken : \E m \in Msg : <<u, m>> \in raced

(* A request that leaves its thread neither inserting nor looking changes   *)
(* nothing about the rows.                                                  *)
LEMMA RequestGoes ==
  ASSUME BlogOK, NEW h \in Handler, NEW q, goes(h, q),
         q.next \in {"look", "insert"} => q \in LookRec,
         q.next = "build" => q \in BuildRec,
         q.next # "insert",
         UNCHANGED <<rows, raced>>,
         \A u \in broken' : \E m \in Msg : <<u, m>> \in raced
  PROVE  BlogOK'
<1>1. /\ rows' = rows /\ raced' = raced
      /\ serving' = [serving EXCEPT ![h] = q] /\ DOMAIN serving = Handler
  BY DEF BlogOK, goes
<1>2. DOMAIN serving' = Handler /\ serving'[h] = q
  BY <1>1
<1>3. \A g \in Handler : g # h => serving'[g] = serving[g]
  BY <1>1
<1>4. RequestsOK(serving')
  BY <1>2, <1>3 DEF BlogOK, RequestsOK
<1>5. InsertsAlone(serving', rows, raced)
  BY <1>2, <1>3 DEF BlogOK, InsertsAlone
<1> QED
  BY <1>1, <1>2, <1>4, <1>5 DEF BlogOK

(* The look for a row, and what a thread that found none goes on to.        *)
LEMMA LookStep ==
  ASSUME BlogOK, NEW h \in Handler, selectOne(h)
  PROVE  BlogOK'
<1>1. PICK k : k = serving[h].key
  OBVIOUS
<1>2. /\ serving[h].next = "look" /\ rows' = rows /\ broken' = broken
      /\ raced' = IF inserting(k) THEN raced \cup {k} ELSE raced
      /\ goes(h, IF rows[k] = 0 THEN [serving[h] EXCEPT !.next = "insert"] ELSE idle)
      /\ DOMAIN serving = Handler /\ serving[h] \in LookRec
  BY <1>1 DEF selectOne, BlogOK, RequestsOK
<1>3. k \in Once
  BY <1>1, <1>2 DEF LookRec
<1>4. PICK q : q = IF rows[k] = 0 THEN [serving[h] EXCEPT !.next = "insert"] ELSE idle
  OBVIOUS
<1>5. \/ q \in LookRec /\ q.next = "insert" /\ q.key = k /\ rows[k] = 0
      \/ q.next = "idle"
  <2>1. CASE rows[k] = 0
    <3>1. PICK r : r = serving[h]
      OBVIOUS
    <3>2. q = [r EXCEPT !.next = "insert"] /\ r \in LookRec
      BY <1>2, <1>4, <2>1, <3>1
    <3>3. q \in LookRec /\ q.next = "insert" /\ q.key = r.key
      BY <3>2 DEF LookRec
    <3> QED
      BY <1>1, <2>1, <3>1, <3>3
  <2>2. CASE rows[k] # 0
    BY <1>4, <2>2 DEF idle
  <2> QED
    BY <2>1, <2>2
<1>6. /\ serving' = [serving EXCEPT ![h] = q] /\ DOMAIN serving' = Handler
      /\ serving'[h] = q
  BY <1>2, <1>4 DEF goes
<1>7. \A g \in Handler : g # h => serving'[g] = serving[g]
  BY <1>2, <1>6
<1>8. RequestsOK(serving')
  BY <1>5, <1>6, <1>7 DEF BlogOK, RequestsOK, LookRec
<1>9. raced \subseteq raced'
  BY <1>2
<1>10. InsertsAlone(serving', rows, raced')
  <2>1. \A g \in Handler : serving[g].next = "insert" /\ serving[g].key = k => k \in raced'
    BY <1>2 DEF inserting
  <2>2. ASSUME NEW g \in Handler, serving'[g].next = "insert", serving'[g].key \notin raced'
        PROVE  rows[serving'[g].key] = 0
    <3>1. CASE g = h
      BY <1>5, <1>6, <2>2, <3>1
    <3>2. CASE g # h
      BY <1>7, <1>9, <2>2, <3>2 DEF BlogOK, InsertsAlone
    <3> QED
      BY <3>1, <3>2
  <2>3. ASSUME NEW f \in Handler, NEW g \in Handler,
               serving'[f].next = "insert", serving'[g].next = "insert",
               serving'[f].key = serving'[g].key, f # g
        PROVE  serving'[g].key \in raced'
    <3>1. CASE f = h
      BY <1>5, <1>6, <1>7, <2>1, <2>3, <3>1
    <3>2. CASE g = h
      BY <1>5, <1>6, <1>7, <2>1, <2>3, <3>2
    <3>3. CASE f # h /\ g # h
      BY <1>7, <1>9, <2>3, <3>3 DEF BlogOK, InsertsAlone
    <3> QED
      BY <3>1, <3>2, <3>3
  <2> QED
    BY <2>2, <2>3 DEF InsertsAlone
<1> QED
  BY <1>2, <1>6, <1>8, <1>9, <1>10 DEF BlogOK

(* The insert: the row it adds is the first one, or the key was raced for.  *)
LEMMA InsertStep ==
  ASSUME BlogOK, NEW h \in Handler, insertOne(h)
  PROVE  BlogOK'
<1>1. PICK k : k = serving[h].key
  OBVIOUS
<1>2. /\ serving[h].next = "insert" /\ raced' = raced /\ broken' = broken
      /\ rows' = [rows EXCEPT ![k] = rows[k] + 1]
      /\ serving' = [serving EXCEPT ![h] = idle]
      /\ DOMAIN serving = Handler /\ serving[h] \in LookRec /\ rows \in [Once -> Nat]
  BY <1>1 DEF insertOne, BlogOK, RequestsOK, goes
<1>3. k \in Once
  BY <1>1, <1>2 DEF LookRec
<1>4. DOMAIN serving' = Handler /\ serving'[h].next = "idle"
  BY <1>2 DEF idle
<1>5. \A g \in Handler : g # h => serving'[g] = serving[g]
  BY <1>2
<1>6. rows' \in [Once -> Nat] /\ rows'[k] = rows[k] + 1 /\ rows[k] \in Nat
  BY <1>2, <1>3
<1>7. \A x \in Once : x # k => rows'[x] = rows[x]
  BY <1>2
<1>8. RequestsOK(serving')
  BY <1>4, <1>5 DEF BlogOK, RequestsOK
<1>9. k \notin raced => rows[k] = 0
  BY <1>1, <1>2 DEF BlogOK, InsertsAlone
<1>10. \A x \in Once : rows'[x] > 1 => x \in raced
  <2>1. rows'[k] > 1 => k \in raced
    BY <1>6, <1>9
  <2>2. \A x \in Once : rows[x] > 1 => x \in raced
    BY DEF BlogOK
  <2> QED
    BY <1>7, <2>1, <2>2
<1>11. \A g \in Handler : g # h /\ serving[g].next = "insert" =>
           serving[g].key \in Once /\ (serving[g].key = k => k \in raced)
  BY <1>1, <1>2 DEF BlogOK, InsertsAlone, RequestsOK, LookRec
<1>12. InsertsAlone(serving', rows', raced)
  <2>1. ASSUME NEW g \in Handler, serving'[g].next = "insert", serving'[g].key \notin raced
        PROVE  rows'[serving'[g].key] = 0
    <3>1. g # h /\ serving'[g] = serving[g]
      BY <1>4, <1>5, <2>1
    <3>2. serving[g].key # k /\ serving[g].key \in Once
      BY <1>11, <2>1, <3>1
    <3>3. rows[serving[g].key] = 0
      BY <2>1, <3>1 DEF BlogOK, InsertsAlone
    <3> QED
      BY <1>7, <3>1, <3>2, <3>3
  <2>2. ASSUME NEW f \in Handler, NEW g \in Handler,
               serving'[f].next = "insert", serving'[g].next = "insert",
               serving'[f].key = serving'[g].key, f # g
        PROVE  serving'[g].key \in raced
    BY <1>4, <1>5, <2>2 DEF BlogOK, InsertsAlone
  <2> QED
    BY <2>1, <2>2 DEF InsertsAlone
<1> QED
  BY <1>2, <1>4, <1>6, <1>8, <1>10, <1>12 DEF BlogOK

(* The list of posts: a query that fails met two rows, and their key was    *)
(* raced for.                                                               *)
LEMMA BuildStep ==
  ASSUME BlogOK, NEW h \in Handler, buildMsgRet(h)
  PROVE  BlogOK'
<1>1. PICK m \in serving[h].msgs, fails \in BOOLEAN :
         /\ fails <=> rows[<<serving[h].user, m>>] > 1
         /\ goes(h, IF fails \/ serving[h].msgs = {m} THEN idle
                    ELSE [serving[h] EXCEPT !.msgs = @ \ {m}])
         /\ broken' = IF fails THEN broken \cup {serving[h].user} ELSE broken
  BY DEF buildMsgRet
<1>2. serving[h].next = "build" /\ rows' = rows /\ raced' = raced
  BY DEF buildMsgRet
<1>3. serving[h] \in BuildRec
  BY <1>2 DEF BlogOK, RequestsOK
<1>4. PICK r : r = serving[h]
  OBVIOUS
<1>5. r.user \in Author /\ r.msgs \subseteq Msg /\ r \in BuildRec /\ m \in Msg
  BY <1>1, <1>3, <1>4 DEF BuildRec
<1>6. PICK q : q = IF fails \/ r.msgs = {m} THEN idle
                   ELSE [r EXCEPT !.msgs = r.msgs \ {m}]
  OBVIOUS
<1>7. q.next = "idle" \/ (q \in BuildRec /\ q.next = "build")
  <2>1. CASE q = idle
    BY <2>1 DEF idle
  <2>2. CASE q = [r EXCEPT !.msgs = r.msgs \ {m}]
    <3>1. PICK others : others = r.msgs \ {m}
      OBVIOUS
    <3>2. q = [r EXCEPT !.msgs = others] /\ others \in SUBSET Msg
      BY <1>5, <2>2, <3>1
    <3> QED
      BY <1>5, <3>2 DEF BuildRec
  <2> QED
    BY <1>6, <2>1, <2>2
<1>8. goes(h, q)
  BY <1>1, <1>4, <1>6, Zenon
<1>9. \A u \in broken' : \E x \in Msg : <<u, x>> \in raced
  <2>1. <<r.user, m>> \in Once
    BY <1>5 DEF Once
  <2>2. fails => <<r.user, m>> \in raced
    BY <1>1, <1>4, <2>1 DEF BlogOK
  <2> QED
    BY <1>1, <1>4, <1>5, <2>2 DEF BlogOK
<1> QED
  BY <1>2, <1>7, <1>8, <1>9, RequestGoes

(* In the microblog no query for one row ever meets two, unless two         *)
(* requests for the same row looked for it at the same time: for any number *)
(* of threads, users, posts and mails.                                      *)
THEOREM RowsAreSingle ==
  MicroblogInit /\ [][MicroblogNext]_blogVars => []OneRowUnlessRaced
<1>1. MicroblogInit => BlogOK
  <2> SUFFICES ASSUME MicroblogInit PROVE BlogOK
    OBVIOUS
  <2>1. rows \in [Once -> Nat] /\ \A k \in Once : rows[k] = 0
    BY DEF MicroblogInit
  <2>2. DOMAIN serving = Handler /\ \A h \in Handler : serving[h].next = "idle"
    BY DEF MicroblogInit, idle
  <2>3. RequestsOK(serving)
    BY <2>2 DEF RequestsOK
  <2>4. InsertsAlone(serving, rows, raced)
    BY <2>2 DEF InsertsAlone
  <2>5. broken = {}
    BY DEF MicroblogInit
  <2>6. \A k \in Once : ~(rows[k] > 1)
    BY <2>1
  <2> QED
    BY <2>1, <2>2, <2>3, <2>4, <2>5, <2>6 DEF BlogOK
<1>2. BlogOK /\ [MicroblogNext]_blogVars => BlogOK'
  <2> SUFFICES ASSUME BlogOK, [MicroblogNext]_blogVars PROVE BlogOK'
    OBVIOUS
  <2>0. \A u \in broken : \E m \in Msg : <<u, m>> \in raced
    BY DEF BlogOK
  <2>1. ASSUME NEW u \in Author, NEW m \in Msg, addMsg(u, m)
        PROVE  BlogOK'
    BY <2>1 DEF addMsg, BlogOK
  <2>2. ASSUME NEW h \in Handler, NEW u \in Author, NEW m \in Msg,
               getMsgByUserUuidAndUuid(h, u, m)
        PROVE  BlogOK'
    BY <2>0, <2>2, RequestGoes DEF getMsgByUserUuidAndUuid
  <2>3. ASSUME NEW h \in Handler, deleteMsg(h)
        PROVE  BlogOK'
    BY <2>0, <2>3, RequestGoes DEF deleteMsg, idle
  <2>4. ASSUME NEW h \in Handler, NEW u \in Author, NEW m \in Msg, getMsg(h, u, m)
        PROVE  BlogOK'
    <3>1. PICK q : q = [next |-> "look", key |-> <<u, m>>]
      OBVIOUS
    <3>2. q \in LookRec /\ q.next = "look"
      BY <3>1 DEF LookRec, Once
    <3> QED
      BY <2>0, <2>4, <3>1, <3>2, RequestGoes DEF getMsg
  <2>5. ASSUME NEW h \in Handler, NEW mail \in Mail, addUser(h, mail)
        PROVE  BlogOK'
    <3>1. PICK q : q = [next |-> "look", key |-> mail]
      OBVIOUS
    <3>2. q \in LookRec /\ q.next = "look"
      BY <3>1 DEF LookRec, Once
    <3> QED
      BY <2>0, <2>5, <3>1, <3>2, RequestGoes DEF addUser
  <2>6. ASSUME NEW h \in Handler, NEW u \in Author, getAllMsg(h, u)
        PROVE  BlogOK'
    <3>1. PICK some : some = {m \in Msg : posted(m)}
      OBVIOUS
    <3>2. PICK q : q = [next |-> "build", user |-> u, msgs |-> some]
      OBVIOUS
    <3>3. some \in SUBSET Msg
      BY <3>1
    <3>4. q \in BuildRec /\ q.next = "build"
      BY <3>2, <3>3 DEF BuildRec
    <3>5. goes(h, q) /\ UNCHANGED <<rows, raced, broken>>
      BY <2>6, <3>1, <3>2, Zenon DEF getAllMsg
    <3> QED
      BY <2>0, <3>4, <3>5, RequestGoes
  <2>7. ASSUME NEW h \in Handler, noPosts(h)
        PROVE  BlogOK'
    BY <2>0, <2>7, RequestGoes DEF noPosts, idle
  <2>8. CASE UNCHANGED blogVars
    BY <2>8 DEF blogVars, BlogOK
  <2> QED
    BY <2>1, <2>2, <2>3, <2>4, <2>5, <2>6, <2>7, <2>8, LookStep, InsertStep, BuildStep
       DEF MicroblogNext
<1>3. BlogOK => OneRowUnlessRaced
  BY DEF BlogOK, OneRowUnlessRaced
<1> QED
  BY <1>1, <1>2, <1>3, PTL

-----------------------------------------------------------------------------
(* The elements of the list, without the one at p.                          *)
Skipped(list, p, s) ==
    /\ Len(s) = Len(list) - 1
    /\ \A i \in 1 .. (Len(list) - 1) : s[i] = IF i < p THEN list[i] ELSE list[i + 1]

(* A row deleted, or a tab closed, is skipped.                              *)
LEMMA RemoveAtSkips ==
  ASSUME NEW T, NEW list \in Seq(T), NEW p \in 1 .. Len(list)
  PROVE  RemoveAt(list, p) \in Seq(T) /\ Skipped(list, p, RemoveAt(list, p))
<1> DEFINE N == Len(list)
<1>0. N \in Nat /\ p \in 1 .. N
  OBVIOUS
<1>1. PICK a, b : a = SubSeq(list, 1, p - 1) /\ b = SubSeq(list, p + 1, N)
  OBVIOUS
<1>2. a \in Seq(T) /\ Len(a) = p - 1 /\ \A i \in 1 .. (p - 1) : a[i] = list[i]
  BY <1>0, <1>1
<1>3. b \in Seq(T) /\ Len(b) = N - p /\ \A i \in 1 .. (N - p) : b[i] = list[p + i]
  BY <1>0, <1>1
<1>4. RemoveAt(list, p) = a \o b
  BY <1>1 DEF RemoveAt
<1> HIDE DEF N
<1>5. a \o b \in Seq(T) /\ Len(a \o b) = N - 1
  <2>1. a \o b \in Seq(T) /\ Len(a \o b) = Len(a) + Len(b)
    BY <1>2, <1>3, ConcatProperties
  <2>2. (p - 1) + (N - p) = N - 1
    BY <1>0
  <2> QED
    BY <1>2, <1>3, <2>1, <2>2
<1>6. ASSUME NEW i \in 1 .. (N - 1)
      PROVE  (a \o b)[i] = IF i < p THEN list[i] ELSE list[i + 1]
  <2>1. CASE i < p
    BY <1>0, <1>2, <1>3, <2>1
  <2>2. CASE ~(i < p)
    <3>1. i - (p - 1) \in 1 .. (N - p) /\ p + (i - (p - 1)) = i + 1 /\ i > Len(a)
      BY <1>0, <1>2, <2>2
    <3>2. (a \o b)[i] = b[i - (p - 1)]
      BY <1>0, <1>2, <1>3, <3>1
    <3> QED
      BY <1>3, <2>2, <3>1, <3>2
  <2> QED
    BY <2>1, <2>2
<1> QED
  BY <1>4, <1>5, <1>6 DEF Skipped, N

-----------------------------------------------------------------------------
(* The hotel.                                                               *)

OrderRec == [room : Room, user : Guest, status : OrderStatus, seen : SUBSET OrderStatus]
RestRec == [room : Room, status : RoomStatus]

(* The status agrees with the orders that hold the room.                    *)
Agrees(r, status) ==
    \/ live(r) = {} /\ status = "available"
    \/ \E n \in live(r) : live(r) = {n} /\ status = orders[n].status

(* All rows have it.                                                        *)
Uniform(marks, status) == \A i \in DOMAIN marks : marks[i] = status

(* The rows of the room do; a room that is held has one.                    *)
Follows(r, marks) ==
    \/ live(r) = {} /\ Uniform(marks, "available")
    \/ \E n \in live(r) : live(r) = {n} /\ marks # <<>> /\ Uniform(marks, orders[n].status)

Pending(w, r) == rest[w] # nothing /\ rest[w].room = r

(* Of a room that is not doubtful at most one request is under way, and     *)
(* the status it is about to set agrees with the orders already; when none  *)
(* is, its rows do.                                                         *)
RoomOK(r) ==
    /\ ~overlapped(r) => Follows(r, room[r])
    /\ \A w \in Worker : Pending(w, r) =>
          /\ Agrees(r, rest[w].status)
          /\ room[r] # <<>>
          /\ \A v \in Worker : Pending(v, r) => v = w

HotelTypes ==
    /\ room \in [Room -> Seq(RoomStatus)]
    /\ orders \in Seq(OrderRec)
    /\ DOMAIN rest = Worker
    /\ \A w \in Worker : rest[w] # nothing => rest[w] \in RestRec
    /\ doubtful \subseteq Room

HotelOK == HotelTypes /\ \A r \in Room \ doubtful : RoomOK(r)

(* A request that is under way is something.                                *)
LEMMA RequestIsSomething ==
  ASSUME NEW r, NEW s
  PROVE  [room |-> r, status |-> s] # nothing
<1>1. "room" \in DOMAIN [room |-> r, status |-> s]
  OBVIOUS
<1>2. DOMAIN nothing = {}
  BY DEF nothing
<1> QED
  BY <1>1, <1>2

(* The first half of a request: the order is changed, and the room's new    *)
(* status is agreed upon but not yet set.  The room was followed by its     *)
(* orders before, if the page was true and nobody overlapped.               *)
LEMMA RequestStarts ==
  ASSUME HotelOK, NEW w \in Worker, NEW r \in Room, NEW status \in RoomStatus,
         NEW page \in BOOLEAN, arrives(r, page), thenRoom(w, r, status),
         UNCHANGED room, orders' \in Seq(OrderRec),
         \A s \in Room : s # r =>
            /\ live(s)' = live(s)
            /\ \A n \in live(s) : orders'[n].status = orders[n].status,
         page /\ Follows(r, room[r]) => Agrees(r, status)' /\ room[r] # <<>>
  PROVE  HotelOK'
<1>1. /\ rest[w] = nothing /\ room' = room
      /\ rest' = [rest EXCEPT ![w] = [room |-> r, status |-> status]]
      /\ doubtful' = IF overlapped(r) \/ ~page THEN doubtful \cup {r} ELSE doubtful
  BY DEF arrives, thenRoom
<1>2. PICK q : q = [room |-> r, status |-> status]
  OBVIOUS
<1>3. q \in RestRec /\ q.room = r /\ q.status = status /\ q # nothing
  BY <1>2, RequestIsSomething DEF RestRec
<1>4. DOMAIN rest' = Worker /\ rest'[w] = q
  BY <1>1, <1>2 DEF HotelOK, HotelTypes
<1>5. \A v \in Worker : v # w => rest'[v] = rest[v]
  BY <1>1 DEF HotelOK, HotelTypes
<1>6. HotelTypes'
  <2>1. \A v \in Worker : rest'[v] # nothing => rest'[v] \in RestRec
    BY <1>3, <1>4, <1>5 DEF HotelOK, HotelTypes
  <2> QED
    BY <1>1, <1>4, <2>1 DEF HotelOK, HotelTypes, nothing
<1>7. Pending(w, r)' /\ overlapped(r)'
  BY <1>3, <1>4 DEF Pending, overlapped, nothing
<1>8. \A v \in Worker, s \in Room : v # w => (Pending(v, s)' <=> Pending(v, s))
  BY <1>5 DEF Pending, nothing
<1>9. ASSUME r \notin doubtful'
      PROVE  RoomOK(r)'
  <2>1. page /\ ~overlapped(r) /\ r \notin doubtful
    BY <1>1, <1>9
  <2>2. Follows(r, room[r])
    BY <2>1 DEF HotelOK, RoomOK
  <2>3. Agrees(r, status)' /\ room[r] # <<>>
    BY <2>1, <2>2
  <2>4. \A v \in Worker : Pending(v, r)' => v = w
    BY <1>8, <2>1 DEF overlapped, Pending
  <2>5. rest'[w].status = status
    BY <1>3, <1>4
  <2>6. \A v \in Worker : Pending(v, r)' => Agrees(r, rest[v].status)'
    BY <2>3, <2>4, <2>5 DEF Agrees
  <2> QED
    BY <1>1, <1>7, <2>3, <2>4, <2>6 DEF RoomOK
<1>10. ASSUME NEW s \in Room \ doubtful', s # r
       PROVE  RoomOK(s)'
  <2>1. s \notin doubtful /\ ~Pending(w, s)'
    BY <1>1, <1>3, <1>4, <1>10 DEF Pending, nothing
  <2>2. ~Pending(w, s)
    BY <1>1 DEF Pending
  <2>3. \A v \in Worker : Pending(v, s)' <=> Pending(v, s)
    BY <1>8, <2>1, <2>2
  <2>4. overlapped(s)' <=> overlapped(s)
    <3>1. overlapped(s)' <=> \E v \in Worker : Pending(v, s)'
      BY DEF overlapped, Pending
    <3>2. overlapped(s) <=> \E v \in Worker : Pending(v, s)
      BY DEF overlapped, Pending
    <3> QED
      BY <2>3, <3>1, <3>2
  <2>5. RoomOK(s)
    BY <2>1 DEF HotelOK
  <2>6. ASSUME NEW x
        PROVE  (Follows(s, x) => Follows(s, x)') /\ (Agrees(s, x) => Agrees(s, x)')
    BY <1>10 DEF Follows, Agrees, Uniform
  <2>7. ~overlapped(s)' => Follows(s, room[s])'
    BY <1>1, <2>4, <2>5, <2>6 DEF RoomOK, Follows
  <2>8. ASSUME NEW v \in Worker, Pending(v, s)'
        PROVE  Agrees(s, rest[v].status)'
    <3>1. v # w /\ Pending(v, s) /\ rest'[v] = rest[v]
      BY <1>5, <2>1, <2>3, <2>8
    <3>2. Agrees(s, rest[v].status)
      BY <2>5, <3>1 DEF RoomOK
    <3>3. PICK x : x = rest[v].status
      OBVIOUS
    <3>4. Agrees(s, x)'
      BY <2>6, <3>2, <3>3
    <3> QED
      BY <3>1, <3>3, <3>4 DEF Agrees
  <2> QED
    BY <1>1, <2>3, <2>5, <2>7, <2>8 DEF RoomOK
<1> QED
  BY <1>6, <1>9, <1>10 DEF HotelOK

(* The booking adds one order, which holds the room.                        *)
LEMMA BookStep ==
  ASSUME HotelOK, NEW w \in Worker, NEW g \in Guest, NEW r \in Room,
         generationOrder(w, g, r)
  PROVE  HotelOK'
<1>1. PICK o : o = [room |-> r, user |-> g, status |-> "booked", seen |-> {"booked"}]
  OBVIOUS
<1>2. o \in OrderRec /\ o.room = r /\ o.status = "booked"
  BY <1>1 DEF OrderRec, OrderStatus
<1>3. /\ orders' = Append(orders, o) /\ room' = room
      /\ arrives(r, someRow(r, "available")) /\ thenRoom(w, r, "booked")
  BY <1>1, Zenon DEF generationOrder
<1>4. orders \in Seq(OrderRec)
  BY DEF HotelOK, HotelTypes
<1>5. /\ orders' \in Seq(OrderRec) /\ Len(orders) \in Nat
      /\ DOMAIN orders = 1 .. Len(orders) /\ DOMAIN orders' = 1 .. (Len(orders) + 1)
      /\ orders'[Len(orders) + 1] = o
      /\ \A n \in 1 .. Len(orders) : orders'[n] = orders[n]
  BY <1>2, <1>3, <1>4
<1>6. PICK k : k = Len(orders) + 1
  OBVIOUS
<1>7. /\ DOMAIN orders' = DOMAIN orders \cup {k} /\ k \notin DOMAIN orders
      /\ orders'[k] = o
      /\ \A n \in DOMAIN orders : orders'[n] = orders[n]
  BY <1>5, <1>6
<1>8. ASSUME NEW s \in Room, s # r
      PROVE  /\ live(s)' = live(s)
             /\ \A n \in live(s) : orders'[n].status = orders[n].status
  BY <1>2, <1>7, <1>8 DEF live
<1>9. live(r)' = live(r) \cup {k}
  BY <1>2, <1>7 DEF live
<1>10. ASSUME someRow(r, "available"), Follows(r, room[r])
       PROVE  Agrees(r, "booked")' /\ room[r] # <<>>
  <2>0. PICK i \in DOMAIN room[r] : room[r][i] = "available"
    BY <1>10 DEF someRow
  <2>1. live(r) = {}
    BY <1>10, <2>0 DEF Follows, Uniform, live
  <2>2. live(r)' = {k} /\ orders'[k].status = "booked"
    BY <1>2, <1>7, <1>9, <2>1
  <2> QED
    BY <2>0, <2>2 DEF Agrees
<1>11. PICK page \in BOOLEAN : page = someRow(r, "available")
  BY Zenon DEF someRow
<1>12. arrives(r, page)
  BY <1>3, <1>11, Zenon
<1>13. page /\ Follows(r, room[r]) => Agrees(r, "booked")' /\ room[r] # <<>>
  BY <1>10, <1>11
<1> QED
  BY <1>3, <1>5, <1>8, <1>12, <1>13, RequestStarts DEF RoomStatus

(* A change of an order that the page still shows as it is: the order held  *)
(* the room, and what it becomes agrees with the room's new status.         *)
LEMMA OrderStep ==
  ASSUME HotelOK, NEW w \in Worker, NEW n \in DOMAIN orders,
         NEW page \in {"booked", "occupied"}, NEW status \in OrderStatus,
         NEW roomStatus \in RoomStatus,
         \/ status = "occupied" /\ roomStatus = "occupied"
         \/ status \in {"unsubscribed", "completed"} /\ roomStatus = "available",
         updateOrderStatus(w, n, page, status, roomStatus)
  PROVE  HotelOK'
<1>1. PICK r : r = orders[n].room
  OBVIOUS
<1>2. orders \in Seq(OrderRec) /\ orders[n] \in OrderRec
  BY DEF HotelOK, HotelTypes
<1>3. r \in Room /\ orders[n].status \in OrderStatus /\ orders[n].seen \subseteq OrderStatus
  BY <1>1, <1>2 DEF OrderRec
<1>4. PICK seen : seen = orders[n].seen \cup {status}
  OBVIOUS
<1>5. PICK o : o = [[orders[n] EXCEPT !.status = status] EXCEPT !.seen = seen]
  OBVIOUS
<1>6. seen \in SUBSET OrderStatus
  BY <1>3, <1>4
<1>7. o \in OrderRec /\ o.room = r /\ o.status = status
  <2>1. PICK p : p = orders[n]
    OBVIOUS
  <2>2. p \in OrderRec /\ p.room = r /\ o = [[p EXCEPT !.status = status] EXCEPT !.seen = seen]
    BY <1>1, <1>2, <1>5, <2>1
  <2> QED
    BY <1>6, <2>2 DEF OrderRec
<1>8. orders' = [orders EXCEPT ![n] = o]
  BY <1>4, <1>5 DEF updateOrderStatus
<1>9. /\ room' = room /\ thenRoom(w, r, roomStatus)
      /\ arrives(r, orders[n].status = page)
  BY <1>1, Zenon DEF updateOrderStatus
<1>10. n \in 1 .. Len(orders)
  BY <1>2
<1>11. orders' \in Seq(OrderRec) /\ DOMAIN orders' = DOMAIN orders
  BY <1>2, <1>7, <1>8, <1>10, ExceptSeq, Zenon
<1>12. orders'[n] = o /\ \A m \in DOMAIN orders : m # n => orders'[m] = orders[m]
  BY <1>8, <1>10, Zenon
<1>13. ASSUME NEW s \in Room, s # r
       PROVE  /\ live(s)' = live(s)
              /\ \A m \in live(s) : orders'[m].status = orders[m].status
  BY <1>1, <1>7, <1>11, <1>12, <1>13 DEF live
<1>14. ASSUME orders[n].status = page, Follows(r, room[r])
       PROVE  Agrees(r, roomStatus)' /\ room[r] # <<>>
  <2>1. n \in live(r)
    BY <1>1, <1>14 DEF live
  <2>2. live(r) = {n} /\ room[r] # <<>>
    BY <1>14, <2>1 DEF Follows
  <2>3. CASE status = "occupied" /\ roomStatus = "occupied"
    <3>1. live(r)' = {n}
      BY <1>7, <1>11, <1>12, <2>2, <2>3 DEF live
    <3> QED
      BY <1>7, <1>12, <2>2, <2>3, <3>1 DEF Agrees
  <2>4. CASE status \in {"unsubscribed", "completed"} /\ roomStatus = "available"
    <3>1. live(r)' = {}
      BY <1>7, <1>11, <1>12, <2>2, <2>4 DEF live
    <3> QED
      BY <2>2, <2>4, <3>1 DEF Agrees
  <2> QED
    BY <2>3, <2>4
<1>15. PICK fresh \in BOOLEAN : fresh = (orders[n].status = page)
  BY Zenon
<1>16. arrives(r, fresh)
  BY <1>9, <1>15, Zenon
<1>17. fresh /\ Follows(r, room[r]) => Agrees(r, roomStatus)' /\ room[r] # <<>>
  BY <1>14, <1>15
<1> QED
  BY <1>3, <1>9, <1>11, <1>13, <1>16, <1>17, RequestStarts

(* The second statement of a request makes every row what was agreed upon.  *)
LEMMA RoomStep ==
  ASSUME HotelOK, NEW w \in Worker, updateRoomStatus(w)
  PROVE  HotelOK'
<1>1. PICK r, status : r = rest[w].room /\ status = rest[w].status
  OBVIOUS
<1>2. /\ rest[w] # nothing /\ orders' = orders /\ doubtful' = doubtful
      /\ room' = [room EXCEPT ![r] = [i \in DOMAIN room[r] |-> status]]
      /\ rest' = [rest EXCEPT ![w] = nothing]
  BY <1>1 DEF updateRoomStatus
<1>3. HotelTypes
  BY DEF HotelOK
<1>4. r \in Room /\ status \in RoomStatus
  BY <1>1, <1>2, <1>3 DEF HotelTypes, RestRec
<1>5. DOMAIN rest' = Worker /\ rest'[w] = nothing
  BY <1>2, <1>3 DEF HotelTypes
<1>6. \A v \in Worker : v # w => rest'[v] = rest[v]
  BY <1>2, <1>3 DEF HotelTypes
<1>7. /\ room' \in [Room -> Seq(RoomStatus)]
      /\ room'[r] = [i \in DOMAIN room[r] |-> status]
      /\ \A s \in Room : s # r => room'[s] = room[s]
  <2>1. PICK marks : marks = [i \in DOMAIN room[r] |-> status]
    OBVIOUS
  <2>2. room[r] \in Seq(RoomStatus)
    BY <1>3, <1>4 DEF HotelTypes
  <2>3. marks \in Seq(RoomStatus)
    BY <1>4, <2>1, <2>2
  <2> QED
    BY <1>2, <1>3, <1>4, <2>1, <2>3 DEF HotelTypes
<1>8. HotelTypes'
  BY <1>2, <1>3, <1>5, <1>6, <1>7 DEF HotelTypes, nothing
<1>9. \A s, x : (Follows(s, x)' <=> Follows(s, x)) /\ (Agrees(s, x)' <=> Agrees(s, x))
  BY <1>2 DEF Follows, Agrees, Uniform, live
<1>10. \A v \in Worker, s \in Room : Pending(v, s)' <=> v # w /\ Pending(v, s)
  BY <1>5, <1>6 DEF Pending, nothing
<1>11. ASSUME NEW s \in Room \ doubtful'
       PROVE  RoomOK(s)'
  <2>1. RoomOK(s)
    BY <1>2 DEF HotelOK
  <2>2. overlapped(s)' <=> \E v \in Worker : Pending(v, s)'
    BY DEF overlapped, Pending
  <2>3. overlapped(s) <=> \E v \in Worker : Pending(v, s)
    BY DEF overlapped, Pending
  <2>4. CASE s = r
    <3>1. Pending(w, r)
      BY <1>1, <1>2 DEF Pending
    <3>2. /\ Agrees(r, status) /\ room[r] # <<>>
          /\ \A v \in Worker : Pending(v, r) => v = w
      BY <1>1, <2>1, <2>4, <3>1 DEF RoomOK
    <3>3. \A v \in Worker : ~Pending(v, r)'
      BY <1>4, <1>10, <3>2
    <3>4. DOMAIN room'[r] = DOMAIN room[r] /\ \A i \in DOMAIN room'[r] : room'[r][i] = status
      BY <1>7
    <3>5. Agrees(r, status)'
      BY <1>9, <3>2
    <3>6. room'[r] # <<>>
      <4>1. room[r] \in Seq(RoomStatus) /\ room'[r] \in Seq(RoomStatus)
        BY <1>3, <1>4, <1>7 DEF HotelTypes
      <4>2. 1 \in DOMAIN room[r]
        <5>1. Len(room[r]) \in Nat \ {0} /\ DOMAIN room[r] = 1 .. Len(room[r])
          BY <3>2, <4>1, EmptySeq
        <5> QED
          BY <5>1
      <4>3. 1 \in DOMAIN room'[r] /\ DOMAIN <<>> = {}
        BY <3>4, <4>2
      <4> QED
        BY <4>3
    <3>7. Follows(r, room[r])'
      BY <3>4, <3>5, <3>6 DEF Follows, Agrees, Uniform
    <3> QED
      BY <2>4, <3>3, <3>7 DEF RoomOK
  <2>5. CASE s # r
    <3>1. ~Pending(w, s)
      BY <1>1, <2>5 DEF Pending
    <3>2. \A v \in Worker : Pending(v, s)' <=> Pending(v, s)
      BY <1>10, <3>1
    <3>3. room'[s] = room[s]
      BY <1>7, <2>5
    <3>4. ~overlapped(s)' => Follows(s, room[s])'
      <4>1. ~overlapped(s)' => ~overlapped(s)
        BY <2>2, <2>3, <3>2
      <4>2. ~overlapped(s) => Follows(s, room[s])
        BY <2>1 DEF RoomOK
      <4>3. PICK x : x = room[s]
        OBVIOUS
      <4>4. Follows(s, x) => Follows(s, x)'
        BY <1>9
      <4>5. Follows(s, x)' => Follows(s, room[s])'
        BY <3>3, <4>3 DEF Follows, Uniform
      <4> QED
        BY <4>1, <4>2, <4>3, <4>4, <4>5
    <3>5. ASSUME NEW v \in Worker, Pending(v, s)'
          PROVE  Agrees(s, rest[v].status)'
      <4>1. v # w /\ Pending(v, s) /\ rest'[v] = rest[v]
        BY <1>6, <1>10, <3>5
      <4>2. Agrees(s, rest[v].status)
        BY <2>1, <4>1 DEF RoomOK
      <4>3. PICK x : x = rest[v].status
        OBVIOUS
      <4>4. Agrees(s, x)'
        BY <1>9, <4>2, <4>3
      <4> QED
        BY <4>1, <4>3, <4>4 DEF Agrees
    <3> QED
      BY <2>1, <3>2, <3>3, <3>4, <3>5 DEF RoomOK
  <2> QED
    BY <2>4, <2>5
<1> QED
  BY <1>8, <1>11 DEF HotelOK

(* The desk deletes a row or enters one; a request on the room that is      *)
(* under way makes the room doubtful.  A room that is free stays free.      *)
LEMMA DeskStep ==
  ASSUME HotelOK, NEW r \in Room, NEW marks \in Seq(RoomStatus),
         NEW fresh \in BOOLEAN, arrives(r, fresh),
         fresh /\ Follows(r, room[r]) => live(r) = {} /\ Uniform(marks, "available"),
         room' = [room EXCEPT ![r] = marks], UNCHANGED <<orders, rest>>
  PROVE  HotelOK'
<1>1. /\ orders' = orders /\ rest' = rest
      /\ doubtful' = IF overlapped(r) \/ ~fresh THEN doubtful \cup {r} ELSE doubtful
  BY DEF arrives
<1>2. HotelTypes
  BY DEF HotelOK
<1>3. /\ room' \in [Room -> Seq(RoomStatus)] /\ room'[r] = marks
      /\ \A s \in Room : s # r => room'[s] = room[s]
  BY <1>2 DEF HotelTypes
<1>4. HotelTypes'
  BY <1>1, <1>2, <1>3 DEF HotelTypes
<1>5. \A s, x : (Follows(s, x)' <=> Follows(s, x)) /\ (Agrees(s, x)' <=> Agrees(s, x))
  BY <1>1 DEF Follows, Agrees, Uniform, live
<1>6. \A s : (overlapped(s)' <=> overlapped(s)) /\ \A v \in Worker : Pending(v, s)' <=> Pending(v, s)
  BY <1>1 DEF overlapped, Pending
<1>7. ASSUME r \notin doubtful'
      PROVE  RoomOK(r)'
  <2>1. ~overlapped(r) /\ fresh /\ r \notin doubtful
    BY <1>1, <1>7
  <2>2. Follows(r, room[r])
    BY <2>1 DEF HotelOK, RoomOK
  <2>3. live(r) = {} /\ Uniform(marks, "available")
    BY <2>1, <2>2
  <2>4. Follows(r, marks)'
    BY <1>5, <2>3 DEF Follows
  <2>5. Follows(r, room[r])'
    BY <1>3, <2>4 DEF Follows, Uniform
  <2>6. \A v \in Worker : ~Pending(v, r)'
    BY <1>6, <2>1 DEF overlapped, Pending
  <2> QED
    BY <2>5, <2>6 DEF RoomOK
<1>8. ASSUME NEW s \in Room \ doubtful', s # r
      PROVE  RoomOK(s)'
  <2>1. RoomOK(s) /\ room'[s] = room[s]
    BY <1>1, <1>3, <1>8 DEF HotelOK
  <2>2. ASSUME ~overlapped(s)'
        PROVE  Follows(s, room[s])'
    <3>1. PICK x : x = room[s]
      OBVIOUS
    <3>2. Follows(s, x)
      BY <1>6, <2>1, <2>2, <3>1 DEF RoomOK
    <3>3. Follows(s, x)' /\ room'[s] = x
      BY <1>5, <2>1, <3>1, <3>2
    <3> QED
      BY <3>3 DEF Follows, Uniform
  <2>3. ASSUME NEW v \in Worker, Pending(v, s)'
        PROVE  Agrees(s, rest[v].status)'
    <3>1. PICK x : x = rest[v].status
      OBVIOUS
    <3>2. Agrees(s, x)
      BY <1>6, <2>1, <2>3, <3>1 DEF RoomOK
    <3>3. Agrees(s, x)' /\ rest'[v].status = x
      BY <1>1, <1>5, <3>1, <3>2
    <3> QED
      BY <3>3 DEF Agrees
  <2> QED
    BY <1>6, <2>1, <2>2, <2>3 DEF RoomOK
<1> QED
  BY <1>4, <1>7, <1>8 DEF HotelOK

(* Every step of the hotel keeps the rooms that are not doubtful in         *)
(* agreement with their orders.                                             *)
LEMMA HotelStep ==
  ASSUME HotelOK, [HotelNext]_hotelVars
  PROVE  HotelOK'
<1>1. ASSUME NEW w \in Worker, NEW n \in DOMAIN orders, unsubscribe(w, n)
      PROVE  HotelOK'
  BY <1>1, OrderStep DEF unsubscribe, OrderStatus, RoomStatus
<1>2. ASSUME NEW w \in Worker, NEW n \in DOMAIN orders, checkIn(w, n)
      PROVE  HotelOK'
  BY <1>2, OrderStep DEF checkIn, OrderStatus, RoomStatus
<1>3. ASSUME NEW w \in Worker, NEW n \in DOMAIN orders, checkOut(w, n)
      PROVE  HotelOK'
  BY <1>3, OrderStep DEF checkOut, OrderStatus, RoomStatus
<1>0. room \in [Room -> Seq(RoomStatus)]
  BY DEF HotelOK, HotelTypes
<1>4. ASSUME NEW r \in Room, NEW i \in DOMAIN room[r], deleteRoom(r, i)
      PROVE  HotelOK'
  <2>1. PICK fresh \in BOOLEAN : fresh = (room[r][i] = "available")
    BY Zenon
  <2>2. arrives(r, fresh) /\ UNCHANGED <<orders, rest>>
    BY <1>4, <2>1, Zenon DEF deleteRoom
  <2>3. PICK old, marks : old = room[r] /\ marks = RemoveAt(room[r], i)
    OBVIOUS
  <2>4. old \in Seq(RoomStatus) /\ i \in 1 .. Len(old)
    BY <1>0, <1>4, <2>3
  <2>5. marks \in Seq(RoomStatus) /\ Skipped(old, i, marks)
    BY <2>3, <2>4, RemoveAtSkips
  <2>6. ASSUME fresh, Follows(r, room[r])
        PROVE  live(r) = {} /\ Uniform(marks, "available")
    <3>1. live(r) = {} /\ \A j \in DOMAIN old : old[j] = "available"
      BY <1>4, <2>1, <2>3, <2>6 DEF Follows, Uniform, live
    <3>2. ASSUME NEW j \in DOMAIN marks
          PROVE  marks[j] = "available"
      <4>1. /\ Len(old) \in Nat /\ DOMAIN old = 1 .. Len(old)
            /\ DOMAIN marks = 1 .. Len(marks) /\ Len(marks) = Len(old) - 1
            /\ marks[j] = IF j < i THEN old[j] ELSE old[j + 1]
        BY <2>4, <2>5, <3>2 DEF Skipped
      <4>2. j \in DOMAIN old /\ j + 1 \in DOMAIN old
        BY <3>2, <4>1
      <4> QED
        BY <3>1, <4>1, <4>2
    <3> QED
      BY <3>1, <3>2 DEF Uniform
  <2>7. room' = [room EXCEPT ![r] = marks]
    BY <1>4, <2>3, Zenon DEF deleteRoom
  <2> QED
    BY <2>2, <2>5, <2>6, <2>7, DeskStep
<1>5. ASSUME NEW r \in Room, addRoom(r)
      PROVE  HotelOK'
  <2>1. PICK fresh \in BOOLEAN : fresh = allRows(r, "available")
    BY Zenon DEF allRows
  <2>2. arrives(r, fresh) /\ UNCHANGED <<orders, rest>>
    BY <1>5, <2>1, Zenon DEF addRoom
  <2>3. PICK old, marks : old = room[r] /\ marks = Append(room[r], "available")
    OBVIOUS
  <2>4. old \in Seq(RoomStatus) /\ Len(old) \in Nat /\ DOMAIN old = 1 .. Len(old)
    BY <1>0, <2>3
  <2>5. /\ marks \in Seq(RoomStatus) /\ DOMAIN marks = 1 .. (Len(old) + 1)
        /\ marks[Len(old) + 1] = "available"
        /\ \A j \in 1 .. Len(old) : marks[j] = old[j]
    BY <2>3, <2>4 DEF RoomStatus
  <2>6. ASSUME fresh, Follows(r, room[r])
        PROVE  live(r) = {} /\ Uniform(marks, "available")
    <3>1. \A j \in DOMAIN old : old[j] = "available"
      BY <2>1, <2>3, <2>6 DEF allRows
    <3>2. ASSUME old # <<>>
          PROVE  1 \in DOMAIN old
      <4>1. Len(old) # 0
        BY <2>4, <3>2, EmptySeq
      <4> QED
        BY <2>4, <4>1
    <3>3. live(r) = {}
      BY <2>3, <2>6, <3>1, <3>2 DEF Follows, Uniform, live
    <3>4. \A j \in 1 .. (Len(old) + 1) : j = Len(old) + 1 \/ j \in 1 .. Len(old)
      BY <2>4
    <3>5. Uniform(marks, "available")
      BY <2>4, <2>5, <3>1, <3>4 DEF Uniform
    <3> QED
      BY <3>3, <3>5
  <2>7. room' = [room EXCEPT ![r] = marks]
    BY <1>5, <2>3, Zenon DEF addRoom
  <2> QED
    BY <2>2, <2>5, <2>6, <2>7, DeskStep
<1>6. CASE UNCHANGED hotelVars
  BY <1>6 DEF hotelVars, HotelOK, HotelTypes, RoomOK, Follows, Agrees, Uniform,
              Pending, overlapped, live, nothing
<1> QED
  BY <1>1, <1>2, <1>3, <1>4, <1>5, <1>6, BookStep, RoomStep DEF HotelNext

(* A room follows its orders, for any number of rooms, rows, guests,        *)
(* threads and orders: what makes it differ is two of its requests that     *)
(* overlapped, one that came from a page no longer true or its number       *)
(* entered again while it was taken, and nothing else.                      *)
THEOREM RoomsFollow ==
  HotelInit /\ [][HotelNext]_hotelVars => []RoomFollowsOrders
<1>1. HotelInit => HotelOK
  <2> SUFFICES ASSUME HotelInit PROVE HotelOK
    OBVIOUS
  <2>1. /\ room = [r \in Room |-> <<"available">>] /\ orders = <<>>
        /\ rest = [w \in Worker |-> nothing] /\ doubtful = {}
    BY DEF HotelInit
  <2>2. orders \in Seq(OrderRec) /\ DOMAIN orders = {}
    BY <2>1
  <2>3. HotelTypes
    BY <2>1, <2>2 DEF HotelTypes, RoomStatus
  <2>4. \A r \in Room : live(r) = {} /\ Uniform(room[r], "available")
    BY <2>1, <2>2 DEF live, Uniform
  <2>5. \A w \in Worker : rest[w] = nothing
    BY <2>1
  <2> QED
    BY <2>3, <2>4, <2>5 DEF HotelOK, RoomOK, Follows, Pending
<1>2. HotelOK /\ [HotelNext]_hotelVars => HotelOK'
  BY HotelStep
<1>3. HotelOK => RoomFollowsOrders
  BY DEF HotelOK, RoomOK, Follows, Uniform, allRows, RoomFollowsOrders
<1> QED
  BY <1>1, <1>2, <1>3, PTL

-----------------------------------------------------------------------------
(* The broker.                                                              *)

ClientRec == [is : {"unmade", "waits", "answered", "gone"},
              role : Role \cup {None}, line : Line \cup {None}]

(* A connection's thread starts with its call and serves its line once.     *)
ThreadsOK ==
    /\ client \in [Call -> ClientRec]
    /\ thread \in [Call -> {"none", "line", "readLine"}]
    /\ \A c \in Call : client[c].is = "unmade" => thread[c] = "none"
    /\ \A c \in Call : thread[c] # "none" => client[c].line \in Line
    /\ \A c \in Call : thread[c] # "readLine" => answer[c] = None

(* The places of a message exclude each other, each holds it once, and      *)
(* there is no fourth place for one that was served.                        *)
PlacesOK(q, a, r, s) ==
    /\ q \in Seq(Call)
    /\ a \in [Call -> Call \cup {None, null}]
    /\ r \subseteq s /\ s \subseteq Call
    /\ \A i \in DOMAIN q : q[i] \in s /\ q[i] \notin r /\ \A c \in Call : a[c] # q[i]
    /\ \A i, j \in DOMAIN q : q[i] = q[j] => i = j
    /\ \A c \in Call : a[c] \in Call => a[c] \in s /\ a[c] \notin r
    /\ \A c, d \in Call : a[c] \in Call /\ a[c] = a[d] => c = d
    /\ \A m \in s : \/ m \in r
                    \/ \E i \in DOMAIN q : q[i] = m
                    \/ \E c \in Call : a[c] = m

BrokerOK == ThreadsOK /\ PlacesOK(messageQueue, answer, refused, served)

(* Which lines were served changes with the threads alone.                  *)
LEMMA ServedIs ==
  ASSUME NEW c \in Call, ThreadsOK, run(c)
  PROVE  served' = IF client[c].line = "CONSUME" THEN served ELSE served \cup {c}
<1>1. client' = client /\ thread' = [thread EXCEPT ![c] = "readLine"]
  BY DEF run
<1>2. \A m \in Call : thread'[m] = IF m = c THEN "readLine" ELSE thread[m]
  BY <1>1 DEF ThreadsOK
<1>3. client[c].line \in {"message", "CONSUME"} /\ c \notin served
  BY DEF run, ThreadsOK, Line, served
<1> QED
  BY <1>1, <1>2, <1>3 DEF served

(* A poll takes the first message, if there is one, to the connection c,    *)
(* which has no answer yet.                                                 *)
LEMMA PollStep ==
  ASSUME NEW c \in Call, NEW q, NEW a, NEW r, NEW s, NEW p, NEW b,
         PlacesOK(q, a, r, s), a[c] = None,
         b = [a EXCEPT ![c] = IF q = <<>> THEN null ELSE Head(q)],
         p = IF q = <<>> THEN <<>> ELSE Tail(q)
  PROVE  PlacesOK(p, b, r, s)
<1> USE AnswerAssumption
<1>0. /\ q \in Seq(Call) /\ a \in [Call -> Call \cup {None, null}]
      /\ r \subseteq s /\ s \subseteq Call
      /\ \A i \in DOMAIN q : q[i] \in s /\ q[i] \notin r /\ \A d \in Call : a[d] # q[i]
      /\ \A i, j \in DOMAIN q : q[i] = q[j] => i = j
      /\ \A d \in Call : a[d] \in Call => a[d] \in s /\ a[d] \notin r
      /\ \A d, e \in Call : a[d] \in Call /\ a[d] = a[e] => d = e
      /\ \A m \in s : \/ m \in r
                      \/ \E i \in DOMAIN q : q[i] = m
                      \/ \E d \in Call : a[d] = m
  BY DEF PlacesOK
<1>1. CASE q = <<>>
  <2>1. p = <<>> /\ b = [a EXCEPT ![c] = null] /\ DOMAIN p = {} /\ DOMAIN q = {}
    BY <1>1
  <2>2. /\ b \in [Call -> Call \cup {None, null}] /\ b[c] = null
        /\ \A d \in Call : d # c => b[d] = a[d]
    BY <1>0, <2>1
  <2>3. \A d \in Call : a[d] \in Call \/ b[d] \in Call => a[d] = b[d]
    BY <2>2
  <2>4. \A m \in s : m \in r \/ \E d \in Call : a[d] = m
    BY <1>0, <2>1
  <2>5. \A m \in s : m \in r \/ \E d \in Call : b[d] = m
    BY <1>0, <2>3, <2>4
  <2>6. \A d \in Call : b[d] \in Call => b[d] \in s /\ b[d] \notin r
    BY <1>0, <2>3
  <2>7. \A d, e \in Call : b[d] \in Call /\ b[d] = b[e] => d = e
    BY <1>0, <2>3
  <2>8. p \in Seq(Call)
    BY <2>1
  <2> QED
    BY <1>0, <2>1, <2>2, <2>5, <2>6, <2>7, <2>8 DEF PlacesOK
<1>2. CASE q # <<>>
  <2>1. PICK h : h = Head(q)
    OBVIOUS
  <2>2. /\ p = Tail(q) /\ b = [a EXCEPT ![c] = h] /\ h = q[1] /\ h \in Call
        /\ Len(q) \in Nat /\ Len(q) > 0 /\ DOMAIN q = 1 .. Len(q) /\ 1 \in DOMAIN q
        /\ p \in Seq(Call) /\ DOMAIN p = 1 .. (Len(q) - 1)
        /\ \A i \in 1 .. (Len(q) - 1) : p[i] = q[i + 1]
    BY <1>0, <1>2, <2>1
  <2>3. /\ b \in [Call -> Call \cup {None, null}] /\ b[c] = h
        /\ \A d \in Call : d # c => b[d] = a[d]
    BY <1>0, <2>2
  <2>4. \A i \in DOMAIN p : i + 1 \in DOMAIN q /\ p[i] = q[i + 1] /\ i + 1 # 1
    BY <2>2
  <2>5. \A i \in DOMAIN q : i = 1 \/ \E j \in DOMAIN p : p[j] = q[i]
    <3> SUFFICES ASSUME NEW i \in DOMAIN q, i # 1
                 PROVE  i - 1 \in DOMAIN p /\ p[i - 1] = q[i]
      OBVIOUS
    <3> QED
      BY <2>2
  <2>6. \A i \in DOMAIN p : p[i] \in s /\ p[i] \notin r /\ \A d \in Call : b[d] # p[i]
    BY <1>0, <2>2, <2>3, <2>4
  <2>7. ASSUME NEW i \in DOMAIN p, NEW j \in DOMAIN p, p[i] = p[j]
        PROVE  i = j
    <3>1. i + 1 = j + 1
      BY <1>0, <2>4, <2>7
    <3> QED
      BY <2>2, <3>1
  <2>8. h \in s /\ h \notin r /\ \A d \in Call : a[d] # h
    BY <1>0, <2>2
  <2>9. \A d \in Call : b[d] \in Call => b[d] \in s /\ b[d] \notin r
    BY <1>0, <2>3, <2>8
  <2>10. \A d, e \in Call : b[d] \in Call /\ b[d] = b[e] => d = e
    BY <1>0, <2>3, <2>8
  <2>11. ASSUME NEW m \in s
         PROVE  m \in r \/ (\E i \in DOMAIN p : p[i] = m) \/ \E d \in Call : b[d] = m
    <3>1. CASE m \in r
      BY <3>1
    <3>2. ASSUME NEW i \in DOMAIN q, q[i] = m
          PROVE  (\E j \in DOMAIN p : p[j] = m) \/ \E d \in Call : b[d] = m
      BY <2>2, <2>3, <2>5, <3>2
    <3>3. ASSUME NEW d \in Call, a[d] = m
          PROVE  b[d] = m
      BY <1>0, <2>3, <3>3
    <3> QED
      BY <1>0, <3>1, <3>2, <3>3
  <2> QED
    BY <1>0, <2>2, <2>3, <2>6, <2>7, <2>9, <2>10, <2>11 DEF PlacesOK
<1> QED
  BY <1>1, <1>2

(* A message that is served for the first time joins the queue or is        *)
(* refused.                                                                 *)
LEMMA OfferStep ==
  ASSUME NEW c \in Call, NEW q, NEW a, NEW r, NEW s, NEW p, NEW x,
         PlacesOK(q, a, r, s), c \notin s,
         \/ p = Append(q, c) /\ x = r
         \/ p = q /\ x = r \cup {c}
  PROVE  PlacesOK(p, a, x, s \cup {c})
<1>0. /\ q \in Seq(Call) /\ a \in [Call -> Call \cup {None, null}]
      /\ r \subseteq s /\ s \subseteq Call
      /\ \A i \in DOMAIN q : q[i] \in s /\ q[i] \notin r /\ \A d \in Call : a[d] # q[i]
      /\ \A i, j \in DOMAIN q : q[i] = q[j] => i = j
      /\ \A d \in Call : a[d] \in Call => a[d] \in s /\ a[d] \notin r
      /\ \A d, e \in Call : a[d] \in Call /\ a[d] = a[e] => d = e
      /\ \A m \in s : \/ m \in r
                      \/ \E i \in DOMAIN q : q[i] = m
                      \/ \E d \in Call : a[d] = m
  BY DEF PlacesOK
<1>1. CASE p = q /\ x = r \cup {c}
  BY <1>0, <1>1 DEF PlacesOK
<1>2. CASE p = Append(q, c) /\ x = r
  <2>1. PICK k : k = Len(q) + 1
    OBVIOUS
  <2>2. /\ p \in Seq(Call) /\ DOMAIN p = DOMAIN q \cup {k} /\ k \notin DOMAIN q
        /\ p[k] = c /\ \A i \in DOMAIN q : p[i] = q[i]
    BY <1>0, <1>2, <2>1
  <2>3. \A d \in Call : a[d] # c
    BY <1>0
  <2>4. \A i \in DOMAIN p :
           p[i] \in s \cup {c} /\ p[i] \notin r /\ \A d \in Call : a[d] # p[i]
    BY <1>0, <2>2, <2>3
  <2>5. \A i, j \in DOMAIN p : p[i] = p[j] => i = j
    BY <1>0, <2>2
  <2>6. \A m \in s \cup {c} : \/ m \in r
                               \/ \E i \in DOMAIN p : p[i] = m
                               \/ \E d \in Call : a[d] = m
    BY <1>0, <2>2
  <2> QED
    BY <1>0, <1>2, <2>2, <2>4, <2>5, <2>6 DEF PlacesOK
<1> QED
  BY <1>1, <1>2

(* Where nothing is served, every place keeps what it has.                  *)
LEMMA ClientStep ==
  ASSUME BrokerOK, NEW c \in Call, NEW u \in ClientRec,
         client' = [client EXCEPT ![c] = u],
         \/ thread' = thread /\ u.line = client[c].line /\ u.is # "unmade"
         \/ /\ client[c].is = "unmade" /\ u.is # "unmade" /\ u.line \in Line
            /\ thread' = [thread EXCEPT ![c] = "line"],
         UNCHANGED <<messageQueue, answer, refused>>
  PROVE  BrokerOK'
<1>1. /\ messageQueue' = messageQueue /\ answer' = answer /\ refused' = refused
      /\ client \in [Call -> ClientRec]
      /\ thread \in [Call -> {"none", "line", "readLine"}]
  BY DEF BrokerOK, ThreadsOK
<1>2. /\ client' \in [Call -> ClientRec] /\ client'[c] = u
      /\ \A d \in Call : d # c => client'[d] = client[d]
  BY <1>1
<1>3. /\ thread' \in [Call -> {"none", "line", "readLine"}]
      /\ \A d \in Call : d # c => thread'[d] = thread[d]
      /\ \/ thread'[c] = thread[c] /\ u.line = client[c].line
         \/ thread'[c] = "line" /\ u.line \in Line /\ thread[c] = "none"
  BY <1>1 DEF BrokerOK, ThreadsOK
<1>4. u.is # "unmade"
  OBVIOUS
<1>5. ThreadsOK'
  <2>1. \A d \in Call : client'[d].is = "unmade" => thread'[d] = "none"
    BY <1>2, <1>3, <1>4 DEF BrokerOK, ThreadsOK
  <2>2. \A d \in Call : thread'[d] # "none" => client'[d].line \in Line
    BY <1>2, <1>3 DEF BrokerOK, ThreadsOK
  <2>3. \A d \in Call : thread'[d] # "readLine" => answer'[d] = None
    BY <1>1, <1>3 DEF BrokerOK, ThreadsOK
  <2> QED
    BY <1>2, <1>3, <2>1, <2>2, <2>3 DEF ThreadsOK, ClientRec
<1>6. served' = served
  <2>1. \A m \in Call : /\ client'[m].line = "message" /\ thread'[m] = "readLine"
                       <=> client[m].line = "message" /\ thread[m] = "readLine"
    BY <1>2, <1>3
  <2> QED
    BY <2>1 DEF served
<1> QED
  BY <1>1, <1>5, <1>6 DEF BrokerOK

(* A thread serves its line.                                                *)
LEMMA RunStep ==
  ASSUME BrokerOK, NEW c \in Call, run(c)
  PROVE  BrokerOK'
<1>1. /\ thread[c] = "line" /\ client' = client
      /\ thread' = [thread EXCEPT ![c] = "readLine"]
  BY DEF run
<1>2. ThreadsOK /\ PlacesOK(messageQueue, answer, refused, served)
  BY DEF BrokerOK
<1>3. answer[c] = None /\ c \notin served /\ client[c].line \in Line
  BY <1>1, <1>2 DEF ThreadsOK, served
<1>4. served' = IF client[c].line = "CONSUME" THEN served ELSE served \cup {c}
  BY <1>2, ServedIs
<1>5. PlacesOK(messageQueue', answer', refused', served')
  <2>1. CASE client[c].line = "CONSUME"
    <3>1. serveConsume(c) /\ served' = served
      BY <1>4, <2>1 DEF run
    <3> QED
      BY <1>2, <1>3, <3>1, PollStep DEF serveConsume
  <2>2. CASE client[c].line # "CONSUME"
    <3>1. serveProduce(c) /\ served' = served \cup {c}
      BY <1>4, <2>2 DEF run
    <3> QED
      BY <1>2, <1>3, <3>1, OfferStep DEF serveProduce
  <2> QED
    BY <2>1, <2>2
<1>6. \A d \in Call : thread'[d] = IF d = c THEN "readLine" ELSE thread[d]
  BY <1>1, <1>2 DEF ThreadsOK
<1>7. thread' \in [Call -> {"none", "line", "readLine"}]
  BY <1>1, <1>2 DEF ThreadsOK
<1>8. \A d \in Call : d # c => answer'[d] = answer[d]
  <2>1. answer \in [Call -> Call \cup {None, null}]
    BY <1>2 DEF PlacesOK
  <2>2. answer' = answer \/ \E e : answer' = [answer EXCEPT ![c] = e]
    BY DEF run, serveConsume, serveProduce
  <2> QED
    BY <2>1, <2>2
<1>9. \A d \in Call : client[d].is = "unmade" => thread'[d] = "none"
  BY <1>1, <1>2, <1>6 DEF ThreadsOK
<1>10. \A d \in Call : thread'[d] # "none" => client[d].line \in Line
  BY <1>2, <1>3, <1>6 DEF ThreadsOK
<1>11. \A d \in Call : thread'[d] # "readLine" => answer'[d] = None
  BY <1>2, <1>6, <1>8 DEF ThreadsOK
<1>12. ThreadsOK'
  BY <1>1, <1>2, <1>7, <1>9, <1>10, <1>11 DEF ThreadsOK
<1> QED
  BY <1>5, <1>12 DEF BrokerOK

(* A message the broker has read is in exactly one place, for any number of *)
(* connections and any size of the queue: in the queue once, refused by the *)
(* full queue, or handed to one connection.                                 *)
THEOREM MessagesInPlace ==
  BrokerInit /\ [][BrokerNext]_brokerVars => []MessageInOnePlace
<1>1. BrokerInit => BrokerOK
  <2> SUFFICES ASSUME BrokerInit PROVE BrokerOK
    OBVIOUS
  <2>1. PICK u : u = [is |-> "unmade", role |-> None, line |-> None]
    OBVIOUS
  <2>2. u \in ClientRec
    BY <2>1 DEF ClientRec, None
  <2>3. /\ client = [c \in Call |-> u] /\ thread = [c \in Call |-> "none"]
        /\ messageQueue = <<>> /\ answer = [c \in Call |-> None] /\ refused = {}
    BY <2>1 DEF BrokerInit
  <2>4. ThreadsOK
    BY <2>2, <2>3 DEF ThreadsOK
  <2>5. served = {}
    BY <2>3 DEF served
  <2>6. PlacesOK(<<>>, answer, {}, {})
    <3>1. <<>> \in Seq(Call) /\ DOMAIN <<>> = {}
      OBVIOUS
    <3>2. answer \in [Call -> Call \cup {None, null}] /\ \A c \in Call : answer[c] \notin Call
      BY <2>3, AnswerAssumption
    <3> QED
      BY <3>1, <3>2 DEF PlacesOK
  <2> QED
    BY <2>3, <2>4, <2>5, <2>6 DEF BrokerOK
<1>2. BrokerOK /\ [BrokerNext]_brokerVars => BrokerOK'
  <2> SUFFICES ASSUME BrokerOK, [BrokerNext]_brokerVars PROVE BrokerOK'
    OBVIOUS
  <2>0. client \in [Call -> ClientRec]
    BY DEF BrokerOK, ThreadsOK
  <2>1. ASSUME NEW c \in Call, NEW text \in Line, produce(c, text)
        PROVE  BrokerOK'
    <3>1. PICK u : u = [is |-> "gone", role |-> "producer", line |-> text]
      OBVIOUS
    <3>2. u \in ClientRec /\ u.is = "gone" /\ u.line \in Line
      BY <3>1 DEF ClientRec, Role
    <3> QED
      BY <2>1, <3>1, <3>2, ClientStep DEF produce
  <2>2. ASSUME NEW c \in Call, consume(c)
        PROVE  BrokerOK'
    <3>1. PICK u : u = [is |-> "waits", role |-> "consumer", line |-> "CONSUME"]
      OBVIOUS
    <3>2. u \in ClientRec /\ u.is = "waits" /\ u.line \in Line
      BY <3>1 DEF ClientRec, Role, Line
    <3> QED
      BY <2>2, <3>1, <3>2, ClientStep DEF consume
  <2>3. ASSUME NEW c \in Call, NEW end \in {"answered", "gone"},
               client' = [client EXCEPT ![c].is = end],
               UNCHANGED <<thread, messageQueue, answer, refused>>
        PROVE  BrokerOK'
    <3>1. PICK v, u : v = client[c] /\ u = [v EXCEPT !.is = end]
      OBVIOUS
    <3>2. v \in ClientRec
      BY <2>0, <3>1
    <3>3. u \in ClientRec /\ u.is = end /\ u.line = v.line
      BY <3>1, <3>2 DEF ClientRec
    <3>4. client' = [client EXCEPT ![c] = u]
      BY <2>3, <3>1
    <3> QED
      BY <2>3, <3>1, <3>3, <3>4, ClientStep
  <2>4. ASSUME NEW c \in Call, readLine(c)
        PROVE  BrokerOK'
    BY <2>3, <2>4 DEF readLine
  <2>5. ASSUME NEW c \in Call, stopped(c)
        PROVE  BrokerOK'
    BY <2>3, <2>5 DEF stopped
  <2>6. CASE UNCHANGED brokerVars
    BY <2>6 DEF brokerVars, BrokerOK, ThreadsOK, served
  <2> QED
    BY <2>1, <2>2, <2>4, <2>5, <2>6, RunStep DEF BrokerNext
<1>3. BrokerOK => MessageInOnePlace
  <2> SUFFICES ASSUME BrokerOK, NEW m \in served
               PROVE  Cardinality({i \in DOMAIN messageQueue : messageQueue[i] = m})
                        + Cardinality(takers(m)) + (IF m \in refused THEN 1 ELSE 0) = 1
    BY DEF MessageInOnePlace
  <2> DEFINE places == {i \in DOMAIN messageQueue : messageQueue[i] = m}
  <2>0. PlacesOK(messageQueue, answer, refused, served) /\ m \in Call
    BY DEF BrokerOK, PlacesOK
  <2>1. Cardinality({}) = 0 /\ \A x : Cardinality({x}) = 1
    BY FS_EmptySet, FS_Singleton
  <2>2. CASE m \in refused
    <3>1. places = {} /\ takers(m) = {}
      BY <2>0, <2>2 DEF PlacesOK, takers
    <3> QED
      BY <2>1, <2>2, <3>1
  <2>3. CASE \E i \in DOMAIN messageQueue : messageQueue[i] = m
    <3>1. PICK i \in DOMAIN messageQueue : messageQueue[i] = m
      BY <2>3
    <3>2. places = {i} /\ takers(m) = {} /\ m \notin refused
      BY <2>0, <3>1 DEF PlacesOK, takers
    <3>3. Cardinality(places) = 1 /\ Cardinality(takers(m)) = 0
      BY <2>1, <3>2, Zenon
    <3> QED
      BY <3>2, <3>3
  <2>4. CASE \E c \in Call : answer[c] = m
    <3>1. PICK c \in Call : answer[c] = m
      BY <2>4
    <3>2. \A d \in Call : answer[d] = m => d = c
      BY <2>0, <3>1 DEF PlacesOK
    <3>3. takers(m) = {c}
      BY <3>1, <3>2 DEF takers
    <3>4. places = {} /\ m \notin refused
      BY <2>0, <3>1 DEF PlacesOK
    <3> QED
      BY <2>1, <3>3, <3>4
  <2> QED
    BY <2>0, <2>2, <2>3, <2>4 DEF PlacesOK
<1> QED
  BY <1>1, <1>2, <1>3, PTL

-----------------------------------------------------------------------------
(* The connections of the SimpleDB server.                                  *)

FdEntry == Peer \cup {"free", "file", "leftOpen"}
PeerRec == [at : {"out", "backlog", "accepted", "polled", "closed"},
            ended : {"no", "closed", "reset", "broken"}, asked : Nat]

ServerTypes ==
    /\ fds \in [FD -> FdEntry]
    /\ peer \in [Peer -> PeerRec]
    /\ inbox \in [Peer -> Request \cup {none}]
    /\ sent \in [Peer -> Seq(Request)]
    /\ got \in [Peer -> Seq(Request)]
    /\ sdata \in Request
    /\ evlist \in Seq(FD)
    /\ handler \in {"wait", "respond", "files", "write"}
    /\ handler # "wait" => evlist # <<>>
    /\ reused \subseteq Peer

(* Client c, where its connection is and how it ended, and the numbers it   *)
(* has in the table: one while it is connected, and otherwise none.         *)
HoldsOne(table, c, p) ==
    /\ p.at = "closed" => p.ended # "no"
    /\ \A n \in FD : table[n] = c => p.at \in {"accepted", "polled"}
    /\ p.at \in {"accepted", "polled"} => \E n \in FD : table[n] = c
    /\ \A m, n \in FD : table[m] = c /\ table[n] = c => m = n

NumbersOK == \A c \in Peer : HoldsOne(fds, c, peer[c])

(* The handler is about to answer client c.                                 *)
Serving(c) == handler # "wait" /\ fds[Head(evlist)] = c

(* Client c has read the answers to its first requests, and the last one    *)
(* is nowhere, or at one of the three places between the client and the     *)
(* answer; a connection that a write has broken has an answer to read.      *)
OwnOK(c) ==
    /\ \A i \in DOMAIN got[c] : got[c][i] = <<c, i>>
    /\ \/ /\ peer[c].asked = Len(got[c])
          /\ inbox[c] = none /\ sent[c] = <<>> /\ ~Serving(c)
       \/ /\ peer[c].asked = Len(got[c]) + 1
          /\ \/ inbox[c] = <<c, peer[c].asked>> /\ sent[c] = <<>> /\ ~Serving(c)
             \/ inbox[c] = none /\ sent[c] = <<>> /\ Serving(c) /\ sdata = <<c, peer[c].asked>>
             \/ inbox[c] = none /\ sent[c] = <<<<c, peer[c].asked>>>> /\ ~Serving(c)
    /\ peer[c].ended = "broken" => sent[c] # <<>>

ServerOK ==
    /\ ServerTypes
    /\ NumbersOK
    /\ \A c \in Peer \ reused : OwnOK(c)
    /\ exited = "SIGPIPE" => reused # {}

(* Min picks the least element of a set of numbers that is not empty.       *)
LEMMA LeastNumber ==
  ASSUME NEW S \in SUBSET Nat, S # {}
  PROVE  Min(S) \in S /\ \A k \in S : Min(S) <= k
<1> DEFINE R == {ss \in Nat \X Nat : ss[1] < ss[2]}
<1>1. IsWellFoundedOn(R, Nat)
  BY NatLessThanWellFounded DEF OpToRel
<1> HIDE DEF R
<1>2. PICK n \in S : \A k \in S : <<k, n>> \notin R
  BY <1>1, WFMin
<1>3. ASSUME NEW k \in S
      PROVE  n <= k
  <2>1. k \in Nat /\ n \in Nat /\ <<k, n>> \notin R
    BY <1>2
  <2>2. k < n => <<k, n>> \in R
    BY <2>1 DEF R
  <2> QED
    BY <2>1, <2>2
<1> QED
  BY <1>3 DEF Min

(* open and accept take a number that was free.                             *)
LEMMA OpenedAt ==
  ASSUME NEW t \in [FD -> FdEntry], freeFds(t) # {}, NEW what
  PROVE  \E n \in FD : t[n] = "free" /\ opened(t, what) = [t EXCEPT ![n] = what]
<1>1. NumFds \in Nat
  BY DBServerAssumption
<1>2. freeFds(t) \in SUBSET Nat
  BY <1>1 DEF freeFds, FD
<1>3. Min(freeFds(t)) \in freeFds(t)
  BY <1>2, LeastNumber
<1> QED
  BY <1>3 DEF opened, freeFds

(* The table is finite, and so is what is free of it.                       *)
LEMMA TableFinite ==
  /\ IsFiniteSet(FD)
  /\ \A t : IsFiniteSet(freeFds(t)) /\ Cardinality(freeFds(t)) \in Nat
<1>0. NumFds \in Nat
  BY DBServerAssumption
<1>1. 1 \in Int /\ NumFds \in Int
  BY <1>0
<1>2. IsFiniteSet(FD)
  BY <1>1, FS_Interval DEF FD
<1>3. ASSUME NEW t
      PROVE  IsFiniteSet(freeFds(t)) /\ Cardinality(freeFds(t)) \in Nat
  <2>1. freeFds(t) \subseteq FD
    BY DEF freeFds
  <2>2. IsFiniteSet(freeFds(t))
    BY <1>2, <2>1, FS_Subset
  <2> QED
    BY <2>2, FS_CardinalityType
<1> QED
  BY <1>2, <1>3

(* The clients have the same numbers in two tables.                         *)
SameHolders(t, u) == \A n \in FD, c \in Peer : u[n] = c <=> t[n] = c

(* A file takes one of the free numbers and none of a client's.             *)
LEMMA FileOpened ==
  ASSUME NEW t \in [FD -> FdEntry], NEW what \in {"file", "leftOpen"},
         Cardinality(freeFds(t)) >= 1
  PROVE  /\ opened(t, what) \in [FD -> FdEntry]
         /\ SameHolders(t, opened(t, what))
         /\ Cardinality(freeFds(opened(t, what))) = Cardinality(freeFds(t)) - 1
<1>0. PICK k \in Nat : k = Cardinality(freeFds(t))
  BY TableFinite
<1>1. freeFds(t) # {}
  <2>1. k # 0
    BY <1>0
  <2> QED
    BY <1>0, <2>1, FS_EmptySet, Zenon
<1>2. PICK n \in FD : t[n] = "free" /\ opened(t, what) = [t EXCEPT ![n] = what]
  BY <1>1, OpenedAt
<1>3. PICK u : u = opened(t, what)
  OBVIOUS
<1>4. /\ u \in [FD -> FdEntry] /\ u[n] = what
      /\ \A m \in FD : m # n => u[m] = t[m]
  BY <1>2, <1>3 DEF FdEntry
<1>5. "free" \notin Peer /\ what \notin Peer /\ what # "free"
  BY DBServerAssumption
<1>6. SameHolders(t, u)
  BY <1>2, <1>4, <1>5 DEF SameHolders
<1>7. freeFds(u) = freeFds(t) \ {n} /\ n \in freeFds(t)
  BY <1>2, <1>4, <1>5 DEF freeFds
<1>8. IsFiniteSet(freeFds(t))
  BY TableFinite
<1>9. Cardinality(freeFds(t) \ {n}) = Cardinality(freeFds(t)) - 1
  BY <1>7, <1>8, FS_RemoveElement
<1> QED
  BY <1>3, <1>4, <1>6, <1>7, <1>9

(* So do two of them, and the files that a request leaves open; closing     *)
(* files takes nothing from a client.                                       *)
LEMMA FilesOpened ==
  ASSUME NEW t \in [FD -> FdEntry]
  PROVE  /\ Cardinality(freeFds(t)) >= 2 =>
              LET u == opened(opened(t, "file"), "file")
              IN  u \in [FD -> FdEntry] /\ SameHolders(t, u)
         /\ \A n \in 0 .. 2 : n <= Cardinality(freeFds(t)) =>
              LET u == closeFiles(leave(t, n))
              IN  u \in [FD -> FdEntry] /\ SameHolders(t, u)
<1>0. Cardinality(freeFds(t)) \in Nat
  BY TableFinite
<1>1. ASSUME NEW what \in {"file", "leftOpen"}, Cardinality(freeFds(t)) >= 2
      PROVE  /\ opened(opened(t, what), what) \in [FD -> FdEntry]
             /\ SameHolders(t, opened(opened(t, what), what))
  <2>0. PICK k \in Nat : k = Cardinality(freeFds(t))
    BY <1>0
  <2>1. PICK u : u = opened(t, what)
    OBVIOUS
  <2>2. /\ u \in [FD -> FdEntry] /\ SameHolders(t, u)
        /\ Cardinality(freeFds(u)) = Cardinality(freeFds(t)) - 1
    <3>1. k >= 1
      BY <1>1, <2>0
    <3> QED
      BY <2>0, <2>1, <3>1, FileOpened
  <2>3. Cardinality(freeFds(u)) >= 1
    <3>1. k - 1 >= 1
      BY <1>1, <2>0
    <3> QED
      BY <2>0, <2>2, <3>1
  <2>4. opened(u, what) \in [FD -> FdEntry] /\ SameHolders(u, opened(u, what))
    BY <2>2, <2>3, FileOpened
  <2> QED
    BY <2>1, <2>2, <2>4 DEF SameHolders
<1>2. ASSUME NEW u \in [FD -> FdEntry]
      PROVE  closeFiles(u) \in [FD -> FdEntry] /\ SameHolders(u, closeFiles(u))
  <2>1. "file" \notin Peer /\ "free" \notin Peer
    BY DBServerAssumption
  <2> QED
    BY <2>1 DEF closeFiles, SameHolders, FdEntry
<1>3. ASSUME NEW n \in 0 .. 2, n <= Cardinality(freeFds(t))
      PROVE  leave(t, n) \in [FD -> FdEntry] /\ SameHolders(t, leave(t, n))
  <2>1. CASE n = 0
    <3>1. leave(t, n) = t
      BY <2>1 DEF leave
    <3> QED
      BY <3>1 DEF SameHolders
  <2>2. CASE n = 1
    <3>1. leave(t, n) = opened(t, "leftOpen")
      BY <2>2 DEF leave
    <3> QED
      BY <1>0, <1>3, <2>2, <3>1, FileOpened
  <2>3. CASE n = 2
    <3>1. leave(t, n) = opened(opened(t, "leftOpen"), "leftOpen")
      BY <2>3 DEF leave
    <3> QED
      BY <1>0, <1>1, <1>3, <2>3, <3>1
  <2> QED
    BY <2>1, <2>2, <2>3
<1>4. ASSUME NEW n \in 0 .. 2, n <= Cardinality(freeFds(t))
      PROVE  /\ closeFiles(leave(t, n)) \in [FD -> FdEntry]
             /\ SameHolders(t, closeFiles(leave(t, n)))
  <2>1. leave(t, n) \in [FD -> FdEntry] /\ SameHolders(t, leave(t, n))
    BY <1>3, <1>4
  <2>2. PICK u : u = leave(t, n)
    OBVIOUS
  <2> QED
    BY <1>2, <2>1, <2>2 DEF SameHolders
<1> QED
  BY <1>1, <1>4

(* A step that leaves a client's requests and answers alone, and whether it *)
(* is being served.                                                         *)
LEMMA OwnKept ==
  ASSUME NEW c \in Peer, OwnOK(c), peer'[c].asked = peer[c].asked,
         peer'[c].ended = "broken" => sent[c] # <<>>,
         inbox'[c] = inbox[c], sent'[c] = sent[c], got'[c] = got[c],
         Serving(c)' <=> Serving(c), Serving(c) => sdata' = sdata
  PROVE  OwnOK(c)'
<1> USE DEF none
<1>1. \A i \in DOMAIN got'[c] : got'[c][i] = <<c, i>>
  BY DEF OwnOK
<1>2. peer'[c].ended = "broken" => sent'[c] # <<>>
  OBVIOUS
<1>3. \/ /\ peer'[c].asked = Len(got'[c])
         /\ inbox'[c] = none /\ sent'[c] = <<>> /\ ~Serving(c)'
      \/ /\ peer'[c].asked = Len(got'[c]) + 1
         /\ \/ inbox'[c] = <<c, peer'[c].asked>> /\ sent'[c] = <<>> /\ ~Serving(c)'
            \/ /\ inbox'[c] = none /\ sent'[c] = <<>> /\ Serving(c)'
               /\ sdata' = <<c, peer'[c].asked>>
            \/ inbox'[c] = none /\ sent'[c] = <<<<c, peer'[c].asked>>>> /\ ~Serving(c)'
  BY DEF OwnOK
<1> QED
  BY <1>1, <1>2, <1>3 DEF OwnOK

(* One client's record is changed.                                          *)
LEMMA PeerChanged ==
  ASSUME ServerTypes, NEW c \in Peer, NEW u \in PeerRec, peer' = [peer EXCEPT ![c] = u]
  PROVE  /\ peer' \in [Peer -> PeerRec] /\ peer'[c] = u
         /\ \A d \in Peer : d # c => peer'[d] = peer[d]
  BY DEF ServerTypes

(* Steps of one client, or of the main thread on it, after which everybody  *)
(* has the numbers of before.                                               *)
LEMMA OneClient ==
  ASSUME ServerOK, NEW c \in Peer, NEW u \in PeerRec, peer' = [peer EXCEPT ![c] = u],
         UNCHANGED <<fds, sdata, evlist, handler, exited, reused>>,
         inbox' \in [Peer -> Request \cup {none}],
         sent' \in [Peer -> Seq(Request)], got' \in [Peer -> Seq(Request)],
         \A d \in Peer : d # c =>
            inbox'[d] = inbox[d] /\ sent'[d] = sent[d] /\ got'[d] = got[d],
         HoldsOne(fds, c, peer[c]) => HoldsOne(fds, c, u),
         c \notin reused /\ OwnOK(c) => OwnOK(c)'
  PROVE  ServerOK'
<1>1. /\ fds' = fds /\ sdata' = sdata /\ evlist' = evlist /\ handler' = handler
      /\ exited' = exited /\ reused' = reused
  OBVIOUS
<1>2. ServerTypes /\ NumbersOK
  BY DEF ServerOK
<1>3. /\ peer' \in [Peer -> PeerRec] /\ peer'[c] = u
      /\ \A d \in Peer : d # c => peer'[d] = peer[d]
  BY <1>2, PeerChanged
<1>4. ServerTypes'
  BY <1>1, <1>2, <1>3 DEF ServerTypes, none
<1>5. \A d \in Peer : HoldsOne(fds, d, peer'[d])
  BY <1>2, <1>3 DEF NumbersOK
<1>6. NumbersOK'
  BY <1>1, <1>5 DEF NumbersOK
<1>7. ASSUME NEW d \in Peer \ reused'
      PROVE  OwnOK(d)'
  <2>1. d \in Peer /\ d \notin reused /\ OwnOK(d)
    BY <1>1 DEF ServerOK
  <2>2. CASE d = c
    BY <2>1, <2>2
  <2>3. CASE d # c
    <3>1. Serving(d)' <=> Serving(d)
      BY <1>1 DEF Serving
    <3>2. peer'[d] = peer[d] /\ inbox'[d] = inbox[d] /\ sent'[d] = sent[d] /\ got'[d] = got[d]
      BY <1>3, <2>1, <2>3
    <3>3. peer'[d].ended = "broken" => sent[d] # <<>>
      BY <2>1, <3>2 DEF OwnOK
    <3> QED
      BY <1>1, <2>1, <3>1, <3>2, <3>3, OwnKept
  <2> QED
    BY <2>2, <2>3
<1> QED
  BY <1>1, <1>4, <1>6, <1>7 DEF ServerOK

(* The client's own steps.                                                  *)
LEMMA ConnectStep ==
  ASSUME ServerOK, NEW c \in Peer, Connect(c) \/ End(c) \/ epoll_ctl(c)
  PROVE  ServerOK'
<1>1. PICK p : p = peer[c]
  OBVIOUS
<1>2. p \in PeerRec
  BY <1>1 DEF ServerOK, ServerTypes
<1>3. /\ UNCHANGED <<fds, inbox, sent, got, sdata, evlist, handler, exited, reused>>
      /\ inbox' \in [Peer -> Request \cup {none}]
      /\ sent' \in [Peer -> Seq(Request)] /\ got' \in [Peer -> Seq(Request)]
  BY DEF Connect, End, epoll_ctl, ServerOK, ServerTypes
<1>4. ASSUME NEW u \in PeerRec, peer' = [peer EXCEPT ![c] = u], u.asked = p.asked,
             u.ended = "broken" => p.ended = "broken",
             HoldsOne(fds, c, p) => HoldsOne(fds, c, u)
      PROVE  ServerOK'
  <2>1. peer'[c] = u
    BY <1>4, PeerChanged DEF ServerOK
  <2>2. ASSUME OwnOK(c)
        PROVE  OwnOK(c)'
    <3>1. Serving(c)' <=> Serving(c)
      BY <1>3 DEF Serving
    <3>2. u.ended = "broken" => sent[c] # <<>>
      BY <1>1, <1>4, <2>2 DEF OwnOK
    <3> QED
      BY <1>1, <1>3, <1>4, <2>1, <2>2, <3>1, <3>2, OwnKept
  <2> QED
    BY <1>1, <1>3, <1>4, <2>2, OneClient
<1>5. CASE Connect(c)
  <2>1. PICK u : u = [p EXCEPT !.at = "backlog"]
    OBVIOUS
  <2>2. u \in PeerRec /\ u.at = "backlog" /\ u.asked = p.asked /\ u.ended = p.ended
    BY <1>2, <2>1 DEF PeerRec
  <2>3. peer' = [peer EXCEPT ![c] = u] /\ p.at = "out"
    BY <1>1, <1>5, <2>1 DEF Connect
  <2>4. HoldsOne(fds, c, p) => HoldsOne(fds, c, u)
    BY <2>2, <2>3 DEF HoldsOne
  <2> QED
    BY <1>4, <2>2, <2>3, <2>4
<1>6. CASE epoll_ctl(c)
  <2>1. PICK u : u = [p EXCEPT !.at = "polled"]
    OBVIOUS
  <2>2. u \in PeerRec /\ u.at = "polled" /\ u.asked = p.asked /\ u.ended = p.ended
    BY <1>2, <2>1 DEF PeerRec
  <2>3. peer' = [peer EXCEPT ![c] = u] /\ p.at = "accepted"
    BY <1>1, <1>6, <2>1 DEF epoll_ctl
  <2>4. HoldsOne(fds, c, p) => HoldsOne(fds, c, u)
    BY <2>2, <2>3 DEF HoldsOne
  <2> QED
    BY <1>4, <2>2, <2>3, <2>4
<1>7. CASE End(c)
  <2>1. PICK how : how = IF sent[c] = <<>> THEN "closed" ELSE "reset"
    OBVIOUS
  <2>2. how \in {"closed", "reset"}
    BY <2>1
  <2>3. PICK u : u = [p EXCEPT !.ended = how]
    OBVIOUS
  <2>4. u \in PeerRec /\ u.at = p.at /\ u.asked = p.asked /\ u.ended = how
    BY <1>2, <2>2, <2>3 DEF PeerRec
  <2>5. peer' = [peer EXCEPT ![c] = u]
    BY <1>1, <1>7, <2>1, <2>3 DEF End
  <2>6. HoldsOne(fds, c, p) => HoldsOne(fds, c, u)
    BY <2>2, <2>4 DEF HoldsOne
  <2> QED
    BY <1>4, <2>2, <2>4, <2>5, <2>6
<1> QED
  BY <1>5, <1>6, <1>7

(* A client asks when it has all its answers, and the request is the one    *)
(* thing under way.                                                         *)
LEMMA AskStep ==
  ASSUME ServerOK, NEW c \in Peer, Ask(c)
  PROVE  ServerOK'
<1>1. PICK p, k : p = peer[c] /\ k = p.asked + 1
  OBVIOUS
<1>2. p \in PeerRec /\ inbox \in [Peer -> Request \cup {none}]
  BY <1>1 DEF ServerOK, ServerTypes
<1>3. p.asked \in Nat /\ k \in Nat
  BY <1>1, <1>2 DEF PeerRec
<1>4. PICK u : u = [p EXCEPT !.asked = k]
  OBVIOUS
<1>5. u \in PeerRec /\ u.at = p.at /\ u.ended = p.ended /\ u.asked = k
  BY <1>2, <1>3, <1>4 DEF PeerRec
<1>6. /\ peer' = [peer EXCEPT ![c] = u] /\ inbox' = [inbox EXCEPT ![c] = <<c, k>>]
      /\ sent' = sent /\ got' = got
      /\ UNCHANGED <<fds, sdata, evlist, handler, exited, reused>>
      /\ p.asked = Len(got[c])
  BY <1>1, <1>4 DEF Ask
<1>7. <<c, k>> \in Request
  BY <1>3 DEF Request
<1>8. /\ inbox' \in [Peer -> Request \cup {none}] /\ inbox'[c] = <<c, k>>
      /\ \A d \in Peer : d # c => inbox'[d] = inbox[d]
  BY <1>2, <1>6, <1>7
<1>9. HoldsOne(fds, c, p) => HoldsOne(fds, c, u)
  BY <1>5 DEF HoldsOne
<1>10. peer'[c] = u
  BY <1>5, <1>6, PeerChanged DEF ServerOK
<1>11. ASSUME OwnOK(c)
       PROVE  OwnOK(c)'
  <2>1. p.asked # Len(got[c]) + 1
    BY <1>3, <1>6
  <2>2. sent[c] = <<>> /\ ~Serving(c)
    BY <1>1, <1>11, <2>1 DEF OwnOK
  <2>3. ~Serving(c)'
    BY <1>6, <2>2 DEF Serving
  <2>4. \A i \in DOMAIN got'[c] : got'[c][i] = <<c, i>>
    BY <1>6, <1>11 DEF OwnOK
  <2>5. peer'[c].ended # "broken"
    BY <1>1, <1>5, <1>10, <1>11, <2>2 DEF OwnOK
  <2>6. peer'[c].asked = Len(got'[c]) + 1 /\ inbox'[c] = <<c, peer'[c].asked>> /\ sent'[c] = <<>>
    BY <1>1, <1>5, <1>6, <1>8, <1>10, <2>2
  <2> QED
    BY <2>3, <2>4, <2>5, <2>6 DEF OwnOK
<1>12. sent' \in [Peer -> Seq(Request)] /\ got' \in [Peer -> Seq(Request)]
  BY <1>6 DEF ServerOK, ServerTypes
<1> QED
  BY <1>1, <1>5, <1>6, <1>8, <1>9, <1>11, <1>12, OneClient

(* The answer that a client reads is the one it waits for.                  *)
LEMMA ReadAnswerStep ==
  ASSUME ServerOK, NEW c \in Peer, ReadAnswer(c)
  PROVE  ServerOK'
<1>1. /\ sent[c] # <<>> /\ Len(got[c]) < peer[c].asked
      /\ got' = [got EXCEPT ![c] = Append(got[c], Head(sent[c]))]
      /\ sent' = [sent EXCEPT ![c] = Tail(sent[c])]
      /\ peer' = peer /\ inbox' = inbox
      /\ UNCHANGED <<fds, sdata, evlist, handler, exited, reused>>
      /\ peer[c].ended = "no"
  BY DEF ReadAnswer
<1>2. /\ sent \in [Peer -> Seq(Request)] /\ got \in [Peer -> Seq(Request)]
      /\ peer \in [Peer -> PeerRec] /\ inbox' \in [Peer -> Request \cup {none}]
  BY <1>1 DEF ServerOK, ServerTypes
<1>3. PICK s, g : s = sent[c] /\ g = got[c]
  OBVIOUS
<1>4. s \in Seq(Request) /\ g \in Seq(Request) /\ s # <<>>
  BY <1>1, <1>2, <1>3
<1>5. Head(s) \in Request /\ Tail(s) \in Seq(Request) /\ Append(g, Head(s)) \in Seq(Request)
  BY <1>4
<1>6. /\ sent' \in [Peer -> Seq(Request)] /\ got' \in [Peer -> Seq(Request)]
      /\ sent'[c] = Tail(s) /\ got'[c] = Append(g, Head(s))
      /\ \A d \in Peer : d # c => sent'[d] = sent[d] /\ got'[d] = got[d]
  BY <1>1, <1>2, <1>3, <1>5
<1>7. peer' = [peer EXCEPT ![c] = peer[c]] /\ peer[c] \in PeerRec
  BY <1>1, <1>2
<1>8. ASSUME OwnOK(c)
      PROVE  OwnOK(c)'
  <2>1. PICK k : k = peer[c].asked
    OBVIOUS
  <2>2. k \in Nat /\ Len(g) \in Nat
    BY <1>4, <1>7, <2>1 DEF PeerRec
  <2>3. k = Len(g) + 1 /\ inbox[c] = none /\ s = <<<<c, k>>>> /\ ~Serving(c)
    BY <1>1, <1>3, <1>8, <2>1 DEF OwnOK
  <2>4. Head(s) = <<c, k>> /\ Tail(s) = <<>>
    BY <2>3
  <2>5. DOMAIN Append(g, <<c, k>>) = 1 .. k /\ Len(Append(g, <<c, k>>)) = k
    BY <1>4, <1>5, <2>2, <2>3, <2>4
  <2>6. \A i \in 1 .. Len(g) : g[i] = <<c, i>>
    BY <1>3, <1>4, <1>8 DEF OwnOK
  <2>7. ASSUME NEW i \in 1 .. k
        PROVE  Append(g, <<c, k>>)[i] = <<c, i>>
    <3>1. CASE i = k
      BY <1>4, <1>5, <2>2, <2>3, <2>4, <3>1
    <3>2. CASE i # k
      <4>1. i \in 1 .. Len(g)
        BY <2>2, <2>3, <3>2
      <4>2. Append(g, <<c, k>>)[i] = g[i]
        BY <1>4, <1>5, <2>4, <4>1
      <4> QED
        BY <2>6, <4>1, <4>2
    <3> QED
      BY <3>1, <3>2
  <2>8. ~Serving(c)'
    BY <1>1, <2>3 DEF Serving
  <2>9. got'[c] = Append(g, <<c, k>>) /\ sent'[c] = <<>>
    BY <1>6, <2>4
  <2>10. \A i \in DOMAIN got'[c] : got'[c][i] = <<c, i>>
    BY <2>5, <2>7, <2>9
  <2>11. peer'[c].asked = Len(got'[c]) /\ inbox'[c] = none /\ peer'[c].ended = "no"
    BY <1>1, <2>1, <2>3, <2>5, <2>9
  <2> QED
    BY <2>8, <2>9, <2>10, <2>11 DEF OwnOK, none
<1> QED
  BY <1>1, <1>2, <1>6, <1>7, <1>8, OneClient

(* A client that is accepted takes a free number; when it is the one the    *)
(* handler works on, the client is one of those that were given it too      *)
(* early.                                                                   *)
LEMMA AcceptStep ==
  ASSUME ServerOK, NEW c \in Peer, accept(c)
  PROVE  ServerOK'
<1>1. PICK p : p = peer[c]
  OBVIOUS
<1>2. ServerTypes /\ NumbersOK
  BY DEF ServerOK
<1>3. p \in PeerRec /\ fds \in [FD -> FdEntry]
  BY <1>1, <1>2 DEF ServerTypes
<1>4. PICK u : u = [p EXCEPT !.at = "accepted"]
  OBVIOUS
<1>5. u \in PeerRec /\ u.at = "accepted" /\ u.asked = p.asked /\ u.ended = p.ended
  BY <1>3, <1>4 DEF PeerRec
<1>6. /\ peer' = [peer EXCEPT ![c] = u] /\ p.at = "backlog"
      /\ fds' = opened(fds, c) /\ freeFds(fds) # {}
      /\ reused' = IF handler # "wait" /\ fds'[Head(evlist)] = c
                   THEN reused \cup {c} ELSE reused
      /\ inbox' = inbox /\ sent' = sent /\ got' = got /\ sdata' = sdata
      /\ evlist' = evlist /\ handler' = handler /\ exited' = exited
      /\ exited = "no"
  BY <1>1, <1>4 DEF accept
<1>7. PICK k \in FD : fds[k] = "free" /\ fds' = [fds EXCEPT ![k] = c]
  BY <1>3, <1>6, OpenedAt
<1>8. "free" \notin Peer
  BY DBServerAssumption
<1>9. /\ fds' \in [FD -> FdEntry] /\ fds'[k] = c
      /\ \A n \in FD : n # k => fds'[n] = fds[n]
  BY <1>3, <1>7 DEF FdEntry
<1>10. /\ peer' \in [Peer -> PeerRec] /\ peer'[c] = u
       /\ \A d \in Peer : d # c => peer'[d] = peer[d]
  BY <1>2, <1>5, <1>6, PeerChanged
<1>11. ServerTypes'
  BY <1>2, <1>6, <1>9, <1>10 DEF ServerTypes, none
<1>12. \A n \in FD : fds[n] # c
  BY <1>1, <1>2, <1>6 DEF NumbersOK, HoldsOne
<1>13. HoldsOne(fds', c, u)
  BY <1>5, <1>9, <1>12 DEF HoldsOne
<1>14. \A d \in Peer, n \in FD : d # c => (fds'[n] = d <=> fds[n] = d)
  BY <1>7, <1>8, <1>9
<1>15. ASSUME NEW d \in Peer, d # c
       PROVE  HoldsOne(fds', d, peer'[d])
  <2>1. HoldsOne(fds, d, peer[d]) /\ peer'[d] = peer[d]
    BY <1>2, <1>10, <1>15 DEF NumbersOK
  <2>2. \A n \in FD : fds'[n] = d <=> fds[n] = d
    BY <1>14, <1>15
  <2> QED
    BY <2>1, <2>2 DEF HoldsOne
<1>16. NumbersOK'
  BY <1>10, <1>13, <1>15 DEF NumbersOK
<1>17. handler # "wait" => Head(evlist) \in FD
  BY <1>2 DEF ServerTypes
<1>18. ASSUME NEW d \in Peer \ reused'
       PROVE  OwnOK(d)'
  <2>1. d \in Peer /\ d \notin reused /\ OwnOK(d)
    BY <1>6 DEF ServerOK
  <2>2. Serving(d)' <=> Serving(d)
    <3>1. CASE d = c
      BY <1>6, <1>12, <1>17, <1>18, <3>1 DEF Serving
    <3>2. CASE d # c
      BY <1>6, <1>14, <1>17, <2>1, <3>2 DEF Serving
    <3> QED
      BY <3>1, <3>2
  <2>3. peer'[d].asked = peer[d].asked /\ peer'[d].ended = peer[d].ended
    BY <1>1, <1>5, <1>10, <2>1
  <2>4. peer'[d].ended = "broken" => sent[d] # <<>>
    BY <2>1, <2>3 DEF OwnOK
  <2> QED
    BY <1>6, <2>1, <2>2, <2>3, <2>4, OwnKept
<1> QED
  BY <1>6, <1>11, <1>16, <1>18 DEF ServerOK

(* Steps of the handler that leave every client alone, whatever files it    *)
(* opens and closes.                                                        *)
LEMMA HandlerStep ==
  ASSUME ServerOK, fds' \in [FD -> FdEntry], SameHolders(fds, fds'),
         UNCHANGED <<peer, inbox, sent, got, sdata, exited, reused>>,
         \/ handler = "wait" /\ handler' = "wait" /\ evlist' \in Seq(FD)
         \/ /\ handler # "wait" /\ handler' \in {"files", "write"}
            /\ evlist' = evlist
  PROVE  ServerOK'
<1>1. /\ peer' = peer /\ inbox' = inbox /\ sent' = sent /\ got' = got
      /\ sdata' = sdata /\ exited' = exited /\ reused' = reused
  OBVIOUS
<1>2. ServerTypes /\ NumbersOK
  BY DEF ServerOK
<1>3. ServerTypes'
  BY <1>1, <1>2 DEF ServerTypes, none
<1>4. ASSUME NEW d \in Peer
      PROVE  HoldsOne(fds', d, peer[d])
  <2>1. HoldsOne(fds, d, peer[d])
    BY <1>2 DEF NumbersOK
  <2>2. \A n \in FD : fds'[n] = d <=> fds[n] = d
    BY DEF SameHolders
  <2> QED
    BY <2>1, <2>2 DEF HoldsOne
<1>5. NumbersOK'
  BY <1>1, <1>4 DEF NumbersOK
<1>6. handler # "wait" => Head(evlist) \in FD
  BY <1>2 DEF ServerTypes
<1>7. ASSUME NEW d \in Peer \ reused'
      PROVE  OwnOK(d)'
  <2>1. d \in Peer /\ d \notin reused /\ OwnOK(d)
    BY <1>1 DEF ServerOK
  <2>2. Serving(d)' <=> Serving(d)
    BY <1>6, <2>1 DEF Serving, SameHolders
  <2>3. peer'[d].ended = "broken" => sent[d] # <<>>
    BY <1>1, <2>1 DEF OwnOK
  <2> QED
    BY <1>1, <2>1, <2>2, <2>3, OwnKept
<1> QED
  BY <1>1, <1>3, <1>5, <1>7 DEF ServerOK

(* The handler gets its list, and answers the requests of the tables.       *)
LEMMA FileSteps ==
  ASSUME ServerOK, epoll_wait \/ getResponse \/ returns
  PROVE  ServerOK'
<1>1. fds \in [FD -> FdEntry]
  BY DEF ServerOK, ServerTypes
<1>2. CASE epoll_wait
  <2>1. PICK ready : ready \subseteq FD /\ evlist' \in SetToSeqs(ready)
    BY <1>2 DEF epoll_wait, kSubset
  <2>2. ready \subseteq FD
    BY <2>1
  <2>3. IsFiniteSet(ready)
    BY <2>2, TableFinite, FS_Subset
  <2>4. Cardinality(ready) \in Nat
    BY <2>3, FS_CardinalityType
  <2>5. evlist' \in [1 .. Cardinality(ready) -> ready]
    BY <2>1 DEF SetToSeqs
  <2>6. evlist' \in Seq(FD)
    BY <2>2, <2>4, <2>5
  <2>7. /\ fds' = fds /\ UNCHANGED <<peer, inbox, sent, got, sdata, exited, reused>>
        /\ handler = "wait" /\ handler' = "wait"
    BY <1>2 DEF epoll_wait
  <2>8. fds' \in [FD -> FdEntry] /\ SameHolders(fds, fds')
    BY <1>1, <2>7 DEF SameHolders
  <2> QED
    BY <2>6, <2>7, <2>8, HandlerStep
<1>3. CASE getResponse
  <2>1. /\ Cardinality(freeFds(fds)) >= 2 /\ fds' = opened(opened(fds, "file"), "file")
        /\ UNCHANGED <<peer, inbox, sent, got, sdata, exited, reused>>
        /\ handler = "respond" /\ handler' = "files" /\ evlist' = evlist
    BY <1>3 DEF getResponse
  <2>2. fds' \in [FD -> FdEntry] /\ SameHolders(fds, fds')
    BY <1>1, <2>1, FilesOpened
  <2> QED
    BY <2>1, <2>2, HandlerStep
<1>4. CASE returns
  <2>1. PICK n \in leftOpen(sdata) :
           n <= Cardinality(freeFds(fds)) /\ fds' = closeFiles(leave(fds, n))
    BY <1>4 DEF returns
  <2>2. /\ UNCHANGED <<peer, inbox, sent, got, sdata, exited, reused>>
        /\ handler = "files" /\ handler' = "write" /\ evlist' = evlist
    BY <1>4 DEF returns
  <2>3. n \in 0 .. 2
    BY <2>1 DEF leftOpen
  <2>4. fds' \in [FD -> FdEntry] /\ SameHolders(fds, fds')
    BY <1>1, <2>1, <2>3, FilesOpened
  <2> QED
    BY <2>2, <2>4, HandlerStep
<1> QED
  BY <1>2, <1>3, <1>4

(* The server exits: where the connections are stays as it was.  A SIGPIPE  *)
(* comes of an answer to a client that was given the number too early.      *)
LEMMA ExitStep ==
  ASSUME ServerOK, NEW why, exit(why), why = "SIGPIPE" => SIGPIPE
  PROVE  ServerOK'
<1>1. /\ exited' = why
      /\ UNCHANGED <<fds, peer, inbox, sent, got, sdata, evlist, handler, reused>>
  BY DEF exit
<1>2. ServerTypes'
  BY <1>1 DEF ServerOK, ServerTypes, none
<1>3. NumbersOK'
  BY <1>1 DEF ServerOK, NumbersOK
<1>4. \A c \in Peer : OwnOK(c) => OwnOK(c)'
  <2> SUFFICES ASSUME NEW c \in Peer, OwnOK(c) PROVE OwnOK(c)'
    OBVIOUS
  <2>1. Serving(c)' <=> Serving(c)
    BY <1>1 DEF Serving
  <2>2. peer'[c].ended = "broken" => sent[c] # <<>>
    BY <1>1 DEF OwnOK
  <2> QED
    BY <1>1, <2>1, <2>2, OwnKept
<1>5. ASSUME why = "SIGPIPE"
      PROVE  reused # {}
  <2>1. PICK c \in Peer : c = receiver /\ peer[c].ended = "broken" /\ handler = "write"
    BY <1>5 DEF SIGPIPE
  <2>2. Serving(c)
    BY <2>1 DEF Serving, receiver
  <2>3. ~OwnOK(c)
    BY <2>1, <2>2 DEF OwnOK
  <2> QED
    BY <2>3 DEF ServerOK
<1> QED
  BY <1>1, <1>2, <1>3, <1>4, <1>5 DEF ServerOK

(* The read of a request: from the client's queue into sdata.               *)
LEMMA ReadStep ==
  ASSUME ServerOK, NEW c \in Peer, readn(c)
  PROVE  ServerOK'
<1>1. /\ handler = "wait" /\ evlist # <<>> /\ fds[Head(evlist)] = c /\ inbox[c] # none
      /\ sdata' = inbox[c] /\ inbox' = [inbox EXCEPT ![c] = none] /\ handler' = "respond"
      /\ fds' = fds /\ peer' = peer /\ sent' = sent /\ got' = got /\ evlist' = evlist
      /\ exited' = exited /\ reused' = reused
  BY DEF readn, reads
<1>2. ServerTypes /\ NumbersOK
  BY DEF ServerOK
<1>3. inbox \in [Peer -> Request \cup {none}]
  BY <1>2 DEF ServerTypes
<1>4. /\ sdata' \in Request /\ inbox' \in [Peer -> Request \cup {none}] /\ inbox'[c] = none
      /\ \A d \in Peer : d # c => inbox'[d] = inbox[d]
  BY <1>1, <1>3
<1>5. ServerTypes'
  BY <1>1, <1>2, <1>4 DEF ServerTypes, none
<1>6. NumbersOK'
  BY <1>1, <1>2 DEF NumbersOK
<1>7. \A d \in Peer : ~Serving(d) /\ (Serving(d)' <=> d = c)
  BY <1>1 DEF Serving
<1>8. ASSUME NEW d \in Peer \ reused'
      PROVE  OwnOK(d)'
  <2>1. d \in Peer /\ OwnOK(d)
    BY <1>1 DEF ServerOK
  <2>2. CASE d # c
    <3>1. Serving(d)' <=> Serving(d)
      BY <1>7, <2>1, <2>2
    <3>2. peer'[d].ended = "broken" => sent[d] # <<>>
      BY <1>1, <2>1 DEF OwnOK
    <3>3. ~Serving(d)
      BY <1>7, <2>1
    <3> QED
      BY <1>1, <1>4, <2>1, <2>2, <3>1, <3>2, <3>3, OwnKept
  <2>3. CASE d = c
    <3>1. OwnOK(c)
      BY <2>1, <2>3
    <3>2. PICK k : k = peer[c].asked
      OBVIOUS
    <3>3. /\ k = Len(got[c]) + 1 /\ inbox[c] = <<c, k>> /\ sent[c] = <<>>
          /\ peer[c].ended # "broken" /\ \A i \in DOMAIN got[c] : got[c][i] = <<c, i>>
      BY <1>1, <3>1, <3>2 DEF OwnOK
    <3>4. Serving(c)'
      BY <1>7
    <3>5. /\ peer'[c].asked = k /\ inbox'[c] = none /\ sent'[c] = <<>> /\ sdata' = <<c, k>>
          /\ got'[c] = got[c] /\ peer'[c].ended # "broken"
      BY <1>1, <1>4, <3>2, <3>3
    <3>6. OwnOK(c)'
      BY <3>3, <3>4, <3>5 DEF OwnOK, none
    <3> QED
      BY <2>3, <3>6
  <2> QED
    BY <2>2, <2>3
<1> QED
  BY <1>1, <1>5, <1>6, <1>8 DEF ServerOK

(* The read that finds the end: the number is free, and what is answered    *)
(* next goes to nobody who has it now.                                      *)
LEMMA ReadEndStep ==
  ASSUME ServerOK, NEW c \in Peer, readEnd(c)
  PROVE  ServerOK'
<1>1. PICK p, k : p = peer[c] /\ k = Head(evlist)
  OBVIOUS
<1>2. ServerTypes /\ NumbersOK
  BY DEF ServerOK
<1>3. p \in PeerRec /\ fds \in [FD -> FdEntry] /\ evlist \in Seq(FD)
  BY <1>1, <1>2 DEF ServerTypes
<1>4. PICK u : u = [p EXCEPT !.at = "closed"]
  OBVIOUS
<1>5. u \in PeerRec /\ u.at = "closed" /\ u.asked = p.asked /\ u.ended = p.ended
  BY <1>3, <1>4 DEF PeerRec
<1>6. /\ handler = "wait" /\ evlist # <<>> /\ fds[k] = c
      /\ p.ended \in {"closed", "broken"}
      /\ fds' = [fds EXCEPT ![k] = "free"] /\ peer' = [peer EXCEPT ![c] = u]
      /\ handler' = "respond" /\ inbox' = inbox /\ sent' = sent /\ got' = got
      /\ sdata' = sdata /\ evlist' = evlist /\ exited' = exited /\ reused' = reused
  BY <1>1, <1>4 DEF readEnd, reads
<1>7. k \in FD
  BY <1>1, <1>3, <1>6
<1>8. "free" \notin Peer
  BY DBServerAssumption
<1>9. /\ fds' \in [FD -> FdEntry] /\ fds'[k] = "free"
      /\ \A n \in FD : n # k => fds'[n] = fds[n]
  BY <1>3, <1>6, <1>7 DEF FdEntry
<1>10. /\ peer' \in [Peer -> PeerRec] /\ peer'[c] = u
       /\ \A d \in Peer : d # c => peer'[d] = peer[d]
  BY <1>2, <1>5, <1>6, PeerChanged
<1>11. ServerTypes'
  BY <1>2, <1>6, <1>9, <1>10 DEF ServerTypes, none
<1>12. \A n \in FD : fds'[n] # c
  BY <1>2, <1>6, <1>7, <1>8, <1>9 DEF NumbersOK, HoldsOne
<1>13. HoldsOne(fds', c, u)
  BY <1>5, <1>6, <1>12 DEF HoldsOne
<1>14. \A d \in Peer, n \in FD : d # c => (fds'[n] = d <=> fds[n] = d)
  BY <1>6, <1>8, <1>9
<1>15. ASSUME NEW d \in Peer, d # c
       PROVE  HoldsOne(fds', d, peer'[d])
  <2>1. HoldsOne(fds, d, peer[d]) /\ peer'[d] = peer[d]
    BY <1>2, <1>10, <1>15 DEF NumbersOK
  <2>2. \A n \in FD : fds'[n] = d <=> fds[n] = d
    BY <1>14, <1>15
  <2> QED
    BY <2>1, <2>2 DEF HoldsOne
<1>16. NumbersOK'
  BY <1>10, <1>13, <1>15 DEF NumbersOK
<1>17. \A d \in Peer : ~Serving(d) /\ ~Serving(d)'
  BY <1>1, <1>6, <1>8, <1>9 DEF Serving
<1>18. ASSUME NEW d \in Peer \ reused'
       PROVE  OwnOK(d)'
  <2>1. d \in Peer /\ OwnOK(d)
    BY <1>6 DEF ServerOK
  <2>2. peer'[d].asked = peer[d].asked /\ peer'[d].ended = peer[d].ended
    BY <1>1, <1>5, <1>10, <2>1
  <2>3. peer'[d].ended = "broken" => sent[d] # <<>>
    BY <2>1, <2>2 DEF OwnOK
  <2>4. Serving(d)' <=> Serving(d)
    BY <1>17, <2>1
  <2>5. ~Serving(d)
    BY <1>17, <2>1
  <2> QED
    BY <1>6, <2>1, <2>2, <2>3, <2>4, <2>5, OwnKept
<1> QED
  BY <1>6, <1>11, <1>16, <1>18 DEF ServerOK

(* The answer is sent to whoever has the number: to the client that was     *)
(* served, unless another one has been given the number in between.         *)
LEMMA WriteStep ==
  ASSUME ServerOK, write
  PROVE  ServerOK'
<1>1. /\ handler = "write" /\ handler' = "wait" /\ evlist' = Tail(evlist)
      /\ fds' = fds /\ inbox' = inbox /\ got' = got /\ sdata' = sdata
      /\ exited' = exited /\ reused' = reused
  BY DEF write
<1>2. ServerTypes /\ NumbersOK
  BY DEF ServerOK
<1>3. evlist' \in Seq(FD)
  BY <1>1, <1>2 DEF ServerTypes
<1>4. \A d : ~Serving(d)'
  BY <1>1 DEF Serving
<1>5. \A d \in Peer : Serving(d) <=> d = receiver
  BY <1>1 DEF Serving, receiver
<1>6. CASE receiver \notin Peer
  <2>1. sent' = sent /\ peer' = peer
    BY <1>6 DEF write
  <2>2. ServerTypes'
    BY <1>1, <1>2, <1>3, <2>1 DEF ServerTypes, none
  <2>3. NumbersOK'
    BY <1>1, <1>2, <2>1 DEF NumbersOK
  <2>4. ASSUME NEW d \in Peer \ reused'
        PROVE  OwnOK(d)'
    <3>1. d \in Peer /\ OwnOK(d)
      BY <1>1 DEF ServerOK
    <3>2. ~Serving(d) /\ ~Serving(d)'
      BY <1>4, <1>5, <1>6, <3>1
    <3>3. peer'[d].ended = "broken" => sent[d] # <<>>
      BY <2>1, <3>1 DEF OwnOK
    <3> QED
      BY <1>1, <2>1, <3>1, <3>2, <3>3, OwnKept
  <2> QED
    BY <1>1, <2>2, <2>3, <2>4 DEF ServerOK
<1>7. CASE receiver \in Peer
  <2>1. PICK c, p, s : c = receiver /\ p = peer[c] /\ s = sent[c]
    OBVIOUS
  <2>2. c \in Peer /\ p \in PeerRec /\ s \in Seq(Request) /\ sdata \in Request
    BY <1>2, <1>7, <2>1 DEF ServerTypes
  <2>3. PICK how : how = afterWrite(p.ended)
    OBVIOUS
  <2>4. PICK u : u = [p EXCEPT !.ended = how]
    OBVIOUS
  <2>5. p.ended \in {"no", "closed", "reset", "broken"}
    BY <2>2 DEF PeerRec
  <2>6. how \in {"no", "closed", "reset", "broken"} /\ (how = "no" => p.ended = "no")
    BY <2>3, <2>5 DEF afterWrite
  <2>7. u \in PeerRec /\ u.at = p.at /\ u.asked = p.asked /\ u.ended = how
    BY <2>2, <2>4, <2>6 DEF PeerRec
  <2>8. peer' = [peer EXCEPT ![c] = u] /\ sent' = [sent EXCEPT ![c] = Append(s, sdata)]
    BY <1>7, <2>1, <2>3, <2>4 DEF write
  <2>9. /\ peer' \in [Peer -> PeerRec] /\ peer'[c] = u
        /\ \A d \in Peer : d # c => peer'[d] = peer[d]
    BY <1>2, <2>2, <2>7, <2>8, PeerChanged
  <2>10. Append(s, sdata) \in Seq(Request) /\ sent \in [Peer -> Seq(Request)]
    BY <1>2, <2>2 DEF ServerTypes
  <2>11. /\ sent' \in [Peer -> Seq(Request)] /\ sent'[c] = Append(s, sdata)
         /\ \A d \in Peer : d # c => sent'[d] = sent[d]
    BY <2>2, <2>8, <2>10
  <2>12. ServerTypes'
    BY <1>1, <1>2, <1>3, <2>9, <2>11 DEF ServerTypes, none
  <2>13. HoldsOne(fds, c, u)
    <3>1. HoldsOne(fds, c, p)
      BY <1>2, <2>1, <2>2 DEF NumbersOK
    <3> QED
      BY <2>6, <2>7, <3>1 DEF HoldsOne
  <2>14. NumbersOK'
    BY <1>1, <1>2, <2>9, <2>13 DEF NumbersOK
  <2>15. ASSUME NEW d \in Peer \ reused'
         PROVE  OwnOK(d)'
    <3>1. d \in Peer /\ OwnOK(d) /\ ~Serving(d)'
      BY <1>1, <1>4 DEF ServerOK
    <3>2. CASE d # c
      <4>1. ~Serving(d)
        BY <1>5, <2>1, <3>1, <3>2
      <4>2. peer'[d] = peer[d] /\ sent'[d] = sent[d]
        BY <2>9, <2>11, <3>1, <3>2
      <4>3. peer'[d].ended = "broken" => sent[d] # <<>>
        BY <3>1, <4>2 DEF OwnOK
      <4> QED
        BY <1>1, <3>1, <4>1, <4>2, <4>3, OwnKept
    <3>3. CASE d = c
      <4>1. Serving(c) /\ OwnOK(c) /\ ~Serving(c)'
        BY <1>5, <2>1, <2>2, <3>1, <3>3
      <4>2. PICK k : k = peer[c].asked
        OBVIOUS
      <4>3. /\ k = Len(got[c]) + 1 /\ inbox[c] = none /\ s = <<>> /\ sdata = <<c, k>>
            /\ \A i \in DOMAIN got[c] : got[c][i] = <<c, i>>
        BY <2>1, <4>1, <4>2 DEF OwnOK
      <4>4. Append(<<>>, <<c, k>>) = <<<<c, k>>>>
        OBVIOUS
      <4>5. sent'[c] = <<<<c, k>>>> /\ sent'[c] # <<>>
        BY <2>11, <4>3, <4>4
      <4>6. peer'[c].asked = k /\ inbox'[c] = none /\ got'[c] = got[c]
        BY <1>1, <2>1, <2>7, <2>9, <4>2, <4>3
      <4>7. OwnOK(c)'
        BY <4>1, <4>3, <4>5, <4>6 DEF OwnOK, none
      <4> QED
        BY <3>3, <4>7
    <3> QED
      BY <3>2, <3>3
  <2> QED
    BY <1>1, <2>12, <2>14, <2>15 DEF ServerOK
<1> QED
  BY <1>6, <1>7

(* The server starts with no client and keeps ServerOK.                     *)
LEMMA ServerInvariant ==
  DBServerInit /\ [][DBServerNext]_serverVars => []ServerOK
<1>1. DBServerInit => ServerOK
  <2> SUFFICES ASSUME DBServerInit PROVE ServerOK
    OBVIOUS
  <2>1. PICK p : p = [at |-> "out", ended |-> "no", asked |-> 0]
    OBVIOUS
  <2>2. p \in PeerRec /\ p.at = "out" /\ p.ended = "no" /\ p.asked = 0
    BY <2>1 DEF PeerRec
  <2>3. /\ peer = [c \in Peer |-> p] /\ inbox = [c \in Peer |-> none]
        /\ sent = [c \in Peer |-> <<>>] /\ got = [c \in Peer |-> <<>>]
        /\ sdata = garbage /\ evlist = <<>> /\ handler = "wait" /\ exited = "no"
        /\ reused = {}
    BY <2>1 DEF DBServerInit
  <2>4. PICK left : fds = [n \in FD |-> IF n <= left THEN "leftOpen" ELSE "free"]
    BY DEF DBServerInit
  <2>5. fds \in [FD -> FdEntry] /\ \A n \in FD : fds[n] \in {"leftOpen", "free"}
    BY <2>4 DEF FdEntry
  <2>6. "leftOpen" \notin Peer /\ "free" \notin Peer
    BY DBServerAssumption
  <2>7. <<>> \in Seq(Request) /\ <<>> \in Seq(FD) /\ garbage \in Request
    BY DEF Request
  <2>8. ServerTypes
    BY <2>2, <2>3, <2>5, <2>7 DEF ServerTypes
  <2>9. NumbersOK
    BY <2>2, <2>3, <2>5, <2>6 DEF NumbersOK, HoldsOne
  <2>10. ASSUME NEW c \in Peer PROVE OwnOK(c)
    <3>1. got[c] = <<>> /\ sent[c] = <<>> /\ inbox[c] = none /\ peer[c] = p
      BY <2>3
    <3>2. ~Serving(c)
      BY <2>3 DEF Serving
    <3>3. DOMAIN got[c] = {} /\ Len(got[c]) = 0
      BY <3>1
    <3> QED
      BY <2>2, <3>1, <3>2, <3>3 DEF OwnOK
  <2> QED
    BY <2>3, <2>8, <2>9, <2>10 DEF ServerOK
<1>2. ServerOK /\ [DBServerNext]_serverVars => ServerOK'
  <2> SUFFICES ASSUME ServerOK, [DBServerNext]_serverVars PROVE ServerOK'
    OBVIOUS
  <2>1. ASSUME NEW c \in Peer, Connect(c) \/ Ask(c) \/ ReadAnswer(c) \/ End(c)
        PROVE  ServerOK'
    BY <2>1, ConnectStep, AskStep, ReadAnswerStep
  <2>2. CASE mainThread
    <3>1. CASE acceptError
      BY <3>1, ExitStep DEF acceptError
    <3> QED
      BY <2>2, <3>1, AcceptStep, ConnectStep DEF mainThread
  <2>3. CASE handleRequests
    <3>1. ASSUME NEW c \in Peer, readError(c) PROVE ServerOK'
      BY <3>1, ExitStep DEF readError
    <3>2. CASE openError
      BY <3>2, ExitStep DEF openError
    <3>3. CASE verifyError
      BY <3>3, ExitStep DEF verifyError
    <3>4. CASE SIGPIPE
      <4>1. exit("SIGPIPE")
        BY <3>4 DEF SIGPIPE
      <4> QED
        BY <3>4, <4>1, ExitStep
    <3> QED
      BY <2>3, <3>1, <3>2, <3>3, <3>4, ReadStep, ReadEndStep, FileSteps, WriteStep
         DEF handleRequests
  <2>4. CASE UNCHANGED serverVars
    <3>1. /\ UNCHANGED <<fds, peer, inbox, sent, got, sdata, evlist, handler, reused>>
          /\ exited' = exited
      BY <2>4 DEF serverVars
    <3> QED
      BY <3>1 DEF ServerOK, ServerTypes, NumbersOK, OwnOK, Serving, none
  <2> QED
    BY <2>1, <2>2, <2>3, <2>4 DEF DBServerNext
<1> QED
  BY <1>1, <1>2, PTL

(* Every answer a client of the SimpleDB server reads is the answer to its  *)
(* own request of that number, for any number of clients, descriptors and   *)
(* requests, and whatever files are left open: the only exception is a      *)
(* client that was accepted between the handler's close and its write, and  *)
(* only such a client can bring the SIGPIPE.                                *)
THEOREM OwnAnswers ==
  DBServerInit /\ [][DBServerNext]_serverVars => []AnswersAreOwn
<1>1. ServerOK => AnswersAreOwn
  BY DEF ServerOK, OwnOK, AnswersAreOwn
<1> QED
  BY <1>1, ServerInvariant, PTL

(* The server closes a connection only after its client has gone, and a     *)
(* connection has exactly one number from accept to close, for any number   *)
(* of clients and descriptors.                                              *)
THEOREM NobodyCutOff ==
  DBServerInit /\ [][DBServerNext]_serverVars => []NobodyIsCutOff
<1>1. ServerOK => NobodyIsCutOff
  <2> SUFFICES ASSUME ServerOK, NEW c \in Peer
               PROVE  /\ peer[c].at = "closed" => peer[c].ended # "no"
                      /\ Cardinality({n \in FD : fds[n] = c}) =
                            IF peer[c].at \in {"accepted", "polled"} THEN 1 ELSE 0
    BY DEF NobodyIsCutOff
  <2> DEFINE has == {n \in FD : fds[n] = c}
  <2>1. HoldsOne(fds, c, peer[c])
    BY DEF ServerOK, NumbersOK
  <2>2. Cardinality({}) = 0 /\ \A x : Cardinality({x}) = 1
    BY FS_EmptySet, FS_Singleton
  <2>3. CASE peer[c].at \in {"accepted", "polled"}
    <3>1. PICK n \in FD : fds[n] = c
      BY <2>1, <2>3 DEF HoldsOne
    <3>2. \A m \in FD : fds[m] = c => m = n
      BY <2>1, <3>1 DEF HoldsOne
    <3>3. has = {n}
      BY <3>1, <3>2
    <3>4. Cardinality(has) = 1
      BY <2>2, <3>3, Zenon
    <3> QED
      BY <2>1, <2>3, <3>4 DEF HoldsOne
  <2>4. CASE peer[c].at \notin {"accepted", "polled"}
    <3>1. has = {}
      BY <2>1, <2>4 DEF HoldsOne
    <3>2. Cardinality(has) = 0
      BY <2>2, <3>1, Zenon
    <3> QED
      BY <2>1, <2>4, <3>2 DEF HoldsOne
  <2> QED
    BY <2>3, <2>4
<1> QED
  BY <1>1, ServerInvariant, PTL

-----------------------------------------------------------------------------
(* The tabs of the blog's administration page.                              *)

(* A set that holds 0 and with n also n + 1, as far as N, holds all of them. *)
LEMMA CountsTo ==
  ASSUME NEW N \in Nat, NEW S, 0 \in S, \A n \in 0 .. N : n < N /\ n \in S => n + 1 \in S
  PROVE  0 .. N \subseteq S
<1> DEFINE D == {n \in 0 .. N : n \notin S}
<1>1. SUFFICES ASSUME D # {} PROVE FALSE
  OBVIOUS
<1>2. PICK n \in D : \A k \in D : n <= k
  <2>1. D \in SUBSET Nat
    OBVIOUS
  <2> HIDE DEF D
  <2> QED
    BY <1>1, <2>1, LeastNumber
<1>3. n \in 0 .. N /\ n # 0
  BY <1>2
<1>4. n - 1 \in 0 .. N /\ n - 1 < N /\ (n - 1) + 1 = n /\ n - 1 \notin D
  BY <1>2, <1>3
<1> QED
  BY <1>2, <1>4

(* The recursion of without, as far as N.                                   *)
KeptNext(list, tabindex, n, s) ==
    IF list[n].tabindex = tabindex THEN s ELSE Append(s, list[n])

Keeping(list, tabindex, N, kept) ==
    kept = [n \in 0 .. N |-> IF n = 0 THEN <<>> ELSE KeptNext(list, tabindex, n, kept[n - 1])]

(* It has a solution.                                                       *)
LEMMA KeepingExists ==
  ASSUME NEW list, NEW tabindex, NEW N \in Nat
  PROVE  \E kept : Keeping(list, tabindex, N, kept)
<1> DEFINE S == {n \in Nat : \E c : Keeping(list, tabindex, n, c)}
           g(h, k) == IF k = 0 THEN <<>> ELSE KeptNext(list, tabindex, k, h[k - 1])
<1>1. 0 \in S
  <2>1. Keeping(list, tabindex, 0, [n \in 0 .. 0 |-> <<>>])
    BY DEF Keeping
  <2> QED
    BY <2>1
<1>2. ASSUME NEW n \in Nat, n \in S
      PROVE  n + 1 \in S
  <2>1. PICK c : Keeping(list, tabindex, n, c)
    BY <1>2
  <2> DEFINE d == [k \in 0 .. (n + 1) |-> g(c, k)]
  <2>2. \A k \in 0 .. n : c[k] = g(c, k)
    BY <2>1 DEF Keeping
  <2>3. \A k \in 0 .. n : d[k] = c[k]
    BY <2>2
  <2>4. ASSUME NEW k \in 0 .. (n + 1)
        PROVE  g(d, k) = g(c, k)
    <3>1. CASE k = 0
      BY <3>1
    <3>2. CASE k # 0
      <4>1. k - 1 \in 0 .. n
        BY <3>2
      <4>2. d[k - 1] = c[k - 1]
        BY <2>3, <4>1
      <4> QED
        BY <3>2, <4>2
    <3> QED
      BY <3>1, <3>2
  <2>5. d = [k \in 0 .. (n + 1) |-> g(d, k)]
    BY <2>4
  <2>6. Keeping(list, tabindex, n + 1, d)
    BY <2>5 DEF Keeping
  <2> HIDE DEF d
  <2> QED
    BY <2>6
<1> HIDE DEF S
<1>3. 0 .. N \subseteq S
  BY <1>1, <1>2, CountsTo
<1> QED
  BY <1>3 DEF S

(* And without is where it ends.                                            *)
LEMMA WithoutIs ==
  ASSUME NEW list, NEW tabindex, Len(list) \in Nat
  PROVE  \E c : /\ without(list, tabindex) = c[Len(list)] /\ c[0] = <<>>
                /\ \A n \in 1 .. Len(list) : c[n] = KeptNext(list, tabindex, n, c[n - 1])
<1> DEFINE N == Len(list)
           c == CHOOSE c : Keeping(list, tabindex, N, c)
<1>1. without(list, tabindex) = c[N]
  BY DEF without, Keeping, KeptNext
<1>2. Keeping(list, tabindex, N, c)
  BY KeepingExists
<1> HIDE DEF c, N
<1>3. N \in Nat
  BY DEF N
<1>4. c[0] = <<>> /\ \A n \in 1 .. N : c[n] = KeptNext(list, tabindex, n, c[n - 1])
  BY <1>2, <1>3 DEF Keeping
<1> QED
  BY <1>1, <1>4 DEF N

(* One tab carries the number: only that one goes.                          *)
LEMMA WithoutOne ==
  ASSUME NEW T, NEW list \in Seq(T), NEW p \in 1 .. Len(list), NEW tabindex,
         \A i \in 1 .. Len(list) : list[i].tabindex = tabindex <=> i = p
  PROVE  without(list, tabindex) \in Seq(T) /\ Skipped(list, p, without(list, tabindex))
<1> DEFINE N == Len(list)
<1>0. N \in Nat /\ \A i \in 1 .. N : list[i] \in T
  OBVIOUS
<1>2. PICK c : /\ without(list, tabindex) = c[N] /\ c[0] = <<>>
               /\ \A n \in 1 .. N : c[n] = KeptNext(list, tabindex, n, c[n - 1])
  BY <1>0, WithoutIs
<1> HIDE DEF N
<1> DEFINE OK(n, s) ==
             /\ s \in Seq(T) /\ Len(s) = IF n < p THEN n ELSE n - 1
             /\ \A i \in 1 .. Len(s) : s[i] = IF i < p THEN list[i] ELSE list[i + 1]
           S == {n \in 0 .. N : OK(n, c[n])}
<1>4. 0 \in S
  <2>1. c[0] \in Seq(T) /\ Len(c[0]) = 0 /\ p \in Nat /\ p > 0
    BY <1>0, <1>2 DEF N
  <2> QED
    BY <1>0, <2>1
<1>5. ASSUME NEW n \in 0 .. N, n < N, n \in S
      PROVE  n + 1 \in S
  <2>0. n \in Nat /\ p \in Nat /\ p > 0 /\ p <= N /\ n + 1 \in 1 .. N /\ (n + 1) - 1 = n
    BY <1>0, <1>5 DEF N
  <2>1. OK(n, c[n])
    BY <1>5
  <2>2. c[n + 1] = IF list[n + 1].tabindex = tabindex THEN c[n] ELSE Append(c[n], list[n + 1])
    BY <1>2, <2>0 DEF KeptNext
  <2>3. list[n + 1].tabindex = tabindex <=> n + 1 = p
    BY <2>0 DEF N
  <2> DEFINE s == c[n]
             z == c[n + 1]
             x == list[n + 1]
  <2>4. z = (IF n + 1 = p THEN s ELSE Append(s, x)) /\ x \in T
    BY <1>0, <2>0, <2>2, <2>3
  <2> HIDE DEF s, z, x
  <2>5. OK(n, s)
    BY <2>1 DEF s
  <2>6. CASE n + 1 = p
    BY <2>0, <2>4, <2>5, <2>6 DEF z
  <2>7. CASE n + 1 # p
    <3>1. /\ z \in Seq(T) /\ Len(z) = Len(s) + 1 /\ z[Len(s) + 1] = x
          /\ \A i \in 1 .. Len(s) : z[i] = s[i]
      BY <2>4, <2>5, <2>7
    <3>2. Len(z) = IF n + 1 < p THEN n + 1 ELSE (n + 1) - 1
      BY <2>0, <2>5, <2>7, <3>1
    <3>3. ASSUME NEW i \in 1 .. Len(z)
          PROVE  z[i] = IF i < p THEN list[i] ELSE list[i + 1]
      <4>1. CASE i = Len(s) + 1
        BY <2>0, <2>5, <2>7, <3>1, <4>1 DEF x
      <4>2. CASE i # Len(s) + 1
        <5>1. i \in 1 .. Len(s)
          BY <2>5, <3>1, <4>2
        <5> QED
          BY <2>5, <3>1, <5>1
      <4> QED
        BY <4>1, <4>2
    <3>4. OK(n + 1, z)
      BY <3>1, <3>2, <3>3
    <3> QED
      BY <2>0, <3>4 DEF z
  <2> QED
    BY <2>6, <2>7
<1> HIDE DEF S
<1>6. 0 .. N \subseteq S
  BY <1>0, <1>4, <1>5, CountsTo
<1>7. OK(N, c[N])
  BY <1>0, <1>6 DEF S
<1>8. p \in Nat /\ ~(N < p)
  BY <1>0 DEF N
<1> QED
  BY <1>2, <1>7, <1>8 DEF N, Skipped

(* None carries it: nothing goes.                                           *)
LEMMA WithoutNone ==
  ASSUME NEW T, NEW list \in Seq(T), NEW tabindex,
         \A i \in 1 .. Len(list) : list[i].tabindex # tabindex
  PROVE  without(list, tabindex) = list
<1> DEFINE N == Len(list)
<1>0. N \in Nat /\ \A i \in 1 .. N : list[i] \in T
  OBVIOUS
<1>2. PICK c : /\ without(list, tabindex) = c[N] /\ c[0] = <<>>
               /\ \A n \in 1 .. N : c[n] = KeptNext(list, tabindex, n, c[n - 1])
  BY <1>0, WithoutIs
<1>3. \A n \in 1 .. N : c[n] = Append(c[n - 1], list[n])
  BY <1>2 DEF KeptNext
<1> HIDE DEF N
<1> DEFINE OK(n, s) == s \in Seq(T) /\ Len(s) = n /\ \A i \in 1 .. n : s[i] = list[i]
           S == {n \in 0 .. N : OK(n, c[n])}
<1>4. 0 \in S
  <2>1. c[0] \in Seq(T) /\ Len(c[0]) = 0
    BY <1>2
  <2> QED
    BY <1>0, <2>1
<1>5. ASSUME NEW n \in 0 .. N, n < N, n \in S
      PROVE  n + 1 \in S
  <2>0. n \in Nat /\ n + 1 \in 1 .. N /\ (n + 1) - 1 = n
    BY <1>0, <1>5
  <2> DEFINE s == c[n]
             z == c[n + 1]
  <2>1. OK(n, s) /\ z = Append(s, list[n + 1]) /\ list[n + 1] \in T
    BY <1>0, <1>3, <1>5, <2>0
  <2> HIDE DEF s, z
  <2>2. OK(n + 1, z)
    BY <2>0, <2>1
  <2> QED
    BY <2>0, <2>2 DEF z
<1> HIDE DEF S
<1>6. 0 .. N \subseteq S
  BY <1>0, <1>4, <1>5, CountsTo
<1>7. OK(N, c[N])
  BY <1>0, <1>6 DEF S
<1> QED
  BY <1>0, <1>2, <1>7, SeqEqual DEF N

(* Whatever carries the number goes, and what is left is still a list.      *)
LEMMA WithoutAny ==
  ASSUME NEW T, NEW list \in Seq(T), NEW tabindex
  PROVE  /\ without(list, tabindex) \in Seq(T)
         /\ \A i \in 1 .. Len(without(list, tabindex)) :
               without(list, tabindex)[i].tabindex # tabindex
<1> DEFINE N == Len(list)
<1>0. N \in Nat /\ \A i \in 1 .. N : list[i] \in T
  OBVIOUS
<1>2. PICK c : /\ without(list, tabindex) = c[N] /\ c[0] = <<>>
               /\ \A n \in 1 .. N : c[n] = KeptNext(list, tabindex, n, c[n - 1])
  BY <1>0, WithoutIs
<1> HIDE DEF N
<1> DEFINE OK(s) == s \in Seq(T) /\ \A i \in 1 .. Len(s) : s[i].tabindex # tabindex
           S == {n \in 0 .. N : OK(c[n])}
<1>4. 0 \in S
  <2>1. c[0] \in Seq(T) /\ Len(c[0]) = 0
    BY <1>2
  <2> QED
    BY <1>0, <2>1
<1>5. ASSUME NEW n \in 0 .. N, n < N, n \in S
      PROVE  n + 1 \in S
  <2>0. n + 1 \in 1 .. N /\ (n + 1) - 1 = n /\ n + 1 \in 0 .. N
    BY <1>0, <1>5
  <2> DEFINE s == c[n]
             z == c[n + 1]
             x == list[n + 1]
  <2>1. OK(s) /\ z = (IF x.tabindex = tabindex THEN s ELSE Append(s, x)) /\ x \in T
    BY <1>0, <1>2, <1>5, <2>0 DEF KeptNext
  <2> HIDE DEF s, z, x
  <2>2. CASE x.tabindex = tabindex
    BY <2>0, <2>1, <2>2 DEF z
  <2>3. CASE x.tabindex # tabindex
    <3>1. /\ z \in Seq(T) /\ Len(z) = Len(s) + 1 /\ z[Len(s) + 1] = x /\ Len(s) \in Nat
          /\ \A i \in 1 .. Len(s) : z[i] = s[i]
      BY <2>1, <2>3
    <3>2. \A i \in 1 .. Len(z) : i = Len(s) + 1 \/ i \in 1 .. Len(s)
      BY <3>1
    <3>3. OK(z)
      BY <2>1, <2>3, <3>1, <3>2
    <3> QED
      BY <2>0, <3>3 DEF z
  <2> QED
    BY <2>2, <2>3
<1> HIDE DEF S
<1>6. 0 .. N \subseteq S
  BY <1>0, <1>4, <1>5, CountsTo
<1>7. OK(c[N])
  BY <1>0, <1>6 DEF S
<1> QED
  BY <1>2, <1>7

(* In the list of frames a number and an item occur once, and every number  *)
(* is of the past.                                                          *)
FramesOK(fs, t) ==
    /\ fs \in Seq(Frame)
    /\ \A i \in 1 .. Len(fs) : fs[i].tabindex < t
    /\ \A i, j \in 1 .. Len(fs) : fs[i].tabindex = fs[j].tabindex => i = j
    /\ \A i, j \in 1 .. Len(fs) : fs[i].id = fs[j].id => i = j

(* Titles and frames fit together, place by place.                          *)
Fit(ts, fs) ==
    /\ Len(ts) = Len(fs)
    /\ \A i \in 1 .. Len(ts) : ts[i].tabindex = fs[i].tabindex

(* The frames are in order whatever happened, the lists fit until a tab     *)
(* behind the mark is closed, and the selection is right until the mark is  *)
(* selected.                                                                *)
TabsInv ==
    /\ now \in Nat
    /\ titles \in Seq(Title)
    /\ FramesOK(frames, now)
    /\ titles = <<>> => now = 0
    /\ titles # <<>> => titles[1].closable = FALSE
    /\ astray # "lists" => Fit(titles, frames) /\ bar \in 0 .. (Len(titles) + 1)
    /\ astray = "no" /\ titles # <<>> => this \in 1 .. Len(titles) /\ shown = this

(* Numbers of the past stay so.                                             *)
LEMMA FramesLater ==
  ASSUME NEW fs, NEW t \in Nat, FramesOK(fs, t)
  PROVE  FramesOK(fs, t + 1)
<1>1. \A y \in Frame : y.tabindex \in Nat
  BY DEF Frame
<1>2. fs \in Seq(Frame) /\ \A i \in 1 .. Len(fs) : fs[i] \in Frame /\ fs[i].tabindex < t
  BY DEF FramesOK
<1>3. \A i \in 1 .. Len(fs) : fs[i].tabindex < t + 1
  BY <1>1, <1>2
<1> QED
  BY <1>3 DEF FramesOK

(* Frames without one of them are in order, and have not its number.        *)
LEMMA SkippedFrames ==
  ASSUME NEW fs, NEW t \in Nat, FramesOK(fs, t), NEW p \in 1 .. Len(fs),
         NEW gs \in Seq(Frame), Skipped(fs, p, gs)
  PROVE  /\ FramesOK(gs, t)
         /\ \A i \in 1 .. Len(gs) : gs[i].tabindex # fs[p].tabindex /\ gs[i].id # fs[p].id
<1> DEFINE at(i) == IF i < p THEN i ELSE i + 1
<1>1. PICK N \in Nat : N = Len(fs)
  BY DEF FramesOK
<1>1a. PICK M : M = N - 1
  OBVIOUS
<1>2. p \in 1 .. N /\ Len(gs) = M
  BY <1>1, <1>1a DEF Skipped
<1>3. \A i \in 1 .. M : gs[i] = fs[at(i)]
  BY <1>1, <1>1a, <1>2 DEF Skipped
<1>4. /\ \A i \in 1 .. M : at(i) \in 1 .. N /\ at(i) # p
      /\ \A i, j \in 1 .. M : at(i) = at(j) => i = j
  BY <1>1, <1>1a, <1>2
<1> HIDE DEF at
<1>5. /\ \A i \in 1 .. N : fs[i].tabindex < t
      /\ \A i, j \in 1 .. N : /\ fs[i].tabindex = fs[j].tabindex => i = j
                              /\ fs[i].id = fs[j].id => i = j
  BY <1>1 DEF FramesOK
<1>6. \A i \in 1 .. M : gs[i].tabindex < t
  BY <1>3, <1>4, <1>5
<1>7. \A i, j \in 1 .. M : /\ gs[i].tabindex = gs[j].tabindex => i = j
                           /\ gs[i].id = gs[j].id => i = j
  <2> TAKE i, j \in 1 .. M
  <2>1. at(i) \in 1 .. N /\ at(j) \in 1 .. N /\ gs[i] = fs[at(i)] /\ gs[j] = fs[at(j)]
    BY <1>3, <1>4
  <2>2. /\ fs[at(i)].tabindex = fs[at(j)].tabindex => at(i) = at(j)
        /\ fs[at(i)].id = fs[at(j)].id => at(i) = at(j)
    BY <1>5, <2>1, Zenon
  <2> QED
    BY <1>4, <2>1, <2>2
<1>8. \A i \in 1 .. M : gs[i].tabindex # fs[p].tabindex /\ gs[i].id # fs[p].id
  <2> TAKE i \in 1 .. M
  <2>1. at(i) \in 1 .. N /\ at(i) # p /\ gs[i] = fs[at(i)]
    BY <1>3, <1>4
  <2>2. /\ fs[at(i)].tabindex = fs[p].tabindex => at(i) = p
        /\ fs[at(i)].id = fs[p].id => at(i) = p
    BY <1>2, <1>5, <2>1, Zenon
  <2> QED
    BY <2>1, <2>2
<1> QED
  BY <1>2, <1>6, <1>7, <1>8, Zenon DEF FramesOK

(* Lists that skip the same place still fit.                                *)
LEMMA SkippedFit ==
  ASSUME NEW ts \in Seq(Title), NEW fs \in Seq(Frame), Fit(ts, fs), NEW p \in 1 .. Len(ts),
         NEW us, Skipped(ts, p, us), NEW gs, Skipped(fs, p, gs)
  PROVE  Fit(us, gs)
<1>1. PICK N \in Nat : N = Len(ts)
  OBVIOUS
<1>2. p \in 1 .. N /\ Len(fs) = N /\ Len(us) = N - 1 /\ Len(gs) = N - 1
  BY <1>1 DEF Skipped, Fit
<1>3. ASSUME NEW i \in 1 .. (N - 1)
      PROVE  us[i].tabindex = gs[i].tabindex
  <2>1. PICK k \in 1 .. N : k = IF i < p THEN i ELSE i + 1
    BY <1>1, <1>2
  <2>2. us[i] = ts[k] /\ gs[i] = fs[k]
    BY <1>1, <1>2, <2>1 DEF Skipped
  <2> QED
    BY <1>1, <2>2 DEF Fit
<1> QED
  BY <1>2, <1>3 DEF Fit

(* The close button of the first tab goes, nothing else.                    *)
LEMMA FirstHidden ==
  ASSUME NEW ts \in Seq(Title), Len(ts) > 0
  PROVE  /\ hideFirst(ts) \in Seq(Title) /\ Len(hideFirst(ts)) = Len(ts)
         /\ hideFirst(ts)[1].closable = FALSE
         /\ \A i \in 1 .. Len(ts) : hideFirst(ts)[i].tabindex = ts[i].tabindex
<1> DEFINE y == ts[1]
           z == [y EXCEPT !.closable = FALSE]
<1>1. 1 \in 1 .. Len(ts) /\ y \in Title
  OBVIOUS
<1> HIDE DEF y
<1>2. z \in Title /\ z.tabindex = y.tabindex
  BY <1>1 DEF Title
<1>3. z.closable = FALSE
  BY <1>1 DEF Title
<1>4. hideFirst(ts) = [ts EXCEPT ![1] = z]
  BY DEF hideFirst, y
<1> HIDE DEF z
<1>5. /\ [ts EXCEPT ![1] = z] \in Seq(Title) /\ Len([ts EXCEPT ![1] = z]) = Len(ts)
      /\ [ts EXCEPT ![1] = z][1] = z
      /\ \A i \in 1 .. Len(ts) : i # 1 => [ts EXCEPT ![1] = z][i] = ts[i]
  BY <1>1, <1>2, ExceptSeq
<1>6. PICK s : s = [ts EXCEPT ![1] = z]
  OBVIOUS
<1>7. \A i \in 1 .. Len(ts) : s[i].tabindex = ts[i].tabindex
  BY <1>2, <1>5, <1>6 DEF y
<1> QED
  BY <1>3, <1>4, <1>5, <1>6, <1>7

(* A frame added at the end of frames that have neither its number nor its   *)
(* item.                                                                    *)
AddsFrame(t, k, id, gs, fs) ==
    /\ t \in Nat /\ k \in Nat /\ k <= t /\ id \in Ids /\ FramesOK(gs, t)
    /\ \A i \in 1 .. Len(gs) : gs[i].tabindex # k /\ gs[i].id # id
    /\ fs = Append(gs, [tabindex |-> k, id |-> id])

(* The frames are still in order.                                           *)
LEMMA FrameAdded ==
  ASSUME NEW t, NEW k, NEW id, NEW gs, NEW fs, AddsFrame(t, k, id, gs, fs)
  PROVE  /\ FramesOK(fs, t + 1)
         /\ Len(gs) \in Nat /\ Len(fs) = Len(gs) + 1 /\ DOMAIN fs = 1 .. (Len(gs) + 1)
         /\ fs[Len(gs) + 1].tabindex = k /\ \A i \in 1 .. Len(gs) : fs[i] = gs[i]
<1>0. /\ t \in Nat /\ k \in Nat /\ k <= t /\ id \in Ids /\ FramesOK(gs, t)
      /\ \A i \in 1 .. Len(gs) : gs[i].tabindex # k /\ gs[i].id # id
      /\ fs = Append(gs, [tabindex |-> k, id |-> id])
  BY DEF AddsFrame
<1>1. gs \in Seq(Frame)
  BY <1>0 DEF FramesOK
<1>1a. PICK N \in Nat : N = Len(gs)
  BY <1>1
<1>2. PICK y : y = [tabindex |-> k, id |-> id]
  OBVIOUS
<1>3. y \in Frame /\ y.tabindex = k /\ y.id = id
  BY <1>0, <1>2 DEF Frame
<1>6. /\ fs \in Seq(Frame) /\ Len(fs) = N + 1 /\ DOMAIN fs = 1 .. (N + 1)
      /\ fs[N + 1] = y /\ \A i \in 1 .. N : fs[i] = gs[i]
  BY <1>0, <1>1, <1>1a, <1>2, <1>3
<1>7. \A i \in 1 .. N : gs[i].tabindex < t + 1
  BY <1>0, <1>1a, FramesLater DEF FramesOK
<1>8. \A i \in 1 .. (N + 1) : i = N + 1 \/ i \in 1 .. N
  OBVIOUS
<1>9. \A i \in 1 .. (N + 1) : fs[i].tabindex < t + 1
  BY <1>0, <1>3, <1>6, <1>7, <1>8
<1>10. ASSUME NEW i \in 1 .. (N + 1), NEW j \in 1 .. (N + 1)
       PROVE  /\ fs[i].tabindex = fs[j].tabindex => i = j
              /\ fs[i].id = fs[j].id => i = j
  <2>1. CASE i \in 1 .. N /\ j \in 1 .. N
    <3>1. fs[i] = gs[i] /\ fs[j] = gs[j]
      BY <1>6, <2>1
    <3>2. (gs[i].tabindex = gs[j].tabindex => i = j) /\ (gs[i].id = gs[j].id => i = j)
      BY <1>0, <1>1a, <2>1 DEF FramesOK
    <3> QED
      BY <3>1, <3>2
  <2>2. CASE i = N + 1 /\ j \in 1 .. N
    BY <1>0, <1>1a, <1>3, <1>6, <2>2
  <2>3. CASE j = N + 1 /\ i \in 1 .. N
    BY <1>0, <1>1a, <1>3, <1>6, <2>3
  <2> QED
    BY <1>8, <2>1, <2>2, <2>3
<1>11. FramesOK(fs, t + 1)
  BY <1>6, <1>9, <1>10, Zenon DEF FramesOK
<1> QED
  BY <1>1a, <1>3, <1>6, <1>11

(* A title added at the end of titles that have not its number.             *)
AddsTitle(k, us, ts) ==
    /\ k \in Nat /\ us \in Seq(Title)
    /\ \A i \in 1 .. Len(us) : us[i].tabindex # k
    /\ ts = Append(us, [tabindex |-> k, closable |-> TRUE])

AddedTitle(k, us, ts) ==
    /\ Len(ts) = Len(us) + 1 /\ Len(us) \in Nat /\ place(ts, k) = {Len(us) + 1}
    /\ hideFirst(ts) \in Seq(Title) /\ Len(hideFirst(ts)) = Len(us) + 1
    /\ hideFirst(ts)[1].closable = FALSE
    /\ hideFirst(ts)[Len(us) + 1].tabindex = k
    /\ \A i \in 1 .. Len(us) : hideFirst(ts)[i].tabindex = us[i].tabindex

(* It is the last one and the only one with the number.                     *)
LEMMA TitleAdded ==
  ASSUME NEW k, NEW us, NEW ts, AddsTitle(k, us, ts)
  PROVE  AddedTitle(k, us, ts)
<1>0. /\ k \in Nat /\ us \in Seq(Title)
      /\ \A i \in 1 .. Len(us) : us[i].tabindex # k
      /\ ts = Append(us, [tabindex |-> k, closable |-> TRUE])
  BY DEF AddsTitle
<1>1. PICK N \in Nat : N = Len(us)
  BY <1>0
<1>2. PICK x : x = [tabindex |-> k, closable |-> TRUE]
  OBVIOUS
<1>3. x \in Title /\ x.tabindex = k
  BY <1>0, <1>2 DEF Title
<1>5. /\ ts \in Seq(Title) /\ Len(ts) = N + 1 /\ DOMAIN ts = 1 .. (N + 1)
      /\ ts[N + 1] = x /\ \A i \in 1 .. N : ts[i] = us[i]
  BY <1>0, <1>1, <1>2, <1>3
<1>8. \A i \in 1 .. (N + 1) : i = N + 1 \/ i \in 1 .. N
  OBVIOUS
<1>11. place(ts, k) = {N + 1}
  BY <1>0, <1>1, <1>3, <1>5, <1>8 DEF place
<1>12. /\ hideFirst(ts) \in Seq(Title) /\ Len(hideFirst(ts)) = Len(ts)
       /\ hideFirst(ts)[1].closable = FALSE
       /\ \A i \in 1 .. Len(ts) : hideFirst(ts)[i].tabindex = ts[i].tabindex
  <2>1. Len(ts) > 0
    BY <1>5
  <2> QED
    BY <1>5, <2>1, FirstHidden, Zenon
<1>13. PICK vs : vs = hideFirst(ts)
  OBVIOUS
<1>14. N + 1 \in 1 .. (N + 1) /\ \A i \in 1 .. N : i \in 1 .. (N + 1)
  OBVIOUS
<1>15. vs[N + 1].tabindex = k /\ \A i \in 1 .. N : vs[i].tabindex = us[i].tabindex
  BY <1>3, <1>5, <1>12, <1>13, <1>14
<1> QED
  BY <1>1, <1>5, <1>11, <1>12, <1>13, <1>15 DEF AddedTitle

(* The mark after the titles were measured.                                 *)
LEMMA Measured ==
  ASSUME NEW overflow \in BOOLEAN, NEW n \in Nat, NEW mark \in 0 .. (n + 1)
  PROVE  tabAuto(overflow, n, mark) \in 0 .. (n + 1)
BY DEF tabAuto

(* A click on the menu.                                                     *)
LEMMA ClickStep ==
  ASSUME TabsInv, NEW id \in Ids, clickMenu(id)
  PROVE  TabsInv'
<1> DEFINE old == {i \in DOMAIN frames : frames[i].id = id}
           p == CHOOSE i \in old : TRUE
           t == IF old = {} THEN now ELSE frames[p].tabindex
           us == without(titles, t)
           gs == without(frames, t)
           ts2 == Append(us, [tabindex |-> t, closable |-> TRUE])
           fs2 == Append(gs, [tabindex |-> t, id |-> id])
           mark == IF \E i \in place(titles, t) : i < bar THEN bar - 1 ELSE bar
           n == CHOOSE i \in place(ts2, t) : TRUE
           before == IF old = {} THEN shown ELSE moved(shown, p)
<1>0. /\ now \in Nat /\ titles \in Seq(Title) /\ FramesOK(frames, now)
      /\ frames \in Seq(Frame) /\ DOMAIN frames = 1 .. Len(frames)
  BY DEF TabsInv, FramesOK
<1>1. /\ titles' = hideFirst(ts2) /\ frames' = fs2
      /\ \E overflow \in BOOLEAN : bar' = tabAuto(overflow, Len(ts2), mark)
      /\ tabClick(n, n, fs2, before) /\ now' = now + 1
  BY DEF clickMenu, addTab
<1>2. /\ t \in Nat /\ t <= now /\ FramesOK(gs, now)
      /\ \A i \in 1 .. Len(gs) : gs[i].tabindex # t /\ gs[i].id # id
      /\ astray # "lists" => Fit(us, gs) /\ Len(us) + 1 >= Len(titles)
  <2>1. CASE old = {}
    <3>1. t = now /\ \A i \in 1 .. Len(frames) : frames[i].id # id
      BY <1>0, <2>1
    <3> HIDE DEF t
    <3>2. \A i \in 1 .. Len(frames) : frames[i].tabindex # t
      <4>1. \A i \in 1 .. Len(frames) : frames[i].tabindex < now
        BY <1>0 DEF FramesOK
      <4> QED
        BY <1>0, <3>1, <4>1
    <3>3. gs = frames
      BY <1>0, <3>2, WithoutNone
    <3>4. ASSUME astray # "lists"
          PROVE  Fit(us, gs) /\ Len(us) + 1 >= Len(titles)
      <4>1. Fit(titles, frames)
        BY <3>4 DEF TabsInv
      <4>2. \A i \in 1 .. Len(titles) : titles[i].tabindex # t
        BY <3>2, <4>1 DEF Fit
      <4>3. us = titles
        BY <1>0, <4>2, WithoutNone
      <4> QED
        BY <1>0, <3>3, <4>1, <4>3
    <3> QED
      BY <1>0, <3>1, <3>2, <3>3, <3>4
  <2>2. CASE old # {}
    <3>1. p \in old
      BY <2>2
    <3> HIDE DEF p
    <3>2. p \in 1 .. Len(frames) /\ frames[p].id = id /\ t = frames[p].tabindex
      BY <1>0, <2>2, <3>1
    <3> HIDE DEF t, old
    <3>3. \A i \in 1 .. Len(frames) : frames[i].tabindex = t <=> i = p
      BY <1>0, <3>2 DEF FramesOK
    <3>5. gs \in Seq(Frame) /\ Skipped(frames, p, gs)
      <4>1. /\ frames \in Seq(Frame) /\ p \in 1 .. Len(frames)
            /\ \A i \in 1 .. Len(frames) : frames[i].tabindex = t <=> i = p
        BY <1>0, <3>2, <3>3
      <4> QED
        BY <4>1, WithoutOne
    <3>4. ASSUME astray # "lists"
          PROVE  Fit(us, gs) /\ Len(us) + 1 >= Len(titles)
      <4>1. Fit(titles, frames)
        BY <3>4 DEF TabsInv
      <4>2. p \in 1 .. Len(titles) /\ \A i \in 1 .. Len(titles) : titles[i].tabindex = t <=> i = p
        BY <3>2, <3>3, <4>1 DEF Fit
      <4>3. us \in Seq(Title) /\ Skipped(titles, p, us)
        BY <1>0, <4>2, WithoutOne
      <4> HIDE DEF us, gs
      <4>4. Fit(us, gs)
        BY <1>0, <3>5, <4>1, <4>2, <4>3, SkippedFit
      <4>5. Len(us) + 1 >= Len(titles)
        BY <1>0, <4>3 DEF Skipped
      <4> QED
        BY <4>4, <4>5
    <3> HIDE DEF us, gs
    <3>6. /\ FramesOK(gs, now)
          /\ \A i \in 1 .. Len(gs) : gs[i].tabindex # frames[p].tabindex /\ gs[i].id # frames[p].id
      BY <1>0, <3>2, <3>5, SkippedFrames
    <3>7. t \in Nat /\ t < now
      <4>1. frames[p] \in Frame /\ frames[p].tabindex < now
        BY <1>0, <3>2 DEF FramesOK
      <4> QED
        BY <3>2, <4>1 DEF Frame
    <3> QED
      BY <1>0, <3>2, <3>4, <3>6, <3>7
  <2> QED
    BY <2>1, <2>2
<1>3. us \in Seq(Title) /\ \A i \in 1 .. Len(us) : us[i].tabindex # t
  BY <1>0, WithoutAny
<1> HIDE DEF t, us, gs, before, mark
<1>4. PICK m, k, vs, hs, ts, fs :
         /\ m = now /\ k = t /\ vs = us /\ hs = gs /\ ts = ts2 /\ fs = fs2
  OBVIOUS
<1>4a. /\ ts = Append(vs, [tabindex |-> k, closable |-> TRUE])
       /\ fs = Append(hs, [tabindex |-> k, id |-> id])
  BY <1>4, Zenon
<1> HIDE DEF ts2, fs2
<1>4b. /\ m \in Nat /\ k \in Nat /\ k <= m /\ FramesOK(hs, m) /\ vs \in Seq(Title)
       /\ \A i \in 1 .. Len(hs) : hs[i].tabindex # k /\ hs[i].id # id
       /\ \A i \in 1 .. Len(vs) : vs[i].tabindex # k
  BY <1>0, <1>2, <1>3, <1>4
<1>5a. AddedTitle(k, vs, ts)
  <2>1. AddsTitle(k, vs, ts)
    BY <1>4a, <1>4b, Zenon DEF AddsTitle
  <2> QED
    BY <2>1, TitleAdded
<1>6a. /\ FramesOK(fs, m + 1)
       /\ Len(hs) \in Nat /\ Len(fs) = Len(hs) + 1 /\ DOMAIN fs = 1 .. (Len(hs) + 1)
       /\ fs[Len(hs) + 1].tabindex = k /\ \A i \in 1 .. Len(hs) : fs[i] = hs[i]
  <2>1. AddsFrame(m, k, id, hs, fs)
    BY <1>4a, <1>4b, Zenon DEF AddsFrame
  <2> QED
    BY <2>1, FrameAdded
<1>5. /\ Len(ts) = Len(us) + 1 /\ Len(us) \in Nat /\ place(ts, k) = {Len(us) + 1}
      /\ hideFirst(ts) \in Seq(Title) /\ Len(hideFirst(ts)) = Len(us) + 1
      /\ hideFirst(ts)[1].closable = FALSE
      /\ hideFirst(ts)[Len(us) + 1].tabindex = k
      /\ \A i \in 1 .. Len(us) : hideFirst(ts)[i].tabindex = us[i].tabindex
  BY <1>4, <1>5a, Zenon DEF AddedTitle
<1>6. /\ FramesOK(fs, now + 1)
      /\ Len(gs) \in Nat /\ Len(fs) = Len(gs) + 1 /\ DOMAIN fs = 1 .. (Len(gs) + 1)
      /\ fs[Len(gs) + 1].tabindex = k /\ \A i \in 1 .. Len(gs) : fs[i] = gs[i]
  BY <1>4, <1>6a, Zenon
<1>7. n = Len(us) + 1
  <2>1. place(ts2, t) = {Len(us) + 1}
    BY <1>4, <1>5, Zenon
  <2> QED
    BY <2>1
<1> HIDE DEF n
<1>8. /\ titles' = hideFirst(ts) /\ frames' = fs /\ now' = now + 1
      /\ this' = n /\ shown' = (IF n \in DOMAIN fs THEN n ELSE before)
      /\ astray' = (IF astray = "lists" THEN astray ELSE "no")
  BY <1>1, <1>4, Zenon DEF tabClick
<1>9. titles' # <<>> /\ titles'[1].closable = FALSE /\ titles' \in Seq(Title)
  <2>1. Len(titles') # 0 /\ Len(<<>>) = 0
    BY <1>5, <1>8
  <2> QED
    BY <1>5, <1>8, <2>1
<1>10. ASSUME astray' # "lists"
       PROVE  /\ Fit(titles', frames') /\ bar' \in 0 .. (Len(titles') + 1)
              /\ this' \in 1 .. Len(titles') /\ shown' = this'
  <2>1. astray # "lists"
    BY <1>8, <1>10
  <2>2. Fit(us, gs) /\ Len(us) + 1 >= Len(titles) /\ bar \in 0 .. (Len(titles) + 1)
    BY <1>2, <2>1 DEF TabsInv
  <2>3. Len(us) = Len(gs) /\ \A i \in 1 .. Len(us) : us[i].tabindex = gs[i].tabindex
    BY <2>2 DEF Fit
  <2>4. ASSUME NEW i \in 1 .. (Len(us) + 1)
        PROVE  titles'[i].tabindex = frames'[i].tabindex
    <3>1. CASE i = Len(us) + 1
      BY <1>5, <1>6, <1>8, <2>3, <3>1
    <3>2. CASE i \in 1 .. Len(us)
      BY <1>5, <1>6, <1>8, <2>3, <3>2
    <3> QED
      BY <1>5, <3>1, <3>2
  <2>5. Len(titles') = Len(us) + 1 /\ Len(frames') = Len(us) + 1
    BY <1>5, <1>6, <1>8, <2>3
  <2>6. Fit(titles', frames')
    BY <2>4, <2>5 DEF Fit
  <2>7. n \in 1 .. Len(titles') /\ n \in DOMAIN fs
    BY <1>5, <1>6, <1>7, <2>3, <2>5
  <2>8. mark \in 0 .. (Len(us) + 2)
    <3>1. \A i \in place(titles, t) : i \in Nat /\ i > 0
      BY <1>0 DEF place
    <3>2. Len(titles) \in Nat /\ bar \in Nat /\ bar <= Len(us) + 2
      BY <1>0, <1>5, <2>2
    <3>3. CASE \E i \in place(titles, t) : i < bar
      <4>1. bar > 0 /\ mark = bar - 1
        BY <3>1, <3>2, <3>3 DEF mark
      <4> QED
        BY <1>5, <3>2, <4>1
    <3>4. CASE ~\E i \in place(titles, t) : i < bar
      BY <1>5, <3>2, <3>4 DEF mark
    <3> QED
      BY <3>3, <3>4
  <2>9. bar' \in 0 .. (Len(titles') + 1)
    <3>1. PICK overflow \in BOOLEAN : bar' = tabAuto(overflow, Len(ts), mark)
      BY <1>1, <1>4
    <3>2. Len(ts) \in Nat /\ mark \in 0 .. (Len(ts) + 1) /\ Len(titles') = Len(ts)
      BY <1>5, <2>5, <2>8
    <3> QED
      BY <3>1, <3>2, Measured
  <2> QED
    BY <1>8, <2>6, <2>7, <2>9
<1> QED
  BY <1>0, <1>6, <1>8, <1>9, <1>10 DEF TabsInv

(* A tab is closed: another than the first, so one is left.                 *)
LEMMA CloseStep ==
  ASSUME TabsInv, tabDelete
  PROVE  TabsInv'
<1>0. /\ now \in Nat /\ now' = now + 1
      /\ titles \in Seq(Title) /\ FramesOK(frames, now)
      /\ frames \in Seq(Frame) /\ DOMAIN frames = 1 .. Len(frames) /\ Len(frames) \in Nat
      /\ DOMAIN titles = 1 .. Len(titles) /\ Len(titles) \in Nat
  BY DEF TabsInv, FramesOK, tabDelete
<1>1. PICK n \in DOMAIN titles : titles[n].closable /\
        LET p == index(n)
            next == IF p < children THEN p + 1 ELSE p - 1
            shown2 == IF this = n /\ next \in DOMAIN frames THEN next ELSE shown
        IN  /\ titles' = RemoveAt(titles, n)
            /\ bar' = IF n < bar THEN bar - 1 ELSE bar
            /\ this' = moved(IF this = n THEN child(next) ELSE this, n)
            /\ IF p \in DOMAIN frames
               THEN frames' = RemoveAt(frames, p) /\ shown' = moved(shown2, p)
               ELSE frames' = frames /\ shown' = shown2
            /\ astray' = IF behind(n) THEN "lists"
                         ELSE IF this = n /\ next = bar /\ astray = "no" THEN "selection"
                         ELSE astray
  BY DEF tabDelete
<1> DEFINE N == Len(titles)
           p == index(n)
           next == IF p < children THEN p + 1 ELSE p - 1
           shown2 == IF this = n /\ next \in DOMAIN frames THEN next ELSE shown
<1>2. /\ titles' = RemoveAt(titles, n)
      /\ bar' = IF n < bar THEN bar - 1 ELSE bar
      /\ this' = moved(IF this = n THEN child(next) ELSE this, n)
      /\ p \in DOMAIN frames => frames' = RemoveAt(frames, p) /\ shown' = moved(shown2, p)
      /\ p \notin DOMAIN frames => frames' = frames
      /\ astray' = IF behind(n) THEN "lists"
                   ELSE IF this = n /\ next = bar /\ astray = "no" THEN "selection"
                   ELSE astray
  BY <1>1, Zenon
<1> HIDE DEF shown2, next, p
<1>3. titles # <<>> /\ n \in 1 .. N
  BY <1>0
<1>3a. n # 1 /\ n \in Nat /\ N > 1 /\ titles[1].closable = FALSE
  BY <1>0, <1>1, <1>3 DEF TabsInv
<1>4. titles' \in Seq(Title) /\ Skipped(titles, n, titles')
  BY <1>0, <1>2, <1>3, RemoveAtSkips
<1>5. Len(titles') = N - 1 /\ titles' # <<>> /\ titles'[1] = titles[1]
  <2>1. Len(titles') = N - 1 /\ 1 \in 1 .. (N - 1) /\ 1 < n
    BY <1>0, <1>3, <1>3a, <1>4 DEF Skipped
  <2> QED
    BY <1>0, <1>3a, <1>4, <2>1 DEF Skipped
<1>6. FramesOK(frames', now + 1)
  <2>1. CASE p \in DOMAIN frames
    <3>1. p \in 1 .. Len(frames) /\ frames' = RemoveAt(frames, p)
      BY <1>0, <1>2, <2>1
    <3>2. frames' \in Seq(Frame) /\ Skipped(frames, p, frames')
      BY <1>0, <3>1, RemoveAtSkips
    <3>3. FramesOK(frames', now)
      BY <1>0, <3>1, <3>2, SkippedFrames
    <3> QED
      BY <1>0, <3>3, FramesLater
  <2>2. CASE p \notin DOMAIN frames
    BY <1>0, <1>2, <2>2, FramesLater
  <2> QED
    BY <2>1, <2>2
<1>7. ASSUME astray' # "lists"
      PROVE  /\ Fit(titles', frames') /\ bar' \in 0 .. (Len(titles') + 1)
             /\ astray' = "no" => this' \in 1 .. Len(titles') /\ shown' = this'
  <2>1. ~behind(n) /\ astray # "lists"
    BY <1>2, <1>7
  <2>2. Fit(titles, frames) /\ bar \in 0 .. (N + 1) /\ Len(frames) = N
    BY <2>1 DEF TabsInv, Fit
  <2>3. p = n /\ (bar = 0 \/ n < bar)
    BY <1>0, <1>3, <2>1, <2>2 DEF p, index, behind
  <2>4. n \in 1 .. Len(frames) /\ frames' = RemoveAt(frames, n) /\ shown' = moved(shown2, n)
    BY <1>0, <1>2, <1>3, <2>2, <2>3
  <2>5. Skipped(frames, n, frames')
    BY <1>0, <2>4, RemoveAtSkips
  <2>6. Fit(titles', frames')
    BY <1>0, <1>3, <1>4, <2>2, <2>5, SkippedFit
  <2>7. bar' \in 0 .. (Len(titles') + 1)
    BY <1>0, <1>2, <1>3, <1>3a, <1>5, <2>2, <2>3
  <2>8. ASSUME astray' = "no"
        PROVE  this' \in 1 .. Len(titles') /\ shown' = this'
    <3>1. astray = "no" /\ ~(this = n /\ next = bar)
      BY <1>2, <2>1, <2>8
    <3>2. this \in 1 .. N /\ shown = this
      BY <1>3, <3>1 DEF TabsInv
    <3>3. CASE this # n
      <4>1. this' = moved(this, n) /\ shown' = moved(this, n)
        BY <1>2, <2>4, <3>2, <3>3 DEF shown2
      <4> QED
        BY <1>0, <1>3, <1>3a, <1>5, <3>2, <3>3, <4>1 DEF moved
    <3>4. CASE this = n
      <4>1. next # bar
        BY <3>1, <3>4
      <4>2. /\ next \in 1 .. N /\ next # n
            /\ bar = 0 \/ next < bar
        <5>1. CASE bar = 0
          BY <1>0, <1>3, <1>3a, <2>3, <5>1 DEF next, children
        <5>2. CASE bar # 0
          <6>1. n < bar /\ bar \in Nat /\ bar <= N + 1 /\ children = N + 1
            BY <2>2, <2>3, <5>2 DEF children
          <6>2. next = n + 1
            BY <1>0, <1>3, <2>3, <6>1 DEF next
          <6> QED
            BY <1>0, <1>3, <1>3a, <4>1, <6>1, <6>2
        <5> QED
          BY <5>1, <5>2
      <4>3. child(next) = next
        BY <4>1, <4>2, <2>2, <1>0 DEF child, behind
      <4>4. shown2 = next
        BY <1>0, <2>2, <3>4, <4>2 DEF shown2
      <4>5. this' = moved(next, n) /\ shown' = moved(next, n)
        BY <1>2, <2>4, <3>4, <4>3, <4>4
      <4> QED
        BY <1>0, <1>3, <1>3a, <1>5, <4>2, <4>5 DEF moved
    <3> QED
      BY <3>3, <3>4
  <2> QED
    BY <2>6, <2>7, <2>8
<1> QED
  BY <1>0, <1>3a, <1>4, <1>5, <1>6, <1>7 DEF TabsInv

(* A title is clicked.                                                      *)
LEMMA TitleStep ==
  ASSUME TabsInv, clickTitle
  PROVE  TabsInv'
<1>0. /\ now \in Nat /\ now' = now + 1 /\ FramesOK(frames, now)
      /\ titles' = titles /\ frames' = frames /\ bar' = bar /\ titles \in Seq(Title)
  BY DEF TabsInv, clickTitle
<1>1. PICK n \in DOMAIN titles : tabClick(n, n, frames, shown)
  BY DEF clickTitle
<1>2. /\ this' = n /\ shown' = (IF n \in DOMAIN frames THEN n ELSE shown)
      /\ astray' = (IF astray = "lists" THEN astray ELSE "no")
  BY <1>1, Zenon DEF tabClick
<1>3. n \in 1 .. Len(titles) /\ titles # <<>>
  BY <1>0
<1>4. FramesOK(frames, now + 1)
  BY <1>0, FramesLater
<1>5. ASSUME astray' # "lists"
      PROVE  /\ Fit(titles, frames) /\ bar \in 0 .. (Len(titles) + 1)
             /\ shown' = n
  <2>1. Fit(titles, frames) /\ bar \in 0 .. (Len(titles) + 1)
    BY <1>2, <1>5 DEF TabsInv
  <2>2. DOMAIN frames = 1 .. Len(titles)
    BY <1>0, <2>1 DEF Fit, FramesOK
  <2> QED
    BY <1>2, <1>3, <2>1, <2>2
<1> QED
  BY <1>0, <1>2, <1>3, <1>4, <1>5 DEF TabsInv

(* The titles are measured again.                                           *)
LEMMA ResizeStep ==
  ASSUME TabsInv, resize
  PROVE  TabsInv'
<1>1. PICK overflow \in BOOLEAN : bar' = tabAuto(overflow, Len(titles), bar)
  BY DEF resize
<1>2. /\ this' = (IF bar' = 0 /\ this = OnBar THEN 0 ELSE this)
      /\ titles' = titles /\ frames' = frames /\ shown' = shown /\ now' = now
      /\ astray' = astray
  BY DEF resize
<1>3. titles \in Seq(Title) /\ Len(titles) \in Nat
  BY DEF TabsInv
<1>4. ASSUME astray # "lists"
      PROVE  bar' \in 0 .. (Len(titles) + 1)
  BY <1>1, <1>3, <1>4, Measured DEF TabsInv
<1>5. ASSUME astray = "no", titles # <<>>
      PROVE  this' = this
  <2>1. this \in 1 .. Len(titles)
    BY <1>5 DEF TabsInv
  <2> QED
    BY <1>2, <1>3, <2>1 DEF OnBar
<1> QED
  BY <1>2, <1>4, <1>5 DEF TabsInv

(* From the first click on a tab is selected and its own frame is shown, and *)
(* no item has two, in whatever order tabs are opened, opened again,         *)
(* selected and closed and the window is resized, whatever the menu.  Closing *)
(* the selected tab before the overflow mark, or a tab behind it, is all     *)
(* that ever puts them in disorder (addTab, layui's tabDelete and tabAuto).  *)
THEOREM TabsShown ==
  CmsTabsSpec => []SelectedTabIsShown
<1>1. CmsTabsInit => TabsInv
  <2> SUFFICES ASSUME CmsTabsInit PROVE TabsInv
    OBVIOUS
  <2>1. titles = <<>> /\ frames = <<>> /\ now = 0 /\ bar = 0
    BY DEF CmsTabsInit
  <2>2. titles \in Seq(Title) /\ Len(titles) = 0
    BY <2>1
  <2>3. frames \in Seq(Frame) /\ Len(frames) = 0
    BY <2>1
  <2>4. FramesOK(frames, now) /\ Fit(titles, frames)
    BY <2>2, <2>3 DEF FramesOK, Fit
  <2> QED
    BY <2>1, <2>2, <2>4 DEF TabsInv
<1>2. TabsInv /\ [\E items \in SUBSET Ids : CmsTabsNext(items)]_tabVars => TabsInv'
  <2> SUFFICES ASSUME TabsInv, [\E items \in SUBSET Ids : CmsTabsNext(items)]_tabVars
               PROVE  TabsInv'
    OBVIOUS
  <2>1. ASSUME NEW id \in Ids, clickMenu(id) PROVE TabsInv'
    BY <2>1, ClickStep
  <2>2. CASE UNCHANGED tabVars
    BY <2>2 DEF tabVars, TabsInv, FramesOK, Fit
  <2> QED
    BY <2>1, <2>2, TitleStep, CloseStep, ResizeStep DEF CmsTabsNext
<1>3. TabsInv => SelectedTabIsShown
  <2> SUFFICES ASSUME TabsInv PROVE SelectedTabIsShown
    OBVIOUS
  <2>1. titles \in Seq(Title) /\ frames \in Seq(Frame)
    BY DEF TabsInv, FramesOK
  <2>2. DOMAIN titles = 1 .. Len(titles) /\ DOMAIN frames = 1 .. Len(frames)
    BY <2>1
  <2> QED
    BY <2>2 DEF TabsInv, FramesOK, Fit, SelectedTabIsShown
<1> QED
  BY <1>1, <1>2, <1>3, PTL DEF CmsTabsSpec

=============================================================================
