------------------------------ MODULE CmsMenu ------------------------------
(* The blog's administration page (2019104279, static/js/cms.js): the menu, *)
(* made from rows (static/js/fortree.js), above the tabs.                   *)
EXTENDS CmsTabs, FiniteSets, Relation

VARIABLES
    menu,       \* what addNav is given: rows with id and pid
    html        \* the menu: elements opened and closed, in order

cmsVars == <<menu, html, tabVars>>

-----------------------------------------------------------------------------
(* fortree: the rows whose parent is topid are the roots.                   *)
topid == 0

fathers(arr) == SelectSeq(arr, LAMBDA v : v.pid = topid)

(* Seeded fault: the search stops at the first child.                       *)
getChildren_First(arr, id) ==
    LET all == SelectSeq(arr, LAMBDA v : v.pid # topid /\ v.pid = id)
    IN  SubSeq(all, 1, IF all = <<>> THEN 0 ELSE 1)

getChildren(arr, id) == SelectSeq(arr, LAMBDA v : v.pid # topid /\ v.pid = id)

opens(id) == <<"open", id>>
closes(id) == <<"close", id>>

RECURSIVE each(_, _)
each(arr, list) ==
    IF list = <<>> THEN <<>>
    ELSE LET v == Head(list)
         IN  <<opens(v.id)>> \o each(arr, getChildren(arr, v.id))
                \o <<closes(v.id)>> \o each(arr, Tail(list))

addNav(arr) == each(arr, fathers(arr))

(* Rows as in the main page: numbered, in any order, under any parent, but  *)
(* none twice.                                                              *)
MenuRows == {arr \in BoundedSeq([id : Ids, pid : Ids], MaxRows) :
                \A i, j \in DOMAIN arr : arr[i].id = arr[j].id => i = j}

(* An item of the menu without items below it is a click away.              *)
leaves == {id \in Ids : opens(id) \in Range(html)
                            /\ getChildren(menu, id) = <<>>}

(* The page starts with the menu and no tab.                                *)
CmsInit ==
    /\ menu \in MenuRows
    /\ html = addNav(menu)
    /\ CmsTabsInit

CmsNext ==
    /\ CmsTabsNext(leaves)
    /\ UNCHANGED <<menu, html>>

-----------------------------------------------------------------------------
CmsTypeOK ==
    /\ menu \in MenuRows
    /\ html \in Seq({"open", "close"} \X Ids)
    /\ CmsTabsTypeOK

(* The item that encloses the one opened at place n of the menu.            *)
enclosing(n) ==
    LET open == {m \in 1 .. n - 1 : html[m][1] = "open"
                    /\ ~\E k \in m .. n - 1 : html[k] = closes(html[m][2])}
    IN  IF open = {} THEN topid ELSE html[CHOOSE m \in open : \A k \in open : k <= m][2]

(* The rows below topid.                                                    *)
parentOf(i, j) == menu[j].pid = menu[i].id /\ menu[i].id # topid
below == LET up == [i, j \in DOMAIN menu |-> parentOf(i, j)]
             reaches == TransitiveClosure(up, DOMAIN menu)
         IN  {j \in DOMAIN menu : \E i \in DOMAIN menu :
                  menu[i].pid = topid /\ (i = j \/ reaches[i, j])}

(* The menu holds every row that topid is above of exactly once, inside its *)
(* parent, with every element closed; rows whose parents form a circle, or  *)
(* whose parent is missing, are left out, and are no reason to run forever. *)
MenuIsTheTree ==
    /\ Len(html) = 2 * Cardinality(below)
    /\ \A j \in below :
          \E n \in DOMAIN html :
              /\ html[n] = opens(menu[j].id)
              /\ enclosing(n) = menu[j].pid
              /\ \E m \in n .. Len(html) : html[m] = closes(menu[j].id)

=============================================================================
